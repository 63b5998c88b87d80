---------------------------- MODULE KVRef_proofs ----------------------------
(***************************************************************************)
(* The factory image is kept when it fills its blocks, and the store then  *)
(* implements KVAbstract.                                                  *)
(***************************************************************************)
EXTENDS KVStore_proofs

-----------------------------------------------------------------------------
(* The factory nodes.                                                      *)

(* What a step changes on flash is outside the blocks of the image. *)
Outside ==
    /\ \A x \in flash : x \notin flash' => x.blk \notin RoBlocks
    /\ \A x \in flash' : x \notin flash => x.blk \notin RoBlocks /\ (x.st = "live" => x.rw)

LEMMA RoBlocksAre ==
    /\ RoBlocks \subseteq Blocks /\ -1 \notin RoBlocks
    /\ \A e \in RoNodes : e.blk \in RoBlocks
    /\ \A b \in RoBlocks : \E e \in RoNodes : e.blk = b
<1>1. RoBlocks \subseteq Blocks
  BY RoAssumption, EntryFields DEF RoBlocks
<1>2. -1 \notin Blocks
  BY DEF Blocks
<1>3. QED
  BY <1>1, <1>2 DEF RoBlocks

LEMMA WritableOutside ==
    ASSUME FactoryInv, NEW e \in flash \cup old \cup todo, e.rw
    PROVE  e.blk \notin RoBlocks
BY RoAssumption DEF FactoryInv

(* A step that stays outside and does not scan a block. *)
LEMMA FactoryStep ==
    ASSUME FactoryInv, Outside, roc' = roc, pc # "init" \/ idx = N,
           gcb' \notin RoBlocks, newgc' \notin RoBlocks,
           old' \cup todo' \subseteq old \cup todo \cup flash
    PROVE  FactoryInv'
<1>1. RoNodes \subseteq flash'
  BY RoBlocksAre DEF FactoryInv, Outside
<1>2. \A e \in flash' : e.blk \in RoBlocks => e \in RoNodes
  BY DEF FactoryInv, Outside
<1>3. \A e \in flash' : e.st = "live" /\ ~e.rw => e \in RoNodes
  BY DEF FactoryInv, Outside
<1>4. \A b \in Blocks : roc'[b] = 0 <=> b \notin RoBlocks
  BY ConstantsAssumption DEF FactoryInv, Scanned, Blocks
<1>5. \A e \in old' \cup todo' : e.rw => e.blk \notin RoBlocks
  BY WritableOutside
<1>6. QED
  BY <1>1, <1>2, <1>3, <1>4, <1>5 DEF FactoryInv

LEMMA RmOutside ==
    ASSUME FactoryInv, NEW e, e.rw => e.blk \notin RoBlocks, kvnode_rm(e)
    PROVE  Outside /\ roc' = roc
<1>1. CASE UNCHANGED <<flash, wo, kvsz, cnt, roc>>
  BY <1>1 DEF Outside
<1>2. CASE /\ e.rw /\ flash' = (flash \ {e}) \cup {Space(e.blk, e.off, e.size, "dead")}
           /\ roc' = roc
  BY <1>2 DEF Outside, Space
<1>3. CASE e.rw /\ EraseBlock(e.blk)
  BY <1>3 DEF Outside, EraseBlock, Erased, In
<1>4. QED
  BY <1>1, <1>2, <1>3 DEF kvnode_rm

LEMMA CoverOutside ==
    ASSUME NEW b, b \notin RoBlocks, NEW s, NEW n, n.blk = b, n.st = "live" => n.rw,
           flash' = Cover(b, s, n)
    PROVE  Outside
<1>1. \A x \in flash : x \notin flash' => x.blk = b
  BY DEF Cover, Remains, In
<1>2. \A x \in flash' : x \notin flash => x.blk = b /\ (x.st = "live" => x.rw)
  BY DEF Cover, Space
<1>3. QED
  BY <1>1, <1>2 DEF Outside

LEMMA ProgramOutside ==
    ASSUME NEW b, b \notin RoBlocks, NEW s, NEW k, NEW v, NEW r,
           Programmed(b, s, k, v, r) \/ VerifyFailed(b, s)
    PROVE  Outside /\ roc' = roc
<1>1. CASE Programmed(b, s, k, v, r)
  <2>1. Node(b, wo[b], s, k, v, r).blk = b /\ Node(b, wo[b], s, k, v, r).rw
    BY DEF Node
  <2>2. flash' = Cover(b, s, Node(b, wo[b], s, k, v, r)) /\ roc' = roc
    BY <1>1 DEF Programmed
  <2>3. QED
    BY <2>1, <2>2, CoverOutside
<1>2. CASE VerifyFailed(b, s)
  <2>1. PICK t \in {"dead", "torn"} : flash' = Cover(b, s, Space(b, wo[b], s, t))
    BY <1>2 DEF VerifyFailed
  <2>2. Space(b, wo[b], s, t).blk = b /\ Space(b, wo[b], s, t).rw
    BY DEF Space
  <2>3. QED
    BY <1>2, <2>1, <2>2, CoverOutside DEF VerifyFailed
<1>3. QED
  BY <1>1, <1>2

(* kvblock_calc and kv_init leave the full blocks of the image alone. *)
LEMMA InitBlockFactory ==
    ASSUME Filled, StoreInv, FactoryInv, InitBlock
    PROVE  FactoryInv'
<1> DEFINE b == idx
<1> DEFINE w == IF Blank(b) /\ In(b) # {} THEN 0 ELSE WriteOffset(b)
<1> DEFINE free == BlockSize - w
<1>1. /\ pc = "init" /\ idx < N /\ pc' = pc /\ idx' = idx + 1
      /\ flash' = IF Blank(b) THEN Erased(b) ELSE flash
      /\ roc' = [roc EXCEPT ![b] = Cardinality({e \in Live(b) : ~e.rw})]
      /\ gcb' = gcb \/ (gcb' = b /\ free > 1)
      /\ UNCHANGED <<old, newgc, todo>>
  BY DEF InitBlock
<1>t. TypeOK /\ FlashTypes
  BY DEF StoreInv, FlashTypes, TypeOK
<1>b. b \in Blocks /\ idx \in Nat /\ BlockSize \in Nat /\ roc \in [Blocks -> Nat]
  BY <1>1, <1>t, ConstantsAssumption DEF TypeOK, Blocks
<1>2. b \in RoBlocks => ~Blank(b)
  BY RoBlocksAre, RoAssumption DEF FactoryInv, Blank, Live, In
<1>3. Outside
  BY <1>1, <1>2 DEF Outside, Erased, In
<1>4. b \in RoBlocks => ~(free > 1)
  <2>1. SUFFICES ASSUME b \in RoBlocks PROVE ~(free > 1)
    OBVIOUS
  <2>2. PICK f \in RoNodes : f.blk = b /\ f.off + f.size = BlockSize - 1
    BY <2>1 DEF Filled, RoBlocks
  <2>3. f \in flash /\ f.st # "torn"
    BY RoAssumption DEF FactoryInv
  <2>4. /\ f.off + f.size <= EndOfNodes(b) /\ EndOfNodes(b) <= WriteOffset(b)
        /\ EndOfNodes(b) \in 0 .. BlockSize /\ WriteOffset(b) \in 0 .. BlockSize
    BY <1>b, <1>t, <2>2, <2>3, ScanSound
  <2>5. w = WriteOffset(b)
    BY <2>1, <1>2
  <2> HIDE DEF w, b
  <2>6. w \in Int /\ BlockSize - 1 <= w
    BY <1>b, <2>2, <2>4, <2>5
  <2>7. QED
    BY <1>b, <2>6
<1>5. gcb' \notin RoBlocks
  BY <1>1, <1>4 DEF FactoryInv
<1>6. \A c \in Blocks : Scanned(c)' => (roc'[c] = 0 <=> c \notin RoBlocks)
  <2> DEFINE R == {e \in Live(b) : ~e.rw}
  <2>1. IsFiniteSet(R)
    BY <1>t, LiveFinite, FS_Subset
  <2>2. R = {} <=> b \notin RoBlocks
    <3>1. b \in RoBlocks => R # {}
      BY RoBlocksAre, RoAssumption DEF FactoryInv, Live, In
    <3>2. R # {} => b \in RoBlocks
      BY RoBlocksAre DEF FactoryInv, Live, In
    <3>3. QED
      BY <3>1, <3>2
  <2>3. Cardinality(R) = 0 <=> R = {}
    BY <2>1, FS_EmptySet
  <2>4. roc' = [roc EXCEPT ![b] = Cardinality(R)]
    BY <1>1
  <2> HIDE DEF R
  <2>5. ASSUME NEW c \in Blocks, Scanned(c)', c # b PROVE roc'[c] = roc[c] /\ Scanned(c)
    <3>1. c \in Int /\ c < idx + 1
      BY <2>5, <1>1 DEF Scanned, Blocks
    <3>2. c < idx
      BY <3>1, <2>5, <1>b
    <3>3. QED
      BY <2>4, <2>5, <3>2, <1>b DEF Scanned
  <2>6. roc'[b] = Cardinality(R)
    BY <2>4, <1>b
  <2>7. QED
    BY <2>2, <2>3, <2>5, <2>6 DEF FactoryInv
<1> HIDE DEF b, w, free
<1>7. RoNodes \subseteq flash'
  BY <1>3, RoBlocksAre DEF FactoryInv, Outside
<1>8. \A e \in flash' : e.blk \in RoBlocks => e \in RoNodes
  BY <1>3 DEF FactoryInv, Outside
<1>9. \A e \in flash' : e.st = "live" /\ ~e.rw => e \in RoNodes
  BY <1>3 DEF FactoryInv, Outside
<1>10. (newgc \notin RoBlocks)' /\ \A e \in old' \cup todo' : e.rw => e.blk \notin RoBlocks
  BY <1>1 DEF FactoryInv
<1>11. QED
  BY <1>5, <1>6, <1>7, <1>8, <1>9, <1>10 DEF FactoryInv

LEMMA TornOutside ==
    ASSUME ~LossOverRemains, NEW b, b \notin RoBlocks, NEW s, NEW k, NEW v, NEW r,
           flash' \in TornProgram(b, s, k, v, r)
    PROVE  Outside
<1>1. CASE flash' = flash
  BY <1>1 DEF Outside
<1>2. CASE flash' = Cover(b, s, Node(b, wo[b], s, k, v, r))
  BY <1>2, CoverOutside DEF Node
<1>3. ASSUME NEW z \in 1 .. s - 1, flash' = Cover(b, z, Space(b, wo[b], z, "torn"))
      PROVE  Outside
  BY <1>3, CoverOutside DEF Space
<1>4. QED
  BY <1>1, <1>2, <1>3 DEF TornProgram, CutShort

LEMMA TornRmOutside ==
    ASSUME NEW e, e.rw => e.blk \notin RoBlocks, flash' \in TornRm(e)
    PROVE  Outside
<1>1. CASE flash' = flash
  BY <1>1 DEF Outside
<1>2. CASE e.rw /\ flash' = (flash \ In(e.blk)) \cup {Space(e.blk, 0, BlockSize, "torn")}
  BY <1>2 DEF Outside, In, Space
<1>3. QED
  BY <1>1, <1>2 DEF TornRm

LEMMA PowerLossFactory ==
    ASSUME ~LossOverRemains, StoreInv, FactoryInv, PowerLoss
    PROVE  FactoryInv'
<1>1. /\ flash' \in Survives /\ pc' = "init" /\ idx' = 0 /\ gcb' = -1 /\ newgc' = -1
      /\ old' = {} /\ todo' = {}
  BY DEF PowerLoss
<1>5. Outside
  <2>1. CASE pc = "set"
    <3>1. \/ flash' = flash
          \/ /\ Usable(bid)
             /\ flash' \in TornProgram(bid, ValSize[op.val], op.key, op.val, ver)
      BY <1>1, <2>1 DEF Survives
    <3>2. Usable(bid) => bid \notin RoBlocks
      BY <2>1 DEF Usable, FactoryInv, Scanned, StoreInv, TypeOK
    <3>3. QED
      BY <3>1, <3>2, TornOutside DEF Outside
  <2>2. CASE pc \in {"setrm", "delrm"}
    <3>1. PICK e \in old : flash' \in TornRm(e)
      BY <1>1, <2>2 DEF Survives
    <3>2. QED
      BY <3>1, WritableOutside, TornRmOutside
  <2>3. CASE pc = "gccopy"
    <3>1. \/ flash' = flash
          \/ \E e \in todo : flash' \in TornProgram(gcb, e.size, e.key, e.val, NextVer(e.ver))
      BY <1>1, <2>3 DEF Survives
    <3>2. gcb \notin RoBlocks
      BY DEF FactoryInv
    <3>3. QED
      BY <3>1, <3>2, TornOutside DEF Outside
  <2>4. CASE pc \in {"gcrm", "reset"}
    <3>1. flash' = flash \/ \E e \in todo : flash' \in TornRm(e)
      BY <1>1, <2>4 DEF Survives
    <3>2. QED
      BY <3>1, WritableOutside, TornRmOutside DEF Outside
  <2>5. CASE pc = "verify"
    <3>1. flash' = flash \/ \E e \in todo : \E f \in Mapped(e) : flash' \in TornRm(Loser(e, f))
      BY <1>1, <2>5 DEF Survives
    <3>2. ASSUME NEW e \in todo, NEW f \in Mapped(e) PROVE Loser(e, f) \in flash \cup old \cup todo
      BY DEF Mapped, Loser
    <3>3. QED
      BY <3>1, <3>2, WritableOutside, TornRmOutside DEF Outside
  <2>6. CASE pc \notin {"set", "setrm", "delrm", "gccopy", "gcrm", "reset", "verify"}
    <3>1. flash' = flash
      BY <1>1, <2>6 DEF Survives
    <3>2. QED
      BY <3>1 DEF Outside
  <2>7. QED
    BY <2>1, <2>2, <2>3, <2>4, <2>5, <2>6
<1>6. RoNodes \subseteq flash'
  BY <1>5, RoBlocksAre DEF FactoryInv, Outside
<1>7. \A e \in flash' : /\ e.blk \in RoBlocks => e \in RoNodes
                        /\ e.st = "live" /\ ~e.rw => e \in RoNodes
  BY <1>5 DEF FactoryInv, Outside
<1>8. \A b \in Blocks : ~Scanned(b)'
  BY <1>1 DEF Scanned, Blocks
<1>9. QED
  BY <1>1, <1>6, <1>7, <1>8, RoBlocksAre DEF FactoryInv

(* The steps of the calls. *)
LEMMA CallFactory ==
    ASSUME StoreInv, FactoryInv, Step \/ Request, ~InitBlock
    PROVE  FactoryInv'
<1>f. gcb \notin RoBlocks /\ newgc \notin RoBlocks /\ -1 \notin RoBlocks
  BY RoBlocksAre DEF FactoryInv
<1>q. flash' = flash => Outside
  BY DEF Outside
<1>1. CASE InitVerify
  <2>1. todo' \subseteq flash
    BY <1>1 DEF InitVerify, Conflicts
  <2>2. QED
    BY <1>1, <1>f, <1>q, <2>1, FactoryStep DEF InitVerify
<1>2. CASE \E e, f \in flash : Verify(e, f)
  <2>1. PICK e \in flash, f \in flash : Verify(e, f)
    BY <1>2
  <2>2. /\ pc = "verify" /\ todo' = todo \ {e} /\ UNCHANGED <<gcb, old, newgc>>
        /\ UNCHANGED <<flash, wo, kvsz, cnt, roc>> \/ kvnode_rm(Loser(e, f))
    BY <2>1 DEF Verify
  <2>3. Loser(e, f) \in flash
    BY DEF Loser
  <2>4. Outside /\ roc' = roc
    BY <2>2, <2>3, <1>q, WritableOutside, RmOutside
  <2>5. QED
    BY <2>2, <2>4, <1>f, FactoryStep
<1>3. CASE VerifyEnd
  BY <1>3, <1>f, <1>q, FactoryStep DEF VerifyEnd
<1>4. CASE SetSkip
  <2>1. /\ pc = "set" /\ newgc' \in {newgc, -1} /\ old' \in {old, {}} /\ todo' \in {todo, {}}
        /\ UNCHANGED <<flash, roc, gcb>>
    BY <1>4 DEF SetSkip, NextBlock, Return
  <2>2. QED
    BY <2>1, <1>f, <1>q, FactoryStep
<1>5. CASE SetProgram
  <2>1. /\ pc = "set" /\ newgc' \in {newgc, -1} /\ old' \in {old, {}} /\ todo' \in {todo, {}}
        /\ UNCHANGED gcb /\ Usable(bid)
        /\ \/ Programmed(bid, ValSize[op.val], op.key, op.val, ver)
           \/ VerifyFailed(bid, ValSize[op.val])
    BY <1>5 DEF SetProgram, NextBlock, Return
  <2>2. bid \notin RoBlocks
    BY <2>1 DEF Usable, FactoryInv, Scanned, StoreInv, TypeOK
  <2>3. Outside /\ roc' = roc
    BY <2>1, <2>2, ProgramOutside
  <2>4. QED
    BY <2>1, <2>3, <1>f, FactoryStep
<1>6. CASE SetRm \/ DelRm
  <2>1. PICK e \in old : kvnode_rm(e)
    BY <1>6 DEF SetRm, DelRm
  <2>2. pc # "init" /\ newgc' = -1 /\ old' = {} /\ todo' = {} /\ UNCHANGED gcb
    BY <1>6 DEF SetRm, DelRm, Return
  <2>3. Outside /\ roc' = roc
    BY <2>1, WritableOutside, RmOutside
  <2>4. QED
    BY <2>2, <2>3, <1>f, FactoryStep
<1>7. CASE \E b \in Blocks : GcPick(b)
  <2>1. /\ pc = "gc" /\ todo' \subseteq flash /\ UNCHANGED <<flash, roc, gcb, newgc, old>>
    BY <1>7 DEF GcPick, Live, In
  <2>2. QED
    BY <2>1, <1>f, <1>q, FactoryStep
<1>8. CASE \E e \in todo : GcCopy(e)
  <2>1. PICK e \in todo : GcCopy(e)
    BY <1>8
  <2>2. /\ pc = "gccopy" /\ todo' \subseteq todo /\ UNCHANGED <<gcb, newgc, old>>
        /\ \/ Programmed(gcb, e.size, e.key, e.val, NextVer(e.ver))
           \/ VerifyFailed(gcb, e.size)
           \/ UNCHANGED <<flash, roc>>
    BY <2>1 DEF GcCopy
  <2>3. Outside /\ roc' = roc
    BY <2>2, <1>f, <1>q, ProgramOutside
  <2>4. QED
    BY <2>2, <2>3, <1>f, FactoryStep
<1>9. CASE \E e \in todo : GcRm(e) \/ ResetRm(e)
  <2>1. PICK e \in todo : GcRm(e) \/ ResetRm(e)
    BY <1>9
  <2>2. /\ pc # "init" /\ kvnode_rm(e) /\ todo' \subseteq todo /\ UNCHANGED <<gcb, newgc, old>>
    BY <2>1 DEF GcRm, ResetRm
  <2>3. Outside /\ roc' = roc
    BY <2>2, WritableOutside, RmOutside
  <2>4. QED
    BY <2>2, <2>3, <1>f, FactoryStep
<1>10. CASE GcBlockDone
  <2>1. /\ pc = "gccopy" /\ newgc' \in {src, newgc}
        /\ UNCHANGED <<flash, roc, gcb, old, todo>>
    BY <1>10 DEF GcBlockDone
  <2>2. roc[src] = 0 /\ src \in Blocks
    BY <2>1 DEF StoreInv, CallSound, GcCall, TypeOK
  <2>3. src \notin RoBlocks
    BY <2>1, <2>2 DEF FactoryInv, Scanned
  <2>4. QED
    BY <2>1, <2>3, <1>f, <1>q, FactoryStep
<1>11. CASE GcEnd
  <2>1. /\ pc = "gc" /\ newgc' \in {newgc, -1} /\ gcb' \in {gcb, newgc}
        /\ old' \subseteq flash \cup old /\ todo' \in {todo, {}} /\ UNCHANGED <<flash, roc>>
    BY <1>11 DEF GcEnd, StartOne, Return
  <2>2. QED
    BY <2>1, <1>f, <1>q, FactoryStep
<1>12. CASE GcWild \/ ResetEnd
  <2>1. /\ pc # "init" /\ newgc' \in {newgc, -1} /\ old' \in {old, {}} /\ todo' \in {todo, {}}
        /\ UNCHANGED <<flash, roc, gcb>>
    BY <1>12 DEF GcWild, ResetEnd, Return
  <2>2. QED
    BY <2>1, <1>f, <1>q, FactoryStep
<1>13. CASE Request
  <2>1. /\ pc = "idle" /\ newgc' \in {newgc, -1}
        /\ old' \subseteq flash \cup old /\ todo' \subseteq flash \cup todo
        /\ UNCHANGED <<flash, roc, gcb>>
    BY <1>13 DEF Request, Set, StartOne, Del, Reset, Return
  <2>2. QED
    BY <2>1, <1>f, <1>q, FactoryStep
<1>14. QED
  BY <1>1, <1>2, <1>3, <1>4, <1>5, <1>6, <1>7, <1>8, <1>9, <1>10, <1>11, <1>12, <1>13 DEF Step

LEMMA FactoryInit ==
    ASSUME Init
    PROVE  FactoryInv
<1>1. \A b \in Blocks : ~Scanned(b)
  BY DEF Init, Scanned, Blocks
<1>2. QED
  BY <1>1, RoBlocksAre DEF Init, FactoryInv

LEMMA FactoryNext ==
    ASSUME Filled, ~LossOverRemains, StoreInv, FactoryInv, [Next]_vars
    PROVE  FactoryInv'
<1>1. CASE InitBlock
  BY <1>1, InitBlockFactory
<1>2. CASE (Step \/ Request) /\ ~InitBlock
  BY <1>2, CallFactory
<1>3. CASE PowerLoss
  BY <1>3, PowerLossFactory
<1>4. CASE UNCHANGED vars
  BY <1>4 DEF vars, FactoryInv, Scanned
<1>5. QED
  BY <1>1, <1>2, <1>3, <1>4 DEF Next

(* When the image fills the blocks it is in, kv_init never takes one of      *)
(* them for garbage collection and no call removes or adds a node there.     *)
THEOREM FactoryHolds == Filled /\ ~LossOverRemains => (Spec => []FactoryInv)
<1>1. ASSUME Filled /\ ~LossOverRemains PROVE StoreInv /\ FactoryInv /\ [Next]_vars => FactoryInv'
  BY <1>1, FactoryNext
<1>2. ASSUME Filled /\ ~LossOverRemains PROVE Spec => []FactoryInv
  <2>1. StoreInv /\ FactoryInv /\ [Next]_vars => FactoryInv'
    BY <1>1, <1>2
  <2>2. QED
    BY <1>2, <2>1, FactoryInit, StoreHolds, PTL DEF Spec
<1>3. QED
  BY <1>2

(* No set, delete, reset, garbage collection or power loss ever costs a      *)
(* factory node, provided that the image fills the blocks it is in; but for  *)
(* a power loss in a program over torn remains, as in StoreHolds.            *)
THEOREM FactoryNodesKept == Filled /\ ~LossOverRemains => (Spec => []FactoryKept)
<1>1. FactoryInv => FactoryKept
  BY DEF FactoryInv, FactoryKept
<1>2. QED
  BY <1>1, FactoryHolds, PTL

-----------------------------------------------------------------------------
(* The values clients see.                                                 *)

(* The state of KVAbstract, as PowerSafe maps it. *)
FactoryValue(k) == ValueOf({e \in RoNodes : e.key = k})
AStore == [k \in Keys |-> Value(k)]
AOp    == IF pc = "setrm" THEN [op EXCEPT !.kind = "stored"] ELSE op

LEMMA NewerNext ==
    ASSUME NEW r \in 0 .. MaxVer
    PROVE  Newer(NextVer(r), r) /\ ~Newer(r, NextVer(r))
BY ConstantsAssumption DEF NextVer, Newer

LEMMA ValueOfNewest ==
    ASSUME NEW S, NEW e \in S, \A f \in S : f.ver \in 0 .. MaxVer,
           \A f \in S : f = e \/ e.ver = NextVer(f.ver)
    PROVE  ValueOf(S) = e.val
<1> DEFINE Best(x) == \A f \in S : f = x \/ Newer(x.ver, f.ver)
<1> DEFINE c == CHOOSE x \in S : Best(x)
<1>1. Best(e)
  BY NewerNext
<1>2. c \in S /\ Best(c)
  BY <1>1
<1>3. c = e
  BY <1>2, NewerNext
<1>4. QED
  BY <1>3 DEF ValueOf

LEMMA ValueIs ==
    ASSUME FactoryInv, NEW k
    PROVE  Value(k) = IF Copies(k) # {} THEN ValueOf(Copies(k)) ELSE FactoryValue(k)
<1>1. FactoryNodes(k) = {e \in RoNodes : e.key = k}
  BY RoAssumption DEF FactoryInv, FactoryNodes
<1>2. QED
  BY <1>1 DEF Value, FactoryValue

LEMMA ValueIsNext ==
    ASSUME FactoryInv', NEW k
    PROVE  Value(k)' = IF Copies(k)' # {} THEN ValueOf(Copies(k)') ELSE FactoryValue(k)
<1>1. FactoryNodes(k)' = {e \in RoNodes : e.key = k}
  BY RoAssumption DEF FactoryInv, FactoryNodes
<1>2. QED
  BY <1>1 DEF Value, FactoryValue, ValueOf, Newer

(* No key changes its value; one takes a value; one returns to the factory's. *)
LEMMA StoreKept ==
    ASSUME FactoryInv, FactoryInv',
           \A k \in Keys : \/ Copies(k)' = Copies(k)
                           \/ /\ Copies(k) # {} /\ Copies(k)' # {}
                              /\ ValueOf(Copies(k)') = ValueOf(Copies(k))
    PROVE  AStore' = AStore
<1>1. ASSUME NEW k \in Keys PROVE Value(k)' = Value(k)
  BY ValueIs, ValueIsNext
<1>2. QED
  BY <1>1 DEF AStore

LEMMA StorePuts ==
    ASSUME FactoryInv, FactoryInv', NEW k \in Keys, NEW v,
           \A j \in Keys : j # k => Copies(j)' = Copies(j),
           Copies(k)' # {} /\ ValueOf(Copies(k)') = v
    PROVE  AStore' = [AStore EXCEPT ![k] = v]
<1>1. ASSUME NEW j \in Keys, j # k PROVE Value(j)' = Value(j)
  BY <1>1, ValueIs, ValueIsNext
<1>2. Value(k)' = v
  BY ValueIsNext
<1>3. QED
  BY <1>1, <1>2 DEF AStore

LEMMA StoreDrops ==
    ASSUME FactoryInv, FactoryInv', NEW k \in Keys,
           \A j \in Keys : j # k => Copies(j)' = Copies(j),
           Copies(k)' = {}
    PROVE  AStore' = [AStore EXCEPT ![k] = FactoryValue(k)]
<1>1. ASSUME NEW j \in Keys, j # k PROVE Value(j)' = Value(j)
  BY <1>1, ValueIs, ValueIsNext
<1>2. Value(k)' = FactoryValue(k)
  BY ValueIsNext
<1>3. QED
  BY <1>1, <1>2 DEF AStore

(* Two copies: one is the newer and has the value. *)
LEMMA PairValue ==
    ASSUME StoreInv, NEW k \in Keys, NEW e \in Copies(k), NEW f \in Copies(k), e # f
    PROVE  /\ Copies(k) = {e, f}
           /\ \/ e.ver = NextVer(f.ver) /\ Newer(e.ver, f.ver) /\ ValueOf(Copies(k)) = e.val
              \/ f.ver = NextVer(e.ver) /\ ~Newer(e.ver, f.ver) /\ ValueOf(Copies(k)) = f.val
<1>1. Copies(k) = {e, f}
  <2>1. \A g \in Copies(k) : g = e \/ g = f
    BY TwoOfThree DEF StoreInv, CopiesOrdered
  <2>2. QED
    BY <2>1
<1>2. \A g \in Copies(k) : g.ver \in 0 .. MaxVer
  BY EntryFields DEF StoreInv, TypeOK, Copies
<1>3. CASE e.ver = NextVer(f.ver)
  <2>1. ValueOf(Copies(k)) = e.val
    BY <1>1, <1>2, <1>3, ValueOfNewest
  <2>2. QED
    BY <1>1, <1>2, <1>3, <2>1, NewerNext
<1>4. CASE f.ver = NextVer(e.ver)
  <2>1. ValueOf(Copies(k)) = f.val
    BY <1>1, <1>2, <1>4, ValueOfNewest
  <2>2. QED
    BY <1>1, <1>2, <1>4, <2>1, NewerNext
<1>5. QED
  BY <1>3, <1>4 DEF StoreInv, CopiesOrdered

LEMMA OneValue ==
    ASSUME NEW e, e.ver \in 0 .. MaxVer
    PROVE  ValueOf({e}) = e.val
<1> DEFINE S == {e}
<1>1. e \in S /\ \A f \in S : f = e
  OBVIOUS
<1> HIDE DEF S
<1>2. ValueOf(S) = e.val
  BY <1>1, ValueOfNewest
<1>3. QED
  BY <1>2 DEF S

-----------------------------------------------------------------------------
(* Live nodes that come and go.                                            *)

Removes(S, e) == \A f : f.st = "live" => (f \in S <=> f \in flash /\ f # e)
Adds(S, n)    == \A f : f.st = "live" => (f \in S <=> f \in flash \/ f = n)

LEMMA RemovesCopies ==
    ASSUME NEW e, Removes(flash', e)
    PROVE  \A k : Copies(k)' = Copies(k) \ {e}
BY DEF Removes, Copies

LEMMA AddsCopies ==
    ASSUME NEW n, Adds(flash', n), n.st = "live", n.rw
    PROVE  /\ Copies(n.key)' = Copies(n.key) \cup {n}
           /\ \A k : k # n.key => Copies(k)' = Copies(k)
BY DEF Adds, Copies

(* kvnode_rm erases a block only when the node is the last live one there:  *)
(* outside the image ro_count is zero and count is the number of nodes.     *)
LEMMA LastAlone ==
    ASSUME AllSound, FactoryInv, pc # "init", NEW e \in Entry, IsNode(e), e.rw, LastNode(e),
           e \in flash \cup old \cup todo, e \in flash \/ Live(e.blk) = {}
    PROVE  \A f \in Live(e.blk) : f = e
<1>1. e.blk \in Blocks
  BY EntryFields
<1>2. roc[e.blk] = 0
  BY <1>1, WritableOutside DEF FactoryInv, Scanned
<1>3. cnt[e.blk] = Cardinality(Live(e.blk))
  BY <1>1 DEF AllSound, Tallied
<1>4. IsFiniteSet(Live(e.blk)) /\ Cardinality(Live(e.blk)) \in Nat
  BY LiveFinite DEF AllSound
<1>5. Cardinality(Live(e.blk)) <= 1
  BY <1>2, <1>3, <1>4 DEF LastNode
<1>6. e \in flash => e \in Live(e.blk)
  BY DEF Live, In, IsNode
<1>7. QED
  BY <1>4, <1>5, <1>6, AtMostOne

LEMMA RmExact ==
    ASSUME AllSound, FactoryInv, pc # "init", NEW e \in Entry, IsNode(e), e.rw, kvnode_rm(e),
           e \in flash \cup old \cup todo, e \in flash \/ Live(e.blk) = {}
    PROVE  Removes(flash', e)
<1>1. CASE flash' = (flash \ {e}) \cup {Space(e.blk, e.off, e.size, "dead")}
  <2>1. Space(e.blk, e.off, e.size, "dead").st = "dead"
    BY DEF Space
  <2>2. QED
    BY <1>1, <2>1 DEF Removes
<1>2. CASE LastNode(e) /\ EraseBlock(e.blk)
  <2>1. \A f \in Live(e.blk) : f = e
    BY <1>2, LastAlone
  <2>2. QED
    BY <1>2, <2>1 DEF Removes, EraseBlock, Erased, Live, In, IsNode
<1>3. QED
  BY <1>1, <1>2 DEF kvnode_rm

LEMMA TornRmExact ==
    ASSUME AllSound, FactoryInv, pc # "init", NEW e \in Entry, IsNode(e),
           e \in flash \cup old \cup todo, e \in flash \/ Live(e.blk) = {},
           NEW S \in TornRm(e)
    PROVE  S = flash \/ (e.rw /\ Removes(S, e))
<1>1. CASE e.rw /\ LastNode(e) /\ S = (flash \ In(e.blk)) \cup {Space(e.blk, 0, BlockSize, "torn")}
  <2>1. \A f \in Live(e.blk) : f = e
    BY <1>1, LastAlone
  <2>2. Space(e.blk, 0, BlockSize, "torn").st = "torn"
    BY DEF Space
  <2>3. QED
    BY <1>1, <2>1, <2>2 DEF Removes, Live, In, IsNode
<1>2. QED
  BY <1>1 DEF TornRm

-----------------------------------------------------------------------------
(* The steps of KVAbstract, in terms of the mapped state.                  *)

SetOp(k, v) == [kind |-> "set", key |-> k, val |-> v]

Implements == Abs!Next \/ (AStore' = AStore /\ AOp' = AOp /\ res' = res)

LEMMA AbsSetStart ==
    ASSUME NEW k \in Keys, NEW v \in Vals, AOp = NoOp, AOp' = SetOp(k, v), AStore' = AStore, res' = res
    PROVE  Implements
BY DEF Implements, Abs!Next, Abs!SetStart, Abs!NoOp, Abs!SetOp, NoOp, SetOp, AOp, AStore

LEMMA AbsSetTakesEffect ==
    ASSUME NEW k \in Keys, NEW v \in Vals, AOp = SetOp(k, v), AStore' = [AStore EXCEPT ![k] = v],
           \/ AOp' = [kind |-> "stored", key |-> k, val |-> v] /\ res' = res
           \/ AOp' = NoOp /\ res' = "ok"
    PROVE  Implements
BY DEF Implements, Abs!Next, Abs!SetTakesEffect, Abs!Put, Abs!NoOp, Abs!SetOp, Abs!DoneOp, NoOp, SetOp, AOp, AStore

LEMMA AbsSetSucceeds ==
    ASSUME NEW k \in Keys, NEW v \in Vals, AOp = [kind |-> "stored", key |-> k, val |-> v],
           AOp' = NoOp, res' = "ok", AStore' = AStore
    PROVE  Implements
BY DEF Implements, Abs!Next, Abs!SetSucceeds, Abs!NoOp, Abs!DoneOp, NoOp, AOp, AStore

LEMMA AbsSetFails ==
    ASSUME NEW k \in Keys, NEW v \in Vals, AOp \in {NoOp, SetOp(k, v)},
           AOp' = NoOp, res' = "fail", AStore' = AStore
    PROVE  Implements
BY DEF Implements, Abs!Next, Abs!SetFails, Abs!NoOp, Abs!SetOp, NoOp, SetOp, AOp, AStore

LEMMA AbsSetSame ==
    ASSUME NEW k \in Keys, NEW v \in Vals, AOp \in {NoOp, SetOp(k, v)}, Value(k) = v,
           AOp' = NoOp, res' = "ok", AStore' = AStore
    PROVE  Implements
BY DEF Implements, Abs!Next, Abs!SetSame, Abs!NoOp, Abs!SetOp, NoOp, SetOp, AOp, AStore

LEMMA AbsSetText ==
    ASSUME NEW k \in Keys, NEW v \in Vals, AOp \in {NoOp, SetOp(k, v)}, Value(k) = FactoryValue(k), v = RoText[k],
           AOp' = NoOp, res' = "ok", AStore' = AStore
    PROVE  Implements
BY DEF Implements, Abs!Next, Abs!SetText, Abs!NoOp, Abs!SetOp, NoOp, SetOp, AOp, AStore, FactoryValue

LEMMA AbsDelStart ==
    ASSUME NEW k \in Keys, AOp = NoOp, AOp' = [kind |-> "del", key |-> k], AStore' = AStore, res' = res
    PROVE  Implements
BY DEF Implements, Abs!Next, Abs!DelStart, Abs!NoOp, Abs!DelOp, NoOp, AOp, AStore

LEMMA AbsDelTakesEffect ==
    ASSUME NEW k \in Keys, AOp = [kind |-> "del", key |-> k], AOp' = NoOp, res' = "ok",
           AStore' = [AStore EXCEPT ![k] = FactoryValue(k)]
    PROVE  Implements
BY DEF Implements, Abs!Next, Abs!DelTakesEffect, Abs!Put, Abs!NoOp, Abs!DelOp, NoOp, AOp, AStore, FactoryValue

LEMMA AbsDelMissing ==
    ASSUME NEW k \in Keys, AOp = NoOp, Value(k) = NoVal, AOp' = NoOp, res' = "fail", AStore' = AStore
    PROVE  Implements
BY DEF Implements, Abs!Next, Abs!DelMissing, Abs!NoOp, NoOp, AOp, AStore

LEMMA AbsResetStart ==
    ASSUME AOp = NoOp, AOp' = [kind |-> "reset"], AStore' = AStore, res' = res
    PROVE  Implements
BY DEF Implements, Abs!Next, Abs!ResetStart, Abs!NoOp, Abs!ResetOp, NoOp, AOp, AStore

LEMMA AbsResetKey ==
    ASSUME NEW k \in Keys, AOp = [kind |-> "reset"], AOp' = AOp, res' = res,
           AStore' = [AStore EXCEPT ![k] = FactoryValue(k)]
    PROVE  Implements
BY DEF Implements, Abs!Next, Abs!ResetKey, Abs!Put, Abs!ResetOp, AOp, AStore, FactoryValue

LEMMA AbsResetEnd ==
    ASSUME AOp = [kind |-> "reset"], AOp' = NoOp, res' = "ok", AStore' = AStore,
           \A k \in Keys : Value(k) = FactoryValue(k)
    PROVE  Implements
BY DEF Implements, Abs!Next, Abs!ResetEnd, Abs!NoOp, Abs!ResetOp, NoOp, AOp, AStore, FactoryValue

LEMMA AbsPowerLoss ==
    ASSUME AOp' = NoOp, res' = "none",
           \/ AStore' = AStore
           \/ \E k \in Keys, v \in Vals : AOp = SetOp(k, v) /\ AStore' = [AStore EXCEPT ![k] = v]
           \/ \E k \in Keys : /\ AOp \in {[kind |-> "del", key |-> k], [kind |-> "reset"]}
                              /\ AStore' = [AStore EXCEPT ![k] = FactoryValue(k)]
    PROVE  Implements
BY DEF Implements, Abs!Next, Abs!PowerLoss, Abs!Put, Abs!NoOp, Abs!SetOp, Abs!DelOp, Abs!ResetOp, NoOp, SetOp, AOp, AStore, FactoryValue

-----------------------------------------------------------------------------
(* What the flash operations do to the values.                             *)

Here == StoreInv /\ ValuesInv /\ FactoryInv'

LEMMA LiveStore ==
    ASSUME Here, SameLive
    PROVE  AStore' = AStore
BY SameCopies, StoreKept DEF Here, ValuesInv

LEMMA QuietStore ==
    ASSUME Here, flash' = flash
    PROVE  AStore' = AStore
BY LiveStore DEF SameLive

LEMMA CopyFacts ==
    ASSUME StoreInv, NEW k, NEW e \in Copies(k)
    PROVE  e \in flash /\ e \in Entry /\ IsNode(e) /\ e.rw /\ e.key = k /\ e.ver \in 0 .. MaxVer
BY EntryFields DEF StoreInv, TypeOK, FlashSound, Copies

LEMMA NodeCopies ==
    ASSUME NEW e \in flash, IsNode(e), e.rw
    PROVE  e \in Copies(e.key) /\ e.key \in Keys
BY DEF Copies, IsNode

(* kv_set has written its node. *)
LEMMA SetAdds ==
    ASSUME Here, pc = "set", NEW k, k = op.key, NEW n, n.st = "live", n.rw, n.key = k, n.ver = ver,
           Adds(flash', n)
    PROVE  /\ AStore' = [AStore EXCEPT ![k] = n.val]
           /\ Copies(k)' = Copies(k) \cup {n}
<1>1. k \in Keys /\ ver \in 0 .. MaxVer
  BY DEF Here, StoreInv, CallSound, SetCall, TypeOK
<1>2. Copies(k)' = Copies(k) \cup {n}
  BY AddsCopies
<1>3. \A j \in Keys : j # k => Copies(j)' = Copies(j)
  BY AddsCopies
<1>4. \A f \in Copies(k) : n.ver = NextVer(f.ver) /\ f.ver \in 0 .. MaxVer
  BY CopyFacts DEF Here, StoreInv, VersionsSound
<1> DEFINE S == Copies(k) \cup {n}
<1>5. n \in S /\ (\A f \in S : f.ver \in 0 .. MaxVer) /\ \A f \in S : f = n \/ n.ver = NextVer(f.ver)
  BY <1>1, <1>4
<1>6. Copies(k)' = S
  BY <1>2
<1> HIDE DEF S
<1>7. ValueOf(S) = n.val /\ S # {}
  BY <1>5, ValueOfNewest
<1>8. QED
  BY <1>1, <1>2, <1>3, <1>6, <1>7, StorePuts DEF Here, ValuesInv

(* kv_gc has written the copy of e. *)
LEMMA GcAdds ==
    ASSUME Here, pc = "gccopy", NEW e \in todo,
           NEW n, n.st = "live", n.rw, n.key = e.key, n.val = e.val, n.ver = NextVer(e.ver),
           n \notin flash, Adds(flash', n)
    PROVE  AStore' = AStore /\ n \in Copies(e.key)'
<1>1. e \in flash /\ IsNode(e) /\ e.rw
  BY DEF Here, StoreInv, CallSound, GcCall
<1>2. e \in Copies(e.key) /\ e.key \in Keys
  BY <1>1, NodeCopies
<1>3. e.ver \in 0 .. MaxVer
  BY <1>2, CopyFacts DEF Here
<1>4. Copies(e.key) = {e}
  BY <1>2, LoneNow DEF Here, Lone
<1>5. Copies(e.key)' = {e, n} /\ \A k \in Keys : k # e.key => Copies(k)' = Copies(k)
  BY <1>4, AddsCopies
<1> DEFINE S == {e, n}
<1>6. n \in S /\ (\A f \in S : f.ver \in 0 .. MaxVer) /\ (\A f \in S : f = n \/ n.ver = NextVer(f.ver))
  BY <1>3, NextVerOther
<1>q. Copies(e.key)' = S
  BY <1>5
<1> HIDE DEF S
<1>7. ValueOf(S) = e.val /\ S # {}
  BY <1>6, ValueOfNewest
<1>8. ValueOf({e}) = e.val
  BY <1>3, OneValue
<1>9. AStore' = AStore
  BY <1>4, <1>5, <1>q, <1>7, <1>8, StoreKept DEF Here, ValuesInv
<1>10. QED
  BY <1>6, <1>q, <1>9

(* Of two copies the one without the value goes. *)
LEMMA OlderGoes ==
    ASSUME Here, NEW k \in Keys, NEW e \in Copies(k), NEW n \in Copies(k), n # e,
           ValueOf(Copies(k)) = n.val, Removes(flash', e)
    PROVE  AStore' = AStore
<1>1. Copies(k) = {e, n}
  BY PairValue DEF Here
<1>2. \A j : Copies(j)' = Copies(j) \ {e}
  BY RemovesCopies
<1>3. e.key = k /\ n.ver \in 0 .. MaxVer
  BY CopyFacts DEF Here
<1>4. Copies(k)' = {n} /\ \A j \in Keys : j # k => Copies(j)' = Copies(j)
  <2>1. Copies(k)' = {n}
    BY <1>1, <1>2
  <2>2. \A j \in Keys : j # k => Copies(j)' = Copies(j)
    BY <1>2, <1>3 DEF Copies
  <2>3. QED
    BY <2>1, <2>2
<1>5. ValueOf({n}) = n.val
  BY <1>3, OneValue
<1>6. QED
  BY <1>4, <1>5, StoreKept DEF Here, ValuesInv

LEMMA SetRemoves ==
    ASSUME Here, pc = "setrm", NEW e \in old, e.rw, Removes(flash', e)
    PROVE  AStore' = AStore
<1>1. e \in flash /\ IsNode(e) /\ e.key = op.key
  BY DEF Here, ValuesInv, CallInv, StoreInv, CallSound
<1>2. PICK n \in Copies(op.key) :
        n.val = op.val /\ n \notin old /\ \A x \in old : x.rw => n.ver = NextVer(x.ver)
  BY DEF Here, ValuesInv, CallInv
<1>3. e \in Copies(op.key) /\ op.key \in Keys /\ n # e
  BY <1>1, <1>2, NodeCopies
<1>4. e.ver \in 0 .. MaxVer /\ n.ver = NextVer(e.ver)
  BY <1>2, <1>3, CopyFacts DEF Here
<1>5. Newer(n.ver, e.ver)
  BY <1>4, NewerNext
<1>6. ValueOf(Copies(op.key)) = n.val
  BY <1>3, <1>5, PairValue DEF Here
<1>7. QED
  BY <1>3, <1>6, OlderGoes

LEMMA GcRemoves ==
    ASSUME Here, pc = "gcrm", NEW e \in todo, IsFirst(e, todo), Removes(flash', e)
    PROVE  AStore' = AStore
<1>1. e \in flash /\ IsNode(e) /\ e.rw
  BY DEF Here, StoreInv, CallSound, GcCall
<1>2. e \in Copies(e.key) /\ e.key \in Keys
  BY <1>1, NodeCopies
<1>3. PICK n \in Copies(e.key) : n # e /\ n.val = e.val
  BY DEF Here, ValuesInv, CallInv
<1>4. ValueOf(Copies(e.key)) = n.val
  BY <1>2, <1>3, PairValue DEF Here
<1>5. QED
  BY <1>2, <1>3, <1>4, OlderGoes

LEMMA VerifyRemoves ==
    ASSUME Here, pc = "verify", NEW e \in todo, NEW f \in Mapped(e), Removes(flash', Loser(e, f))
    PROVE  AStore' = AStore
<1>1. e \in flash /\ IsNode(e) /\ e.rw
  BY DEF Here, ValuesInv, CallInv, StoreInv, CallSound
<1>2. e \in Copies(e.key) /\ e.key \in Keys
  BY <1>1, NodeCopies
<1>3. f \in Copies(e.key) /\ f # e
  BY DEF Mapped, Copies
<1>4. CASE Newer(e.ver, f.ver)
  BY <1>2, <1>3, <1>4, PairValue, OlderGoes DEF Loser, Here
<1>5. CASE ~Newer(e.ver, f.ver)
  BY <1>2, <1>3, <1>5, PairValue, OlderGoes DEF Loser, Here
<1>6. QED
  BY <1>4, <1>5

(* The only copy goes. *)
LEMMA LastGoes ==
    ASSUME Here, NEW e, e.key \in Keys, Copies(e.key) \subseteq {e}, Removes(flash', e)
    PROVE  AStore' = [AStore EXCEPT ![e.key] = FactoryValue(e.key)]
<1>1. \A j : Copies(j)' = Copies(j) \ {e}
  BY RemovesCopies
<1>2. Copies(e.key)' = {}
  BY <1>1
<1>3. \A j \in Keys : j # e.key => Copies(j)' = Copies(j)
  BY <1>1 DEF Copies
<1>4. QED
  BY <1>2, <1>3, StoreDrops DEF Here, ValuesInv

LEMMA NoneThere ==
    ASSUME Here, NEW k \in Keys, Copies(k) = {}, flash' = flash
    PROVE  AStore' = [AStore EXCEPT ![k] = FactoryValue(k)]
<1>1. \A j : Copies(j)' = Copies(j)
  BY DEF Copies
<1>2. QED
  BY <1>1, StoreDrops DEF Here, ValuesInv

-----------------------------------------------------------------------------
(* Every step keeps CallInv and is a step of KVAbstract.                   *)

LEMMA Ends ==
    ASSUME NEW r, Return(r)
    PROVE  CallInv' /\ AOp' = NoOp /\ res' = r
BY DEF Return, CallInv, SetCall, AOp

LEMMA StartOneImpl ==
    ASSUME Here, AllSound, Lone, NEW k \in Keys, NEW v \in Vals, NEW g, StartOne(k, v, g),
           AOp \in {NoOp, SetOp(k, v)}, flash' = flash
    PROVE  CallInv' /\ Implements
<1>1. AStore' = AStore
  BY QuietStore
<1>2. ASSUME pc' = "set", op' = SetOp(k, v), \A e \in old' : e.key = k, res' = res
      PROVE  CallInv' /\ Implements
  <2>1. CallInv'
    BY <1>2 DEF CallInv, SetCall, SetOp
  <2>2. AOp' = SetOp(k, v)
    BY <1>2 DEF AOp
  <2>3. Implements
    BY <1>1, <1>2, <2>2, AbsSetStart DEF Implements
  <2>4. QED
    BY <2>1, <2>3
<1>3. ASSUME NEW e \in flash, Found(e, k), e.rw, e.val = v, Return("ok")
      PROVE  CallInv' /\ Implements
  <2>1. IsNode(e) /\ e.key = k
    BY <1>3, LookupSound
  <2>2. e \in Copies(k)
    BY <2>1, <1>3, NodeCopies
  <2>3. Copies(k) = {e} /\ e.ver \in 0 .. MaxVer
    BY <2>2, CopyFacts DEF Lone, Here
  <2>4. ValueOf({e}) = v
    BY <2>3, <1>3, OneValue
  <2>5. Value(k) = v
    BY <2>3, <2>4, ValueIs DEF Here, ValuesInv
  <2>6. QED
    BY <1>1, <1>3, <2>5, Ends, AbsSetSame
<1>4. ASSUME NEW e \in flash, Found(e, k) PROVE e.key = k /\ (Copies(k) # {} => e \in Copies(k))
  BY <1>4, LookupSound
<1>5. ASSUME NEW e \in flash, Found(e, k), ~e.rw, RoText[k] = v, Return("ok")
      PROVE  CallInv' /\ Implements
  <2>1. Copies(k) = {}
    BY <1>4, <1>5 DEF Copies
  <2>2. Value(k) = FactoryValue(k)
    BY <2>1, ValueIs DEF Here, ValuesInv
  <2>3. QED
    BY <1>1, <1>5, <2>2, Ends, AbsSetText
<1>6. ASSUME NEW e \in flash, Found(e, k), Stored(e) = v, Return("ok")
      PROVE  CallInv' /\ Implements
  BY <1>3, <1>4, <1>5, <1>6 DEF Stored
<1>7. QED
  BY <1>2, <1>4, <1>6 DEF StartOne, SetOp

LEMMA SetImpl ==
    ASSUME Here, NEW k \in Keys, NEW v \in Vals, Set(k, v)
    PROVE  CallInv' /\ Implements
<1>1. pc = "idle" /\ flash' = flash
  BY DEF Set
<1>2. AOp = NoOp
  BY <1>1 DEF Here, ValuesInv, CallInv, AOp
<1>3. AllSound /\ Lone
  BY <1>1, Running, LoneNow DEF Here
<1>4. CASE Return("fail")
  BY <1>1, <1>2, <1>4, Ends, QuietStore, AbsSetFails
<1>5. CASE StartOne(k, v, FALSE)
  BY <1>1, <1>2, <1>3, <1>5, StartOneImpl
<1>6. QED
  BY <1>4, <1>5 DEF Set

(* In kv_set the abstract call is the set of op.key to op.val. *)
LEMMA SetOps ==
    ASSUME Here, SetCall
    PROVE  /\ op = SetOp(op.key, op.val) /\ op.key \in Keys /\ op.val \in Vals
           /\ pc # "setrm" => AOp = SetOp(op.key, op.val)
           /\ pc = "setrm" => AOp = [kind |-> "stored", key |-> op.key, val |-> op.val]
<1>1. op = SetOp(op.key, op.val) /\ op.key \in Keys /\ op.val \in Vals
  BY DEF Here, ValuesInv, CallInv, StoreInv, CallSound, SetOp
<1>2. pc # "setrm" => AOp = SetOp(op.key, op.val)
  BY <1>1 DEF AOp
<1>3. [op EXCEPT !.kind = "stored"] = [kind |-> "stored", key |-> op.key, val |-> op.val]
  BY <1>1 DEF SetOp
<1>4. QED
  BY <1>1, <1>2, <1>3 DEF AOp

LEMMA NextBlockImpl ==
    ASSUME Here, pc = "set", NextBlock, AStore' = AStore
    PROVE  CallInv' /\ Implements
<1>1. op.key \in Keys /\ op.val \in Vals /\ AOp = SetOp(op.key, op.val) /\ AOp = op
  BY SetOps DEF SetCall, AOp
<1>2. CASE Return("fail")
  BY <1>1, <1>2, Ends, AbsSetFails
<1>3. CASE pc' \in {"set", "gc"} /\ UNCHANGED <<op, old, res>>
  <2>1. CallInv'
    BY <1>3 DEF Here, ValuesInv, CallInv, SetCall
  <2>2. AOp' = AOp
    BY <1>1, <1>3 DEF AOp
  <2>3. QED
    BY <1>3, <2>1, <2>2 DEF Implements
<1>4. QED
  BY <1>2, <1>3 DEF NextBlock

LEMMA SetSkipImpl ==
    ASSUME Here, SetSkip
    PROVE  CallInv' /\ Implements
BY QuietStore, NextBlockImpl DEF SetSkip

LEMMA SetProgramImpl ==
    ASSUME Here, SetProgram
    PROVE  CallInv' /\ Implements
<1>1. pc = "set" /\ CanAlloc(bid, ValSize[op.val])
  BY DEF SetProgram
<1>2. AllSound
  BY <1>1, Running DEF Here
<1>3. op.key \in Keys /\ op.val \in Vals /\ bid \in Blocks /\ ver \in 0 .. MaxVer
  BY <1>1 DEF Here, StoreInv, CallSound, SetCall, TypeOK
<1>4. ValSize[op.val] \in 1 .. BlockSize
  BY <1>3, ConstantsAssumption
<1>5. AOp = SetOp(op.key, op.val) /\ op = SetOp(op.key, op.val)
  BY <1>1, SetOps DEF SetCall
<1>6. CASE VerifyFailed(bid, ValSize[op.val]) /\ NextBlock
  <2>1. SameLive
    BY <1>1, <1>2, <1>3, <1>4, <1>6, FailedSound DEF SameLive
  <2>2. QED
    BY <1>1, <1>6, <2>1, LiveStore, NextBlockImpl
<1>7. CASE /\ Programmed(bid, ValSize[op.val], op.key, op.val, ver)
           /\ IF old = {}
                THEN Return("ok")
                ELSE pc' = "setrm" /\ UNCHANGED <<op, old, ver, start, gcd, src, newgc, todo, res>>
  <2> DEFINE n == Node(bid, wo[bid], ValSize[op.val], op.key, op.val, ver)
  <2>1. /\ n \notin flash
        /\ \A x : x.st # "torn" => (x \in flash' <=> x \in flash \/ x = n)
    BY <1>1, <1>2, <1>3, <1>4, <1>7, ProgrammedSound
  <2>2. n.st = "live" /\ n.rw /\ n.key = op.key /\ n.val = op.val /\ n.ver = ver
    BY DEF Node
  <2> HIDE DEF n
  <2>3. Adds(flash', n)
    BY <2>1 DEF Adds
  <2>p. PICK k \in Keys, v \in Vals : k = op.key /\ v = op.val
    BY <1>3
  <2>4. AStore' = [AStore EXCEPT ![k] = v] /\ Copies(k)' = Copies(k) \cup {n}
    BY <1>1, <2>2, <2>3, <2>p, SetAdds
  <2>5. CASE Return("ok")
    BY <2>4, <2>5, <2>p, <1>5, Ends, AbsSetTakesEffect
  <2>6. CASE pc' = "setrm" /\ UNCHANGED <<op, old, ver, start, gcd, src, newgc, todo, res>>
    <3>1. AOp' = [kind |-> "stored", key |-> k, val |-> v]
      <4>1. op' = SetOp(k, v)
        BY <2>6, <2>p, <1>5
      <4>2. [op' EXCEPT !.kind = "stored"] = [kind |-> "stored", key |-> k, val |-> v]
        BY <4>1 DEF SetOp
      <4>3. QED
        BY <2>6, <4>2 DEF AOp
    <3>2. Implements
      BY <1>5, <2>4, <2>6, <2>p, <3>1, AbsSetTakesEffect
    <3>3. /\ \A e \in old : e \in flash /\ IsNode(e) /\ e.key = k
          /\ \A e \in Copies(k) : e \in old /\ ver = NextVer(e.ver)
      BY <1>1, <2>p DEF Here, ValuesInv, CallInv, StoreInv, CallSound, VersionsSound
    <3>4. /\ n \in Copies(k)' /\ n.val = v /\ n \notin old /\ Copies(k)' \subseteq old \cup {n}
          /\ \A e \in old : e.rw => n.ver = NextVer(e.ver)
      BY <2>1, <2>2, <2>4, <2>p, <3>3, NodeCopies
    <3>5. op'.key = k /\ op'.val = v /\ op' = [kind |-> "set", key |-> op'.key, val |-> op'.val]
      BY <2>6, <2>p, <1>5 DEF SetOp
    <3>c. Copies(op.key)' = Copies(k)'
      BY <3>5
    <3>6. \E x \in Copies(op.key)' :
              /\ x.val = op'.val /\ x \notin old' /\ Copies(op.key)' \subseteq old' \cup {x}
              /\ \A e \in old' : e.rw => x.ver = NextVer(e.ver)
      BY <2>6, <3>4, <3>5, <3>c
    <3>7. CallInv'
      BY <2>6, <3>3, <3>5, <3>6 DEF CallInv, SetCall, NextVer
    <3>8. QED
      BY <3>2, <3>7
  <2>7. QED
    BY <1>7, <2>5, <2>6
<1>8. QED
  BY <1>6, <1>7 DEF SetProgram

LEMMA SetRmImpl ==
    ASSUME Here, SetRm
    PROVE  CallInv' /\ Implements
<1>1. pc = "setrm" /\ Return("ok")
  BY DEF SetRm
<1>2. PICK e \in old : kvnode_rm(e)
  BY DEF SetRm
<1>3. e \in flash /\ IsNode(e) /\ e \in Entry
  BY <1>1 DEF Here, StoreInv, CallSound, TypeOK
<1>4. AllSound /\ FactoryInv
  BY <1>1, Running DEF Here, ValuesInv
<1>5. CASE e.rw
  <2>1. Removes(flash', e)
    BY <1>1, <1>2, <1>3, <1>4, <1>5, RmExact
  <2>2. QED
    BY <1>1, <1>5, <2>1, SetRemoves, SetOps, Ends, AbsSetSucceeds DEF SetCall
<1>6. CASE ~e.rw
  <2>1. flash' = flash
    BY <1>2, <1>6 DEF kvnode_rm
  <2>2. QED
    BY <1>1, <2>1, QuietStore, SetOps, Ends, AbsSetSucceeds DEF SetCall
<1>7. QED
  BY <1>5, <1>6

(* A step inside kv_gc that changes no value and does not return. *)
LEMMA GcStutters ==
    ASSUME Here, pc \in {"gc", "gccopy", "gcrm"}, pc' \in {"gc", "gccopy"},
           AStore' = AStore, UNCHANGED <<op, res>>
    PROVE  CallInv' /\ Implements
<1>1. CallInv'
  BY DEF Here, ValuesInv, CallInv, SetCall
<1>2. AOp' = AOp
  BY DEF AOp
<1>3. QED
  BY <1>1, <1>2 DEF Implements

LEMMA GcPickImpl ==
    ASSUME Here, NEW b \in Blocks, GcPick(b)
    PROVE  CallInv' /\ Implements
BY QuietStore, GcStutters DEF GcPick

LEMMA GcBlockDoneImpl ==
    ASSUME Here, GcBlockDone
    PROVE  CallInv' /\ Implements
BY QuietStore, GcStutters DEF GcBlockDone

LEMMA GcCopyImpl ==
    ASSUME Here, NEW e \in todo, GcCopy(e)
    PROVE  CallInv' /\ Implements
<1>1. pc = "gccopy" /\ IsFirst(e, todo) /\ UNCHANGED <<op, old, res>>
  BY DEF GcCopy
<1>2. AllSound
  BY <1>1, Running DEF Here
<1>3. gcb \in Blocks /\ e \in flash /\ IsNode(e) /\ e \in Entry /\ todo \subseteq Entry
  BY <1>1 DEF Here, StoreInv, CallSound, GcCall, TypeOK
<1>4. e.size \in 1 .. BlockSize /\ NextVer(e.ver) \in 0 .. MaxVer /\ e.key \in Keys /\ e.val \in Vals
  BY <1>3, EntryFields, NextVerOther DEF IsNode
<1>5. CASE /\ CanAlloc(gcb, e.size) /\ Programmed(gcb, e.size, e.key, e.val, NextVer(e.ver))
           /\ pc' = "gcrm" /\ todo' = todo
  <2> DEFINE n == Node(gcb, wo[gcb], e.size, e.key, e.val, NextVer(e.ver))
  <2>1. /\ n \notin flash
        /\ \A x : x.st # "torn" => (x \in flash' <=> x \in flash \/ x = n)
    BY <1>2, <1>3, <1>4, <1>5, ProgrammedSound
  <2>2. n.st = "live" /\ n.rw /\ n.key = e.key /\ n.val = e.val /\ n.ver = NextVer(e.ver)
    BY DEF Node
  <2> HIDE DEF n
  <2>3. Adds(flash', n)
    BY <2>1 DEF Adds
  <2>4. AStore' = AStore /\ n \in Copies(e.key)'
    BY <1>1, <2>1, <2>2, <2>3, GcAdds
  <2>5. AOp' = AOp
    BY <1>1, <1>5 DEF AOp
  <2>6. ASSUME NEW x \in todo', IsFirst(x, todo') PROVE \E y \in Copies(x.key)' : y # x /\ y.val = x.val
    <3>1. x = e
      BY <1>1, <1>3, <1>5, <2>6, FirstUnique
    <3>2. n # e
      BY <1>3, <2>1
    <3>3. QED
      BY <2>2, <2>4, <3>1, <3>2
  <2>7. CallInv'
    BY <1>1, <1>5, <2>6 DEF Here, ValuesInv, CallInv, SetCall, IsFirst, Before
  <2>8. QED
    BY <1>1, <2>4, <2>5, <2>7 DEF Implements
<1>6. CASE CanAlloc(gcb, e.size) /\ VerifyFailed(gcb, e.size) /\ pc' = pc
  <2>1. SameLive
    BY <1>2, <1>3, <1>4, <1>6, FailedSound DEF SameLive
  <2>2. QED
    BY <1>1, <1>6, <2>1, LiveStore, GcStutters
<1>7. CASE flash' = flash /\ pc' = pc
  BY <1>1, <1>7, QuietStore, GcStutters
<1>8. QED
  BY <1>5, <1>6, <1>7 DEF GcCopy

LEMMA GcRmImpl ==
    ASSUME Here, NEW e \in todo, GcRm(e)
    PROVE  CallInv' /\ Implements
<1>1. pc = "gcrm" /\ IsFirst(e, todo) /\ kvnode_rm(e) /\ pc' = "gccopy" /\ UNCHANGED <<op, res>>
  BY DEF GcRm
<1>2. AllSound /\ FactoryInv
  BY <1>1, Running DEF Here, ValuesInv
<1>3. e \in flash /\ IsNode(e) /\ e.rw /\ e \in Entry
  BY <1>1 DEF Here, StoreInv, CallSound, GcCall, TypeOK
<1>4. Removes(flash', e)
  BY <1>1, <1>2, <1>3, RmExact
<1>5. QED
  BY <1>1, <1>4, GcRemoves, GcStutters

LEMMA GcEndImpl ==
    ASSUME Here, GcEnd
    PROVE  CallInv' /\ Implements
<1>1. pc = "gc" /\ flash' = flash
  BY DEF GcEnd
<1>2. /\ op.key \in Keys /\ op.val \in Vals /\ op = SetOp(op.key, op.val)
      /\ AOp = SetOp(op.key, op.val)
  BY <1>1, SetOps DEF SetCall
<1>3. AllSound /\ Lone
  BY <1>1, Running, LoneNow DEF Here
<1>4. CASE Return("fail")
  BY <1>1, <1>2, <1>4, Ends, QuietStore, AbsSetFails
<1>5. CASE StartOne(op.key, op.val, TRUE)
  BY <1>1, <1>2, <1>3, <1>5, StartOneImpl
<1>6. CASE old = {} /\ pc' = "set" /\ UNCHANGED <<op, old, res>>
  <2>1. CallInv'
    BY <1>1, <1>6 DEF Here, ValuesInv, CallInv, SetCall
  <2>2. AOp' = AOp
    BY <1>1, <1>6 DEF AOp
  <2>3. QED
    BY <1>1, <1>6, <2>1, <2>2, QuietStore DEF Implements
<1>7. QED
  BY <1>4, <1>5, <1>6 DEF GcEnd

LEMMA GcWildImpl ==
    ASSUME Here, GcWild
    PROVE  CallInv' /\ Implements
<1>1. pc = "gc" /\ flash' = flash
  BY DEF GcWild
<1>2. op.key \in Keys /\ op.val \in Vals /\ AOp = SetOp(op.key, op.val)
  BY <1>1, SetOps DEF SetCall
<1>3. CASE Return("fail")
  BY <1>1, <1>2, <1>3, Ends, QuietStore, AbsSetFails
<1>4. CASE pc' = "wild" /\ UNCHANGED <<op, res>>
  <2>1. CallInv'
    BY <1>4 DEF CallInv, SetCall
  <2>2. AOp' = AOp
    BY <1>1, <1>4 DEF AOp
  <2>3. QED
    BY <1>1, <1>4, <2>1, <2>2, QuietStore DEF Implements
<1>5. QED
  BY <1>3, <1>4 DEF GcWild

LEMMA DelImpl ==
    ASSUME Here, NEW k \in Keys, Del(k)
    PROVE  CallInv' /\ Implements
<1>1. pc = "idle" /\ flash' = flash
  BY DEF Del
<1>2. AOp = NoOp
  BY <1>1 DEF Here, ValuesInv, CallInv, AOp
<1>3. AllSound /\ Lone
  BY <1>1, Running, LoneNow DEF Here
<1>4. AStore' = AStore
  BY <1>1, QuietStore
<1>5. ASSUME NEW e \in flash, Found(e, k), old' = {e}, pc' = "delrm",
             op' = [kind |-> "del", key |-> k], res' = res
      PROVE  CallInv' /\ Implements
  <2>1. e.key = k /\ (Copies(k) # {} => e \in Copies(k))
    BY <1>3, <1>5, LookupSound
  <2>2. Copies(k) \subseteq {e}
    BY <2>1, <1>3 DEF Lone
  <2>3. Copies(k)' = Copies(k)
    BY <1>1 DEF Copies
  <2>4. op'.key = k
    BY <1>5
  <2>5. Copies(op.key)' = Copies(k)'
    BY <2>4
  <2>6. CallInv'
    BY <1>5, <2>1, <2>2, <2>3, <2>4, <2>5 DEF CallInv, SetCall
  <2>7. AOp' = [kind |-> "del", key |-> k]
    BY <1>5 DEF AOp
  <2>8. QED
    BY <1>2, <1>4, <1>5, <2>6, <2>7, AbsDelStart
<1>6. CASE Missing(k) /\ Return("fail")
  <2>1. Copies(k) = {}
    BY <1>3, <1>6, LookupSound
  <2>2. FactoryNodes(k) = {}
    BY <1>3, <1>6, SeenAll DEF Missing, Hits, FactoryNodes
  <2>3. Value(k) = NoVal
    BY <2>1, <2>2 DEF Value, ValueOf
  <2>4. QED
    BY <1>2, <1>4, <1>6, <2>3, Ends, AbsDelMissing
<1>7. QED
  BY <1>5, <1>6 DEF Del

(* kv_rm removes the only copy, or there is none and the factory's stays. *)
LEMMA DelRemoves ==
    ASSUME Here, pc = "delrm", NEW e \in old, NEW k, k = op.key,
           (e.rw /\ Removes(flash', e)) \/ (~e.rw /\ flash' = flash)
    PROVE  AStore' = [AStore EXCEPT ![k] = FactoryValue(k)]
<1>1. k \in Keys /\ e.key = k /\ Copies(k) \subseteq old /\ \A x \in old : x = e
  BY DEF Here, ValuesInv, CallInv, StoreInv, CallSound
<1>2. CASE e.rw /\ Removes(flash', e)
  BY <1>1, <1>2, LastGoes
<1>3. CASE ~e.rw /\ flash' = flash
  <2>1. Copies(k) = {}
    BY <1>1, <1>3 DEF Copies
  <2>2. QED
    BY <1>1, <1>3, <2>1, NoneThere
<1>4. QED
  BY <1>2, <1>3

LEMMA DelRmImpl ==
    ASSUME Here, DelRm
    PROVE  CallInv' /\ Implements
<1>1. pc = "delrm" /\ Return("ok")
  BY DEF DelRm
<1>2. PICK e \in old : kvnode_rm(e)
  BY DEF DelRm
<1>3. e \in flash /\ IsNode(e) /\ e \in Entry
  BY <1>1 DEF Here, StoreInv, CallSound, TypeOK
<1>4. AllSound /\ FactoryInv
  BY <1>1, Running DEF Here, ValuesInv
<1>5. (e.rw /\ Removes(flash', e)) \/ (~e.rw /\ flash' = flash)
  <2>1. e.rw => Removes(flash', e)
    BY <1>1, <1>2, <1>3, <1>4, RmExact
  <2>2. ~e.rw => flash' = flash
    BY <1>2 DEF kvnode_rm
  <2>3. QED
    BY <2>1, <2>2
<1>6. PICK k \in Keys : k = op.key
  BY <1>1 DEF Here, ValuesInv, CallInv
<1>7. AStore' = [AStore EXCEPT ![k] = FactoryValue(k)]
  BY <1>1, <1>5, <1>6, DelRemoves
<1>8. AOp = [kind |-> "del", key |-> k]
  BY <1>1, <1>6 DEF Here, ValuesInv, CallInv, AOp
<1>9. QED
  BY <1>1, <1>7, <1>8, Ends, AbsDelTakesEffect

LEMMA ResetImpl ==
    ASSUME Here, Reset
    PROVE  CallInv' /\ Implements
<1>1. /\ pc = "idle" /\ op' = [kind |-> "reset"] /\ pc' = "reset"
      /\ todo' = {e \in flash : e.st = "live"} /\ flash' = flash /\ res' = res
  BY DEF Reset
<1>2. AOp = NoOp
  BY <1>1 DEF Here, ValuesInv, CallInv, AOp
<1>3. AOp' = [kind |-> "reset"]
  BY <1>1 DEF AOp
<1>4. CallInv'
  BY <1>1 DEF CallInv, SetCall
<1>5. QED
  BY <1>1, <1>2, <1>3, <1>4, QuietStore, AbsResetStart

LEMMA ResetRemoves ==
    ASSUME Here, pc = "reset", NEW e \in todo, e.rw, Removes(flash', e)
    PROVE  /\ e.key \in Keys
           /\ AStore' = AStore \/ AStore' = [AStore EXCEPT ![e.key] = FactoryValue(e.key)]
<1>1. IsNode(e) /\ e.key \in Keys
  BY DEF Here, StoreInv, CallSound, IsNode
<1>2. CASE e \in flash
  <2>1. e \in Copies(e.key)
    BY <1>1, <1>2, NodeCopies
  <2>2. Copies(e.key) \subseteq {e}
    BY <1>1, <2>1, LoneNow DEF Here, Lone
  <2>3. QED
    BY <1>1, <2>2, LastGoes
<1>3. CASE e \notin flash
  <2>1. SameLive
    BY <1>3 DEF Removes, SameLive
  <2>2. QED
    BY <1>1, <2>1, LiveStore
<1>4. QED
  BY <1>2, <1>3

LEMMA ResetRmImpl ==
    ASSUME Here, NEW e \in todo, ResetRm(e)
    PROVE  CallInv' /\ Implements
<1>1. /\ pc = "reset" /\ pc' = "reset" /\ kvnode_rm(e) /\ todo' = todo \ {e}
      /\ UNCHANGED <<op, old, res>>
  BY DEF ResetRm
<1>2. AllSound /\ FactoryInv
  BY <1>1, Running DEF Here, ValuesInv
<1>3. IsNode(e) /\ e \in Entry /\ (e \in flash \/ Live(e.blk) = {})
  BY <1>1 DEF Here, StoreInv, CallSound, TypeOK
<1>4. AOp = [kind |-> "reset"] /\ AOp' = AOp
  BY <1>1 DEF Here, ValuesInv, CallInv, AOp
<1>5. (e.rw /\ Removes(flash', e)) \/ (~e.rw /\ flash' = flash)
  <2>1. e.rw => Removes(flash', e)
    BY <1>1, <1>2, <1>3, RmExact
  <2>2. ~e.rw => flash' = flash
    BY <1>1 DEF kvnode_rm
  <2>3. QED
    BY <2>1, <2>2
<1>6. CallInv'
  <2>1. \A x \in flash' : x.st = "live" /\ x.rw => x \in flash /\ x # e
    BY <1>5 DEF Removes
  <2>2. \A x \in flash' : x.st = "live" /\ x.rw => x \in todo'
    BY <1>1, <2>1 DEF Here, ValuesInv, CallInv
  <2>3. QED
    BY <1>1, <2>2 DEF Here, ValuesInv, CallInv, SetCall
<1>7. Implements
  <2>1. CASE e.rw /\ Removes(flash', e)
    BY <1>1, <1>4, <2>1, ResetRemoves, AbsResetKey DEF Implements
  <2>2. CASE flash' = flash
    BY <1>1, <1>4, <2>2, QuietStore DEF Implements
  <2>3. QED
    BY <1>5, <2>1, <2>2
<1>8. QED
  BY <1>6, <1>7

LEMMA ResetEndImpl ==
    ASSUME Here, ResetEnd
    PROVE  CallInv' /\ Implements
<1>1. pc = "reset" /\ todo = {} /\ Return("ok") /\ flash' = flash
  BY DEF ResetEnd
<1>2. \A k \in Keys : Copies(k) = {}
  BY <1>1 DEF Here, ValuesInv, CallInv, Copies
<1>3. \A k \in Keys : Value(k) = FactoryValue(k)
  BY <1>2, ValueIs DEF Here, ValuesInv
<1>4. AOp = [kind |-> "reset"]
  BY <1>1 DEF Here, ValuesInv, CallInv, AOp
<1>5. QED
  BY <1>1, <1>3, <1>4, Ends, QuietStore, AbsResetEnd

(* A step of kv_init that changes no value. *)
LEMMA BootStutters ==
    ASSUME Here, AStore' = AStore, pc \in {"init", "verify"}, pc' \in {"init", "verify", "idle"},
           UNCHANGED <<op, res>>, pc' = "verify" => todo' \subseteq flash'
    PROVE  CallInv' /\ Implements
<1>1. CallInv'
  BY DEF Here, ValuesInv, CallInv, SetCall
<1>2. AOp' = AOp
  BY DEF AOp
<1>3. QED
  BY <1>1, <1>2 DEF Implements

LEMMA InitBlockImpl ==
    ASSUME Here, InitBlock
    PROVE  CallInv' /\ Implements
<1>1. /\ pc = "init" /\ pc' = pc /\ UNCHANGED <<op, res>>
      /\ flash' = IF Blank(idx) THEN Erased(idx) ELSE flash
  BY DEF InitBlock
<1>2. SameLive
  BY <1>1 DEF SameLive, Blank, Erased, Live, In
<1>3. QED
  BY <1>1, <1>2, LiveStore, BootStutters

LEMMA InitVerifyImpl ==
    ASSUME Here, InitVerify
    PROVE  CallInv' /\ Implements
<1>1. pc = "init" /\ pc' = "verify" /\ todo' = Conflicts /\ UNCHANGED <<flash, op, res>>
  BY DEF InitVerify
<1>2. todo' \subseteq flash'
  BY <1>1 DEF Conflicts
<1>3. QED
  BY <1>1, <1>2, QuietStore, BootStutters

LEMMA VerifyEndImpl ==
    ASSUME Here, VerifyEnd
    PROVE  CallInv' /\ Implements
BY QuietStore, BootStutters DEF VerifyEnd

LEMMA VerifyFacts ==
    ASSUME Here, pc = "verify", NEW e \in todo, NEW f \in Mapped(e)
    PROVE  /\ Loser(e, f) \in flash /\ Loser(e, f) \in Entry /\ IsNode(Loser(e, f)) /\ Loser(e, f).rw
           /\ Loser(e, f) \in {e, f} /\ f \notin todo
<1>1. e \in flash /\ e \in Entry /\ IsNode(e) /\ e.rw
  BY DEF Here, ValuesInv, CallInv, StoreInv, CallSound, TypeOK
<1>2. f \in flash /\ f \in Entry /\ IsNode(f) /\ f.rw /\ f \notin todo
  BY DEF Mapped, Here, StoreInv, FlashSound, TypeOK
<1>3. QED
  BY <1>1, <1>2 DEF Loser

LEMMA VerifyImpl ==
    ASSUME Here, NEW e \in flash, NEW f \in flash, Verify(e, f)
    PROVE  CallInv' /\ Implements
<1>1. /\ pc = "verify" /\ pc' = pc /\ todo' = todo \ {e} /\ UNCHANGED <<op, res>>
      /\ e \in todo /\ f \in Mapped(e)
      /\ flash' = flash \/ kvnode_rm(Loser(e, f))
  BY DEF Verify, IsFirst
<1>2. todo \subseteq flash /\ \A x \in todo : x.st = "live"
  BY <1>1 DEF Here, ValuesInv, CallInv, StoreInv, CallSound, IsNode
<1>3. CASE flash' = flash
  BY <1>1, <1>2, <1>3, QuietStore, BootStutters
<1>4. CASE kvnode_rm(Loser(e, f))
  <2>1. AllSound /\ FactoryInv
    BY <1>1, Running DEF Here, ValuesInv
  <2>2. /\ Loser(e, f) \in flash /\ Loser(e, f) \in Entry /\ IsNode(Loser(e, f)) /\ Loser(e, f).rw
        /\ Loser(e, f) \in {e, f} /\ f \notin todo
    BY <1>1, VerifyFacts
  <2>3. Removes(flash', Loser(e, f))
    BY <1>1, <1>4, <2>1, <2>2, RmExact
  <2>4. AStore' = AStore
    BY <1>1, <2>3, VerifyRemoves
  <2>5. todo' \subseteq flash'
    BY <1>1, <1>2, <2>2, <2>3 DEF Removes
  <2>6. QED
    BY <1>1, <2>4, <2>5, BootStutters
<1>5. QED
  BY <1>1, <1>3, <1>4

(* What a power loss leaves of a program: nothing live, or the node. *)
LEMMA TornAdds ==
    ASSUME ~LossOverRemains, StoreInv, pc \in {"set", "gccopy"}, NEW b \in Blocks, NEW s \in 1 .. BlockSize, CanAlloc(b, s),
           NEW k \in Keys, NEW v \in Vals, NEW r \in 0 .. MaxVer,
           flash' \in TornProgram(b, s, k, v, r)
    PROVE  SameLive \/ Adds(flash', Node(b, wo[b], s, k, v, r))
<1> DEFINE n == Node(b, wo[b], s, k, v, r)
<1>1. AllSound
  BY Running
<1>2. /\ \A x \in flash' : x.st = "live" => x \in flash \/ x = n
      /\ \A x \in flash : x.st # "torn" => x \in flash'
  BY <1>1, TornProgramReadable
<1> HIDE DEF n
<1>3. CASE n \in flash'
  BY <1>2, <1>3 DEF Adds, n
<1>4. CASE n \notin flash'
  BY <1>2, <1>4 DEF SameLive
<1>5. QED
  BY <1>3, <1>4

LEMMA PowerLossImpl ==
    ASSUME ~LossOverRemains, Here, PowerLoss
    PROVE  CallInv' /\ Implements
<1>1. flash' \in Survives /\ pc' = "init" /\ op' = NoOp /\ res' = "none"
  BY DEF PowerLoss
<1>2. CallInv' /\ AOp' = NoOp
  BY <1>1 DEF CallInv, SetCall, AOp
<1>k. AStore' = AStore => CallInv' /\ Implements
  BY <1>1, <1>2, AbsPowerLoss
<1>q. flash' = flash => CallInv' /\ Implements
  BY <1>k, QuietStore
<1>t. TypeOK /\ CallSound /\ FactoryInv /\ CallInv
  BY DEF Here, StoreInv, ValuesInv
<1>3. CASE pc = "set"
  <2>1. \/ flash' = flash
        \/ /\ CanAlloc(bid, ValSize[op.val])
           /\ flash' \in TornProgram(bid, ValSize[op.val], op.key, op.val, ver)
    BY <1>1, <1>3 DEF Survives
  <2>2. CASE /\ CanAlloc(bid, ValSize[op.val])
             /\ flash' \in TornProgram(bid, ValSize[op.val], op.key, op.val, ver)
    <3>1. PICK k \in Keys, v \in Vals : k = op.key /\ v = op.val
      BY <1>3, <1>t DEF CallSound, SetCall
    <3>2. bid \in Blocks /\ ver \in 0 .. MaxVer /\ ValSize[v] \in 1 .. BlockSize
      BY <1>t, ConstantsAssumption DEF TypeOK
    <3> DEFINE n == Node(bid, wo[bid], ValSize[v], k, v, ver)
    <3>3. SameLive \/ Adds(flash', n)
      BY <1>3, <2>2, <3>1, <3>2, TornAdds DEF Here
    <3>4. n.st = "live" /\ n.rw /\ n.key = k /\ n.val = v /\ n.ver = ver
      BY DEF Node
    <3> HIDE DEF n
    <3>5. CASE Adds(flash', n)
      <4>1. AStore' = [AStore EXCEPT ![k] = v]
        BY <1>3, <3>1, <3>4, <3>5, SetAdds
      <4>2. AOp = SetOp(k, v)
        BY <1>3, <3>1, SetOps DEF SetCall
      <4>3. QED
        BY <1>1, <1>2, <4>1, <4>2, AbsPowerLoss
    <3>6. QED
      BY <3>3, <3>5, <1>k, LiveStore
  <2>3. QED
    BY <2>1, <2>2, <1>q
<1>4. CASE pc = "gccopy"
  <2>1. \/ flash' = flash
        \/ \E e \in todo : /\ CanAlloc(gcb, e.size)
                           /\ flash' \in TornProgram(gcb, e.size, e.key, e.val, NextVer(e.ver))
    BY <1>1, <1>4 DEF Survives
  <2>2. ASSUME NEW e \in todo, CanAlloc(gcb, e.size),
               flash' \in TornProgram(gcb, e.size, e.key, e.val, NextVer(e.ver))
        PROVE  AStore' = AStore
    <3>1. gcb \in Blocks /\ e \in flash /\ IsNode(e) /\ e \in Entry
      BY <1>4, <1>t DEF CallSound, GcCall, TypeOK
    <3>2. e.size \in 1 .. BlockSize /\ NextVer(e.ver) \in 0 .. MaxVer /\ e.key \in Keys /\ e.val \in Vals
      BY <3>1, EntryFields, NextVerOther DEF IsNode
    <3> DEFINE n == Node(gcb, wo[gcb], e.size, e.key, e.val, NextVer(e.ver))
    <3>3. SameLive \/ Adds(flash', n)
      BY <1>4, <2>2, <3>1, <3>2, TornAdds DEF Here
    <3>4. n.st = "live" /\ n.rw /\ n.key = e.key /\ n.val = e.val /\ n.ver = NextVer(e.ver)
      BY DEF Node
    <3> HIDE DEF n
    <3>5. CASE Adds(flash', n) /\ n \notin flash
      BY <1>4, <3>4, <3>5, GcAdds
    <3>6. CASE Adds(flash', n) /\ n \in flash
      <4>1. SameLive
        BY <3>6 DEF Adds, SameLive
      <4>2. QED
        BY <4>1, LiveStore
    <3>7. QED
      BY <3>3, <3>5, <3>6, LiveStore
  <2>3. QED
    BY <2>1, <2>2, <1>q, <1>k
<1>5. CASE pc \in {"setrm", "delrm"}
  <2>1. PICK e \in old : flash' \in TornRm(e)
    BY <1>1, <1>5 DEF Survives
  <2>2. e \in flash /\ IsNode(e) /\ e \in Entry
    BY <1>5, <1>t DEF CallSound, TypeOK
  <2>3. flash' = flash \/ (e.rw /\ Removes(flash', e))
    BY <1>5, <1>t, <2>1, <2>2, Running, TornRmExact DEF Here
  <2>4. CASE pc = "setrm"
    BY <2>3, <2>4, <1>q, <1>k, SetRemoves
  <2>5. CASE pc = "delrm" /\ e.rw /\ Removes(flash', e)
    <3>1. PICK k \in Keys : k = op.key
      BY <2>5, <1>t DEF CallInv
    <3>2. AStore' = [AStore EXCEPT ![k] = FactoryValue(k)]
      BY <2>5, <3>1, DelRemoves
    <3>3. AOp = [kind |-> "del", key |-> k]
      BY <2>5, <3>1, <1>t DEF CallInv, AOp
    <3>4. QED
      BY <1>1, <1>2, <3>2, <3>3, AbsPowerLoss
  <2>6. QED
    BY <1>5, <2>3, <2>4, <2>5, <1>q
<1>6. CASE pc = "gcrm"
  <2>1. flash' = flash \/ \E e \in todo : IsFirst(e, todo) /\ flash' \in TornRm(e)
    BY <1>1, <1>6 DEF Survives
  <2>2. ASSUME NEW e \in todo, IsFirst(e, todo), flash' \in TornRm(e) PROVE CallInv' /\ Implements
    <3>1. e \in flash /\ IsNode(e) /\ e \in Entry
      BY <1>6, <1>t DEF CallSound, GcCall, TypeOK
    <3>2. flash' = flash \/ (e.rw /\ Removes(flash', e))
      BY <1>6, <1>t, <2>2, <3>1, Running, TornRmExact DEF Here
    <3>3. QED
      BY <1>6, <2>2, <3>2, <1>q, <1>k, GcRemoves
  <2>3. QED
    BY <2>1, <2>2, <1>q
<1>7. CASE pc = "reset"
  <2>1. flash' = flash \/ \E e \in todo : flash' \in TornRm(e)
    BY <1>1, <1>7 DEF Survives
  <2>2. ASSUME NEW e \in todo, flash' \in TornRm(e) PROVE CallInv' /\ Implements
    <3>1. IsNode(e) /\ e \in Entry /\ (e \in flash \/ Live(e.blk) = {})
      BY <1>7, <1>t DEF CallSound, TypeOK
    <3>2. flash' = flash \/ (e.rw /\ Removes(flash', e))
      BY <1>7, <1>t, <2>2, <3>1, Running, TornRmExact DEF Here
    <3>3. CASE e.rw /\ Removes(flash', e)
      <4>1. /\ e.key \in Keys
            /\ AStore' = AStore \/ AStore' = [AStore EXCEPT ![e.key] = FactoryValue(e.key)]
        BY <1>7, <3>3, ResetRemoves
      <4>2. AOp = [kind |-> "reset"]
        BY <1>7, <1>t DEF CallInv, AOp
      <4>3. QED
        BY <1>1, <1>2, <4>1, <4>2, AbsPowerLoss
    <3>4. QED
      BY <3>2, <3>3, <1>q
  <2>3. QED
    BY <2>1, <2>2, <1>q
<1>8. CASE pc = "verify"
  <2>1. flash' = flash \/ \E e \in todo : \E f \in Mapped(e) : flash' \in TornRm(Loser(e, f))
    BY <1>1, <1>8 DEF Survives
  <2>2. ASSUME NEW e \in todo, NEW f \in Mapped(e), flash' \in TornRm(Loser(e, f))
        PROVE  CallInv' /\ Implements
    <3>1. Loser(e, f) \in flash /\ Loser(e, f) \in Entry /\ IsNode(Loser(e, f))
      BY <1>8, VerifyFacts
    <3>2. flash' = flash \/ Removes(flash', Loser(e, f))
      BY <1>8, <1>t, <2>2, <3>1, Running, TornRmExact DEF Here
    <3>3. QED
      BY <1>8, <3>2, <1>q, <1>k, VerifyRemoves
  <2>3. QED
    BY <2>1, <2>2, <1>q
<1>9. CASE pc \notin {"set", "setrm", "delrm", "gccopy", "gcrm", "reset", "verify"}
  <2>1. flash' = flash
    BY <1>1, <1>9 DEF Survives
  <2>2. QED
    BY <2>1, <1>q
<1>10. QED
  BY <1>3, <1>4, <1>5, <1>6, <1>7, <1>8, <1>9

LEMMA StoreImplements ==
    ASSUME ~LossOverRemains, Here, [Next]_vars
    PROVE  CallInv' /\ Implements
<1>1. CASE Step
  <2>1. CASE InitBlock \/ InitVerify \/ VerifyEnd \/ \E e, f \in flash : Verify(e, f)
    BY <2>1, InitBlockImpl, InitVerifyImpl, VerifyEndImpl, VerifyImpl
  <2>2. CASE SetSkip \/ SetProgram \/ SetRm \/ DelRm
    BY <2>2, SetSkipImpl, SetProgramImpl, SetRmImpl, DelRmImpl
  <2>3. CASE \/ \E b \in Blocks : GcPick(b)
             \/ \E e \in todo : GcCopy(e) \/ GcRm(e)
             \/ GcBlockDone \/ GcEnd \/ GcWild
    BY <2>3, GcPickImpl, GcCopyImpl, GcRmImpl, GcBlockDoneImpl, GcEndImpl, GcWildImpl
  <2>4. CASE ResetEnd \/ \E e \in todo : ResetRm(e)
    BY <2>4, ResetRmImpl, ResetEndImpl
  <2>5. QED
    BY <1>1, <2>1, <2>2, <2>3, <2>4 DEF Step
<1>2. CASE Request
  BY <1>2, SetImpl, DelImpl, ResetImpl DEF Request
<1>3. CASE PowerLoss
  BY <1>3, PowerLossImpl
<1>4. CASE UNCHANGED vars
  <2>1. UNCHANGED <<flash, pc, op, old, todo, res>>
    BY <1>4 DEF vars
  <2>2. \A k : Copies(k)' = Copies(k)
    BY <2>1 DEF Copies
  <2>3. Copies(op.key)' = Copies(op.key)
    BY <2>1 DEF Copies
  <2>4. CallInv'
    BY <2>1, <2>2, <2>3 DEF Here, ValuesInv, CallInv, SetCall, NextVer, IsFirst, Before
  <2>5. AOp' = AOp /\ AStore' = AStore
    BY <2>1, QuietStore DEF AOp
  <2>6. QED
    BY <2>1, <2>4, <2>5 DEF Implements
<1>5. QED
  BY <1>1, <1>2, <1>3, <1>4 DEF Next

LEMMA CallInit ==
    ASSUME Init
    PROVE  CallInv
BY DEF Init, CallInv, SetCall

LEMMA AbsInit ==
    ASSUME Init
    PROVE  Abs!Init
<1>1. FactoryInv
  BY FactoryInit
<1>2. \A k \in Keys : Copies(k) = {}
  BY RoAssumption DEF Init, Copies
<1>3. \A k \in Keys : Value(k) = FactoryValue(k)
  BY <1>1, <1>2, ValueIs
<1>4. QED
  BY <1>3 DEF Init, Abs!Init, Abs!NoOp, NoOp, FactoryValue

(* What a call has done is recorded on flash and in its locals as CallInv    *)
(* says, through power losses and restarts.                                  *)
THEOREM ValuesHold == Filled /\ ~LossOverRemains => (Spec => []ValuesInv)
<1>1. ASSUME Filled /\ ~LossOverRemains PROVE Spec => []ValuesInv
  <2>1. StoreInv /\ ValuesInv /\ [Next]_vars => ValuesInv'
    BY <1>1, FactoryNext, StoreImplements DEF Here, ValuesInv
  <2>2. Init => ValuesInv
    BY FactoryInit, CallInit DEF ValuesInv
  <2>3. QED
    BY <1>1, <2>1, <2>2, StoreHolds, PTL DEF Spec
<1>2. QED
  BY <1>1

(* The store on flash implements KVAbstract: every aos_kv_set, aos_kv_del    *)
(* and reset is atomic per key when power fails, a call succeeds exactly if  *)
(* it took effect (or set a key to the text of the factory value it has),    *)
(* and garbage collection, verification and booting change no value.  This   *)
(* is for an image that fills its blocks, or none at all, and for power      *)
(* losses other than in a program over torn remains that kvblock_calc did    *)
(* not reach.                                                                *)
THEOREM StoreIsPowerSafe == Filled /\ ~LossOverRemains => (Spec => PowerSafe)
<1>1. ASSUME Filled /\ ~LossOverRemains PROVE Spec => PowerSafe
  <2>1. StoreInv /\ ValuesInv /\ [Next]_vars => [Abs!Next]_(Abs!vars)
    <3>1. SUFFICES ASSUME StoreInv, ValuesInv, [Next]_vars PROVE [Abs!Next]_(Abs!vars)
      OBVIOUS
    <3>2. FactoryInv'
      BY <1>1, <3>1, FactoryNext DEF ValuesInv
    <3>3. Implements
      BY <1>1, <3>1, <3>2, StoreImplements DEF Here
    <3>4. QED
      BY <3>3 DEF Implements, AStore, AOp, Abs!vars
  <2>2. Init => Abs!Init
    BY AbsInit
  <2>3. Spec => []ValuesInv
    BY <1>1, ValuesHold
  <2>4. QED
    BY <1>1, <2>1, <2>2, <2>3, StoreHolds, PTL DEF Spec, PowerSafe, Abs!Spec
<1>2. QED
  BY <1>1

=============================================================================
