------------------------------- MODULE KVNode -------------------------------
(***************************************************************************)
(* The bytes behind KVStore: how kvblock_set lays a node out in a block,   *)
(* and how kvblock_search finds nodes again in whatever a power loss left. *)
(* One block that always holds a node of another key, so that kvblock_init *)
(* never erases it, and one key that is updated, with power losses after   *)
(* any number of programmed bytes.                                         *)
(***************************************************************************)
EXTENDS Integers, Sequences, FiniteSets, FiniteSetsExt

CONSTANTS
    Size,       \* bytes of the block
    Scan,       \* bytes kvblock_calc searches for torn writes
    Key,        \* the key, a sequence of bytes
    Other,      \* the key of the other node, and its value
    Values,     \* the values written, sequences of bytes
    MaxTorn     \* bound on the programs that power losses cut short

ASSUME KVNodeAssumption ==
    /\ Size \in Nat /\ Size % 4 = 0 /\ Scan \in Nat /\ Scan <= Size /\ MaxTorn \in Nat
    /\ Key \in Seq(1 .. 254) /\ Len(Key) \in 1 .. 63
    /\ Other \in Seq(1 .. 254) /\ Len(Other) \in 1 .. 63 /\ Other # Key
    /\ 2 * Len(Other) + 17 <= Size         \* its node, its erase word and the last word
    /\ \A v \in Values : v \in Seq(0 .. 255) /\ Len(v) >= 1 /\ Len(Key) + Len(v) < 498

VARIABLES
    mem,        \* the block: [0 .. Size-1 -> 0 .. 255]
    wo,         \* write_offset
    pc,         \* "init", "idle", "program", "rm"
    new,        \* kv_set: the value being written
    old,        \* kv_set: the node kv_find returned, or none
    expect,     \* the values the key may have now (history)
    torn,       \* programs cut short so far
    log         \* the programs so far, whole or cut short (history)

vars == <<mem, wo, pc, new, old, expect, torn, log>>

Blank == 255
EQ    == 61     \* '='
NL    == 10     \* '\n'
CR    == 13     \* '\r'
RW_FLAG_SIZE == 5
None  == [head |-> -1]

align4(x) == x + ((4 - (x % 4)) % 4)

-----------------------------------------------------------------------------
(* kvblock_set: key, 0, size_lo, size_hi, version, '=', value, size_hi,    *)
(* zero padding to a word; the erase word behind it stays blank.           *)
SizeHi(k, v) == Len(k) * 4 + Len(v) \div 256

MallocSize(k, v) == align4(Len(k) + Len(v) + RW_FLAG_SIZE + 1)

Bytes(k, v, r) ==
    LET body == k \o <<0, Len(v) % 256, SizeHi(k, v), r, EQ>> \o v \o <<SizeHi(k, v)>>
    IN  [i \in 0 .. MallocSize(k, v) - 1 |-> IF i < Len(body) THEN body[i + 1] ELSE 0]

(* The bits that two bytes have in common. *)
Both(x, y) ==
    MapThenSumSet(LAMBDA j : 2^j, {j \in 0 .. 7 : (x \div 2^j) % 2 = 1 /\ (y \div 2^j) % 2 = 1})

(* The first n bytes of s programmed at offset o: NOR flash only clears bits. *)
Program(m, o, s, n) ==
    [i \in DOMAIN m |-> IF i \in o .. o + n - 1
                         THEN IF m[i] = Blank THEN s[i - o] ELSE Both(m[i], s[i - o])
                         ELSE m[i]]

(* Mutant: neither the erase word nor the last word of the block is kept. *)
Fits_DataOnly(k, v) == wo + MallocSize(k, v) <= Size

Fits(k, v) == wo + MallocSize(k, v) + 4 <= Size - 4

-----------------------------------------------------------------------------
(* kvblock_search.  Reads past the block see blank flash.                  *)
At(i) == IF i \in 0 .. Size - 1 THEN mem[i] ELSE Blank

ValSizeAt(c) == At(c + 1) + 256 * (At(c + 2) % 4)
KeySizeAt(c) == At(c + 2) \div 4

(* Mutant: the copy of size_hi behind the value is not compared. *)
IsNode_NoTrailer(c) ==
    /\ At(c) = 0 /\ At(c + 4) = EQ
    /\ c + ValSizeAt(c) < Size /\ c - KeySizeAt(c) >= 0

(* A zero byte that looks like the end of the key of a writable node. *)
IsNode(c) ==
    /\ At(c) = 0
    /\ At(c + 4) = EQ
    /\ c + ValSizeAt(c) < Size
    /\ c - KeySizeAt(c) >= 0
    /\ At(c + 2) = At(c + ValSizeAt(c) + RW_FLAG_SIZE)

Printable(x) == x \in 32 .. 126

(* A read-only "key=value" text whose '=' is at d and whose line ends at c. *)
IsText(d, c) ==
    /\ d < c /\ At(d) = EQ
    /\ \A i \in d + 1 .. c - 1 : At(i) # EQ /\ (Printable(At(i)) \/ At(i) \in {0, CR})

(* The search starts at the first byte from o on that is not zero. *)
FirstByte(o) == Min({Size} \cup {i \in o .. Size - 1 : At(i) # 0})

NodeAt(c) ==
    LET ks == KeySizeAt(c)
        vs == ValSizeAt(c)
        ns == align4(ks + vs + RW_FLAG_SIZE + 1) + 4
    IN  [head |-> c - ks, key |-> [i \in 1 .. ks |-> At(c - ks + i - 1)],
         val |-> [i \in 1 .. vs |-> At(c + RW_FLAG_SIZE + i - 1)],
         ver |-> At(c + 3), next |-> c - ks + ns, rw |-> TRUE,
         live |-> \E i \in 1 .. 4 : At(c - ks + ns - i) # 0]

TextAt(c, s, d) ==
    [head |-> s, key |-> [i \in 1 .. d - s |-> At(s + i - 1)],
     val |-> [i \in 1 .. c - d - 1 |-> At(d + i)],
     ver |-> 0, next |-> c + 1, rw |-> FALSE, live |-> TRUE]

kvblock_search(o) ==
    LET s    == FirstByte(o)
        hits == {c \in s .. Size - 2 : IsNode(c) \/ (At(c) = NL /\ \E d \in s .. c : IsText(d, c))}
        c    == Min(hits)
    IN  IF hits = {} THEN None
        ELSE IF IsNode(c) THEN NodeAt(c)
        ELSE TextAt(c, s, CHOOSE d \in s .. c : IsText(d, c))

(* kvblock_iter: the nodes from an offset on; none ends more than 12 bytes  *)
(* past the block.                                                         *)
NodesFrom[o \in 0 .. Size + 12] ==
    LET n == kvblock_search(o)
    IN  IF n = None THEN {} ELSE {n} \cup NodesFrom[n.next]

Nodes == NodesFrom[0]

(* kv_find and kv_get: the first live writable node of the key. *)
Hits == {n \in Nodes : n.live /\ n.rw /\ n.key = Key}

kv_find ==
    LET hits == Hits
    IN  IF hits = {} THEN None ELSE CHOOSE n \in hits : \A m \in hits : n.head <= m.head

-----------------------------------------------------------------------------
(* kvblock_calc and kv_verify.                                             *)
(* Mutant: torn writes are not searched for. *)
CalcOffset_NoScan == Max({0} \cup {align4(n.next) : n \in Nodes})

CalcOffset ==
    LET e == Max({0} \cup {align4(n.next) : n \in Nodes})
        w == {u \in 0 .. (Scan \div 4) - 2 :
                4 * u >= e /\ \E i \in 4 * u .. 4 * u + 3 : At(i) # At(Size - 4 + (i % 4))}
    IN  Max({e} \cup {4 * u + 4 : u \in w})

(* Mutant: the word behind the node is cleared instead of its last one. *)
Cleared_Next(S) ==
    [i \in DOMAIN mem |-> IF \E n \in S : i \in n.next .. n.next + 3 THEN 0 ELSE mem[i]]

(* kvnode_rm: the erase word, the last of a node, is cleared. *)
Cleared(S) ==
    [i \in DOMAIN mem |-> IF \E n \in S : i \in n.next - 4 .. n.next - 1 THEN 0 ELSE mem[i]]

Marked(S) ==
    {IF \E n \in S : n.head = e.at THEN [e EXCEPT !.rm = TRUE] ELSE e : e \in log}

Newer(r, s) == (r = 1 /\ s = 255) \/ (r > s /\ ~(r = 255 /\ s = 1))

Boot ==
    /\ pc = "init"
    /\ wo' = CalcOffset
    /\ LET hits  == Hits
           stale == {n \in hits : \E m \in hits : Newer(m.ver, n.ver)}
       IN  mem' = Cleared(stale) /\ log' = Marked(stale)
    /\ pc' = "idle"
    /\ UNCHANGED <<new, old, expect, torn>>

-----------------------------------------------------------------------------
(* kv_set.                                                                 *)
NextVer(n) == IF n = None THEN 1 ELSE IF n.ver = 255 THEN 1 ELSE n.ver + 1

Set(v) ==
    /\ pc = "idle"
    /\ Fits(Key, v)         \* otherwise another block: KVStore
    /\ LET n == kv_find
       IN  (n # None => n.val # v) /\ old' = n
    /\ new' = v /\ pc' = "program"
    /\ expect' = expect \cup {v}
    /\ UNCHANGED <<mem, wo, torn, log>>

NewBytes == Bytes(Key, new, NextVer(old))

(* A program of n bytes at write_offset, for the history. *)
Entry(n, rm) ==
    [at |-> wo, len |-> n, key |-> Key, val |-> new, ver |-> NextVer(old), rm |-> rm]

Done(v) == new' = <<>> /\ old' = None /\ expect' = {v} /\ pc' = "idle"

(* Programmed and read back; what does not read back right is marked erased *)
(* and kv_set goes on in another block.                                    *)
SetProgram ==
    LET size == MallocSize(Key, new)
        m    == Program(mem, wo, NewBytes, size)
    IN
    /\ pc = "program"
    /\ wo' = wo + size + 4
    /\ IF \A i \in 0 .. size - 1 : m[wo + i] = NewBytes[i]
         THEN /\ mem' = m /\ log' = log \cup {Entry(size, FALSE)}
              /\ IF old = None THEN Done(new) ELSE pc' = "rm" /\ UNCHANGED <<new, old, expect>>
         ELSE /\ mem' = [i \in DOMAIN m |-> IF i \in wo + size .. wo + size + 3 THEN 0 ELSE m[i]]
              /\ log' = log \cup {Entry(size, TRUE)}
              /\ Done(IF old = None THEN <<>> ELSE old.val)
    /\ UNCHANGED torn

SetRm ==
    /\ pc = "rm"
    /\ mem' = Cleared({old}) /\ log' = Marked({old})
    /\ Done(new)
    /\ UNCHANGED <<wo, torn>>

(* Power fails after n bytes of a program, all of them but not yet read     *)
(* back included, or between two operations.  What is left of the program  *)
(* ends with its last byte that is not blank.                              *)
Left(n) == Max({i \in 1 .. n : NewBytes[i - 1] # Blank})

PowerLoss(n) ==
    /\ pc \in {"program", "rm", "idle"}
    /\ n > 0 => pc = "program" /\ torn < MaxTorn
    /\ torn' = IF n > 0 THEN torn + 1 ELSE torn
    /\ mem' = IF n > 0 THEN Program(mem, wo, NewBytes, n) ELSE mem
    /\ log' = IF n > 0 THEN log \cup {Entry(Left(n), FALSE)} ELSE log
    /\ wo' = 0 /\ pc' = "init" /\ new' = <<>> /\ old' = None
    /\ UNCHANGED expect

Init ==
    /\ mem = Program([i \in 0 .. Size - 1 |-> Blank], 0, Bytes(Other, Other, 1), MallocSize(Other, Other))
    /\ wo = 0 /\ pc = "init" /\ new = <<>> /\ old = None
    /\ expect = {<<>>} /\ torn = 0
    /\ log = {[at |-> 0, len |-> MallocSize(Other, Other), key |-> Other, val |-> Other,
               ver |-> 1, rm |-> FALSE]}

Next ==
    \/ Boot
    \/ \E v \in Values : Set(v)
    \/ SetProgram \/ SetRm
    \/ \E n \in 0 .. Size : n <= MallocSize(Key, new) /\ PowerLoss(n)

Spec == Init /\ [][Next]_vars

-----------------------------------------------------------------------------
(* The block holds bytes and write_offset stays inside it. *)
TypeOK ==
    /\ mem \in [0 .. Size - 1 -> 0 .. 255]
    /\ wo \in 0 .. Size
    /\ pc \in {"init", "idle", "program", "rm"} /\ torn \in 0 .. MaxTorn

(* A key has the value last stored, or, after a power loss in the middle of *)
(* an update, the value before or after it, and never bytes of something   *)
(* else (<<>> stands for "does not exist").                                *)
OldOrNew ==
    pc = "idle" => LET n == kv_find IN (IF n = None THEN <<>> ELSE n.val) \in expect

(* As far as kvblock_calc searches for them, the remains of torn writes are *)
(* behind write_offset: the next node is programmed on blank flash.        *)
WritesBlank == pc = "idle" => \A i \in wo .. Scan - 5 : mem[i] = Blank

=============================================================================
