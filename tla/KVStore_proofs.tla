--------------------------- MODULE KVStore_proofs ---------------------------
(***************************************************************************)
(* StoreInv is inductive, for every factory image, and what follows from   *)
(* it: first lemmas on sums, maxima and the flash operations, then one per  *)
(* action, then the theorems.                                              *)
(***************************************************************************)
EXTENDS KVInv, FiniteSetTheorems, TLAPS

-----------------------------------------------------------------------------
(* Numbers and sums.                                                       *)

(* Induction on a set of numbers instead of a predicate. *)
LEMMA NatSetInduction ==
    ASSUME NEW S \in SUBSET Nat, 0 \in S, \A n \in S : n + 1 \in S
    PROVE  S = Nat
<1>1. SUFFICES ASSUME Nat \ S # {} PROVE FALSE
  OBVIOUS
<1>2. PICK x \in Nat \ S : \A y \in Nat \ S : ~ (<<y, x>> \in OpToRel(<, Nat))
  BY <1>1, NatLessThanWellFounded, WFMin
<1>3. \A y \in Nat \ S : ~ (y < x)
  BY <1>2 DEF OpToRel
<1>n. x \in Nat /\ x \notin S
  BY <1>2
<1>z. x # 0
  BY <1>n
<1>4. x - 1 \in Nat
  BY <1>n, <1>z
<1>5. x - 1 \in S
  BY <1>3, <1>4
<1>6. x - 1 + 1 \in S /\ x - 1 + 1 = x
  BY <1>5, <1>4
<1>7. QED
  BY <1>6, <1>n

(* The function MapThenSumSet defines, on any family of sets. *)
Some(S) == CHOOSE x \in S : TRUE
Sums(f, D) == f = [s \in D |-> IF s = {} THEN 0 ELSE Some(s).size + f[s \ {Some(s)}]]
Small(T, n) == {s \in SUBSET T : Cardinality(s) <= n}

LEMMA TotalIsSums ==
    ASSUME NEW S
    PROVE  TotalSize(S) = (CHOOSE f : Sums(f, SUBSET S))[S]
BY DEF TotalSize, MapThenSumSet, MapThenFoldSet, Sums, Some

LEMMA SumsStep ==
    ASSUME NEW T, IsFiniteSet(T), NEW n \in Nat, NEW f, Sums(f, Small(T, n))
    PROVE  \E g : Sums(g, Small(T, n + 1))
<1> DEFINE g == [s \in Small(T, n + 1) |-> IF s = {} THEN 0 ELSE Some(s).size + f[s \ {Some(s)}]]
<1>1. ASSUME NEW s \in Small(T, n) PROVE f[s] = IF s = {} THEN 0 ELSE Some(s).size + f[s \ {Some(s)}]
  BY DEF Sums
<1>2. ASSUME NEW s \in Small(T, n) PROVE s \in Small(T, n + 1)
  <2>1. IsFiniteSet(s)
    BY FS_Subset DEF Small
  <2>2. Cardinality(s) \in Nat
    BY <2>1, FS_CardinalityType
  <2>3. QED
    BY <2>2 DEF Small
<1>3. ASSUME NEW s \in Small(T, n) PROVE g[s] = f[s]
  BY <1>1, <1>2
<1>4. ASSUME NEW s \in Small(T, n + 1), s # {} PROVE s \ {Some(s)} \in Small(T, n)
  <2>1. IsFiniteSet(s)
    BY FS_Subset DEF Small
  <2>2. Some(s) \in s
    BY <1>4 DEF Some
  <2>3. Cardinality(s \ {Some(s)}) = Cardinality(s) - 1
    BY <2>1, <2>2, FS_RemoveElement
  <2>4. Cardinality(s) \in Nat
    BY <2>1, FS_CardinalityType
  <2>5. QED
    BY <2>3, <2>4 DEF Small
<1>5. ASSUME NEW s \in Small(T, n + 1)
      PROVE  g[s] = IF s = {} THEN 0 ELSE Some(s).size + g[s \ {Some(s)}]
  BY <1>3, <1>4
<1>6. g = [s \in Small(T, n + 1) |-> IF s = {} THEN 0 ELSE Some(s).size + g[s \ {Some(s)}]]
  BY <1>5
<1>7. Sums(g, Small(T, n + 1))
  BY <1>6 DEF Sums
<1>8. QED
  BY <1>7

LEMMA SumsExist ==
    ASSUME NEW T, IsFiniteSet(T)
    PROVE  \E f : Sums(f, SUBSET T)
<1> DEFINE S == {n \in Nat : \E f : Sums(f, Small(T, n))}
<1>1. 0 \in S
  <2> DEFINE z == [s \in Small(T, 0) |-> 0]
  <2>1. ASSUME NEW s \in Small(T, 0) PROVE s = {}
    <3>1. IsFiniteSet(s) /\ Cardinality(s) <= 0
      BY FS_Subset DEF Small
    <3>2. Cardinality(s) \in Nat
      BY <3>1, FS_CardinalityType
    <3>3. Cardinality(s) = 0
      BY <3>1, <3>2
    <3>4. QED
      BY <3>1, <3>3, FS_EmptySet
  <2>2. z = [s \in Small(T, 0) |-> IF s = {} THEN 0 ELSE Some(s).size + z[s \ {Some(s)}]]
    BY <2>1
  <2>3. Sums(z, Small(T, 0))
    BY <2>2 DEF Sums
  <2>4. QED
    BY <2>3
<1>2. \A n \in S : n + 1 \in S
  BY SumsStep
<1>3. S = Nat
  <2> HIDE DEF S
  <2>1. S \in SUBSET Nat
    BY DEF S
  <2>2. QED
    BY <1>1, <1>2, <2>1, NatSetInduction
<1>4. Cardinality(T) \in Nat
  BY FS_CardinalityType
<1>5. \E f : Sums(f, Small(T, Cardinality(T)))
  BY <1>3, <1>4
<1>6. Small(T, Cardinality(T)) = SUBSET T
  BY FS_Subset DEF Small
<1>7. QED
  BY <1>5, <1>6

LEMMA SumsAgree ==
    ASSUME NEW T, NEW U, NEW f, NEW g, NEW R \in SUBSET T, R \in SUBSET U, IsFiniteSet(R),
           Sums(f, SUBSET T), Sums(g, SUBSET U)
    PROVE  f[R] = g[R]
<1> DEFINE S == {n \in Nat : \A s \in SUBSET R : Cardinality(s) <= n => f[s] = g[s]}
<1>0. \A s \in SUBSET R : IsFiniteSet(s) /\ Cardinality(s) \in Nat
  BY FS_Subset, FS_CardinalityType
<1>f. \A s \in SUBSET R : f[s] = IF s = {} THEN 0 ELSE Some(s).size + f[s \ {Some(s)}]
  BY DEF Sums
<1>g. \A s \in SUBSET R : g[s] = IF s = {} THEN 0 ELSE Some(s).size + g[s \ {Some(s)}]
  BY DEF Sums
<1>1. 0 \in S
  <2>1. ASSUME NEW s \in SUBSET R, Cardinality(s) <= 0 PROVE f[s] = g[s]
    <3>1. Cardinality(s) = 0
      BY <1>0, <2>1
    <3>2. s = {}
      BY <1>0, <3>1, FS_EmptySet
    <3>3. QED
      BY <3>2, <1>f, <1>g
  <2>2. QED
    BY <2>1
<1>2. ASSUME NEW n \in S PROVE n + 1 \in S
  <2>1. ASSUME NEW s \in SUBSET R, Cardinality(s) <= n + 1, s # {} PROVE f[s] = g[s]
    <3>1. Some(s) \in s
      BY <2>1 DEF Some
    <3>2. Cardinality(s \ {Some(s)}) = Cardinality(s) - 1
      BY <3>1, <1>0, FS_RemoveElement
    <3>3. Cardinality(s \ {Some(s)}) <= n
      BY <3>2, <1>0, <2>1
    <3>4. f[s \ {Some(s)}] = g[s \ {Some(s)}]
      BY <3>3
    <3>5. QED
      BY <3>4, <1>f, <1>g, <2>1
  <2>2. ASSUME NEW s \in SUBSET R, s = {} PROVE f[s] = g[s]
    BY <2>2, <1>f, <1>g
  <2>3. QED
    BY <2>1, <2>2
<1>3. S = Nat
  <2> HIDE DEF S
  <2>1. S \in SUBSET Nat
    BY DEF S
  <2>2. QED
    BY <1>1, <1>2, <2>1, NatSetInduction
<1>4. Cardinality(R) \in S /\ Cardinality(R) <= Cardinality(R)
  BY <1>0, <1>3
<1>5. QED
  BY <1>4

LEMMA SumsTake ==
    ASSUME NEW T, IsFiniteSet(T), \A x \in T : x.size \in Int, NEW f, Sums(f, SUBSET T)
    PROVE  \A s \in SUBSET T : f[s] \in Int /\ \A x \in s : f[s] = x.size + f[s \ {x}]
<1> DEFINE Good(s) == f[s] \in Int /\ \A x \in s : f[s] = x.size + f[s \ {x}]
<1> DEFINE S == {n \in Nat : \A s \in SUBSET T : Cardinality(s) <= n => Good(s)}
<1>0. \A s \in SUBSET T : IsFiniteSet(s) /\ Cardinality(s) \in Nat
  BY FS_Subset, FS_CardinalityType
<1>f. \A s \in SUBSET T : f[s] = IF s = {} THEN 0 ELSE Some(s).size + f[s \ {Some(s)}]
  BY DEF Sums
<1>e. Good({})
  <2>1. {} \in SUBSET T
    OBVIOUS
  <2>2. f[{}] = 0
    BY <2>1, <1>f
  <2>3. QED
    BY <2>2
<1>1. 0 \in S
  <2>1. ASSUME NEW s \in SUBSET T, Cardinality(s) <= 0 PROVE s = {}
    <3>1. Cardinality(s) = 0
      BY <1>0, <2>1
    <3>2. QED
      BY <1>0, <3>1, FS_EmptySet
  <2>2. QED
    BY <2>1, <1>e
<1>2. ASSUME NEW n \in S PROVE n + 1 \in S
  <2>i. \A s \in SUBSET T : Cardinality(s) <= n => Good(s)
    OBVIOUS
  <2>r. ASSUME NEW s \in SUBSET T, Cardinality(s) <= n + 1, NEW x \in s
        PROVE  Good(s \ {x})
    <3>1. Cardinality(s \ {x}) = Cardinality(s) - 1
      BY <1>0, FS_RemoveElement
    <3>2. Cardinality(s \ {x}) <= n
      BY <3>1, <1>0, <2>r
    <3>3. QED
      BY <3>2, <2>i
  <2>1. ASSUME NEW s \in SUBSET T, Cardinality(s) <= n + 1, s # {} PROVE Good(s)
    <3> DEFINE c == Some(s)
    <3>1. c \in s
      BY <2>1 DEF Some
    <3>2. f[s] = c.size + f[s \ {c}]
      BY <1>f, <2>1
    <3>3. Good(s \ {c})
      BY <3>1, <2>1, <2>r
    <3>4. f[s] \in Int
      BY <3>1, <3>2, <3>3
    <3>5. ASSUME NEW x \in s, x # c PROVE f[s] = x.size + f[s \ {x}]
      <4>1. Good(s \ {x})
        BY <2>1, <2>r
      <4>2. f[s \ {c}] = x.size + f[(s \ {c}) \ {x}]
        BY <3>3, <3>5
      <4>3. f[s \ {x}] = c.size + f[(s \ {x}) \ {c}]
        BY <4>1, <3>5, <3>1
      <4>4. (s \ {c}) \ {x} = (s \ {x}) \ {c}
        OBVIOUS
      <4>5. Good((s \ {x}) \ {c})
        <5>1. Cardinality(s \ {x}) = Cardinality(s) - 1
          BY <1>0, FS_RemoveElement
        <5>2. Cardinality(s \ {x}) <= n + 1
          BY <5>1, <1>0, <2>1
        <5>3. s \ {x} \in SUBSET T /\ c \in s \ {x}
          BY <3>5, <3>1
        <5> HIDE DEF Good, c
        <5>4. QED
          BY <5>2, <5>3, <2>r
      <4> DEFINE z == f[(s \ {x}) \ {c}]
      <4>6. z \in Int /\ x.size \in Int /\ c.size \in Int
        BY <4>5, <3>1
      <4>7. f[s] = c.size + (x.size + z)
        BY <3>2, <4>2, <4>4
      <4>8. f[s \ {x}] = c.size + z
        BY <4>3
      <4> HIDE DEF z, c
      <4>9. QED
        BY <4>6, <4>7, <4>8
    <3> HIDE DEF c
    <3>6. QED
      BY <3>2, <3>4, <3>5
  <2> HIDE DEF Good
  <2>2. QED
    BY <2>1, <1>e
<1>3. S = Nat
  <2> HIDE DEF S
  <2>1. S \in SUBSET Nat
    BY DEF S
  <2>2. QED
    BY <1>1, <1>2, <2>1, NatSetInduction
<1>4. ASSUME NEW s \in SUBSET T PROVE Good(s)
  <2>1. Cardinality(s) \in S /\ Cardinality(s) <= Cardinality(s)
    BY <1>0, <1>3
  <2> HIDE DEF Good
  <2>2. QED
    BY <2>1
<1>5. QED
  BY <1>4

(* kv_size of a block is the sum of its nodes whichever way it is taken. *)
LEMMA TotalTake ==
    ASSUME NEW S, IsFiniteSet(S), \A x \in S : x.size \in Int
    PROVE  /\ TotalSize(S) \in Int
           /\ \A x \in S : TotalSize(S \ {x}) = TotalSize(S) - x.size
<1> DEFINE F(R) == CHOOSE f : Sums(f, SUBSET R)
<1>1. ASSUME NEW R \in SUBSET S PROVE Sums(F(R), SUBSET R)
  <2>1. IsFiniteSet(R)
    BY FS_Subset
  <2>2. \E f : Sums(f, SUBSET R)
    BY <2>1, SumsExist
  <2>3. QED
    BY <2>2
<1>2. \A R \in SUBSET S : TotalSize(R) = F(R)[R]
  BY TotalIsSums
<1>3. ASSUME NEW R \in SUBSET S PROVE F(R)[R] = F(S)[R]
  <2>1. IsFiniteSet(R)
    BY FS_Subset
  <2>2. Sums(F(R), SUBSET R) /\ Sums(F(S), SUBSET S)
    BY <1>1
  <2> HIDE DEF F
  <2>3. QED
    BY <2>1, <2>2, SumsAgree
<1>4. Sums(F(S), SUBSET S)
  BY <1>1
<1> HIDE DEF F
<1>5. \A s \in SUBSET S : F(S)[s] \in Int /\ \A x \in s : F(S)[s] = x.size + F(S)[s \ {x}]
  BY <1>4, SumsTake
<1>6. \A R \in SUBSET S : TotalSize(R) = F(S)[R] /\ TotalSize(R) \in Int
  BY <1>2, <1>3, <1>5
<1>7. ASSUME NEW x \in S PROVE TotalSize(S \ {x}) = TotalSize(S) - x.size
  <2>1. F(S)[S] = x.size + F(S)[S \ {x}]
    BY <1>5
  <2>2. TotalSize(S) = x.size + TotalSize(S \ {x})
    BY <2>1, <1>6
  <2>3. TotalSize(S) \in Int /\ TotalSize(S \ {x}) \in Int /\ x.size \in Int
    BY <1>6
  <2>4. QED
    BY <2>2, <2>3
<1>8. QED
  BY <1>6, <1>7

LEMMA MaxOf ==
    ASSUME NEW S \in SUBSET Nat, S # {}, NEW n \in Nat, \A x \in S : x <= n
    PROVE  Max(S) \in S /\ \A x \in S : x <= Max(S)
<1>1. \E m \in S : \A x \in S : m >= x
  <2>1. SUFFICES ASSUME \A m \in S : \E x \in S : x > m PROVE FALSE
    OBVIOUS
  <2> DEFINE R == {m \in Nat : \E x \in S : x >= m}
  <2>2. 0 \in R
    <3>1. PICK x \in S : x \in Nat
      OBVIOUS
    <3>2. x >= 0
      BY <3>1
    <3>3. QED
      BY <3>2
  <2>3. ASSUME NEW m \in R PROVE m + 1 \in R
    <3>1. PICK x \in S : x >= m
      OBVIOUS
    <3>2. PICK y \in S : y > x
      BY <2>1
    <3>3. y >= m + 1
      BY <3>1, <3>2
    <3>4. QED
      BY <3>3
  <2>4. R = Nat
    <3> HIDE DEF R
    <3>1. R \in SUBSET Nat
      BY DEF R
    <3>2. QED
      BY <2>2, <2>3, <3>1, NatSetInduction
  <2>5. n + 1 \in R
    <3> HIDE DEF R
    <3>1. QED
      BY <2>4
  <2>6. PICK x \in S : x >= n + 1
    BY <2>5
  <2>7. x \in Nat /\ x <= n
    BY <2>6
  <2>8. QED
    BY <2>6, <2>7
<1>2. Max(S) \in S /\ \A x \in S : Max(S) >= x
  BY <1>1 DEF Max
<1>3. QED
  BY <1>2

(* The image of a finite set. *)
LEMMA ImageFinite ==
    ASSUME NEW R, IsFiniteSet(R), NEW h, h = [x \in R |-> h[x]]
    PROVE  IsFiniteSet({h[x] : x \in R})
<1> DEFINE T == {h[x] : x \in R}
<1>1. h \in Surjection(R, T)
  BY DEF Surjection
<1>2. QED
  BY <1>1, FS_Surjection

-----------------------------------------------------------------------------
(* Flash and counters, block by block.                                     *)

FlashTypes == flash \subseteq Entry /\ FlashSound
RamTypes ==
    /\ wo \in [Blocks -> 0 .. BlockSize] /\ kvsz \in [Blocks -> Int]
    /\ cnt \in [Blocks -> Int] /\ roc \in [Blocks -> Nat]
Tallied(b) == cnt[b] = Cardinality(Live(b)) /\ kvsz[b] = TotalSize(Live(b))
Behind(b) == \A e \in flash : e.blk = b /\ e.st # "torn" => e.off + e.size <= wo[b]
AllSound == FlashTypes /\ RamTypes /\ \A b \in Blocks : Tallied(b) /\ Behind(b)

LEMMA EntryFields ==
    ASSUME NEW e \in Entry
    PROVE  /\ e.blk \in Blocks /\ e.off \in 0 .. BlockSize /\ e.size \in 1 .. BlockSize
           /\ e.ver \in 0 .. MaxVer /\ e.rw \in BOOLEAN /\ e.st \in {"live", "dead", "torn"}
BY DEF Entry

LEMMA SpaceIsEntry ==
    ASSUME NEW b \in Blocks, NEW o \in 0 .. BlockSize, NEW s \in 1 .. BlockSize,
           NEW t \in {"live", "dead", "torn"}
    PROVE  Space(b, o, s, t) \in Entry
BY ConstantsAssumption DEF Space, Entry

LEMMA NodeIsEntry ==
    ASSUME NEW b \in Blocks, NEW o \in 0 .. BlockSize, NEW s \in 1 .. BlockSize,
           NEW k \in Keys, NEW v \in Vals, NEW r \in 0 .. MaxVer
    PROVE  Node(b, o, s, k, v, r) \in Entry /\ IsNode(Node(b, o, s, k, v, r))
BY DEF Node, Entry, IsNode

LEMMA ApartShrinks ==
    ASSUME NEW S, NEW T, Apart(S), \A e \in T : e.st = "live" => e \in S
    PROVE  Apart(T)
BY DEF Apart

LEMMA LiveFinite ==
    ASSUME FlashTypes, NEW b
    PROVE  /\ IsFiniteSet(Live(b)) /\ Cardinality(Live(b)) \in Nat
           /\ \A x \in Live(b) : x.size \in Int
           /\ TotalSize(Live(b)) \in Int
<1>1. Live(b) \in SUBSET flash /\ IsFiniteSet(flash)
  BY DEF Live, In, FlashTypes, FlashSound
<1>2. IsFiniteSet(Live(b))
  BY <1>1, FS_Subset
<1>3. \A x \in Live(b) : x.size \in Int
  BY <1>1, EntryFields DEF FlashTypes
<1>4. QED
  BY <1>2, <1>3, TotalTake, FS_CardinalityType

(* One node less, one node more. *)
LEMMA TallyLess ==
    ASSUME FlashTypes, NEW b, Tallied(b), NEW e \in Live(b)
    PROVE  /\ cnt[b] - 1 = Cardinality(Live(b) \ {e})
           /\ kvsz[b] - e.size = TotalSize(Live(b) \ {e})
<1>1. IsFiniteSet(Live(b)) /\ \A x \in Live(b) : x.size \in Int
  BY LiveFinite
<1>2. Cardinality(Live(b) \ {e}) = Cardinality(Live(b)) - 1
  BY <1>1, FS_RemoveElement
<1>3. TotalSize(Live(b) \ {e}) = TotalSize(Live(b)) - e.size
  BY <1>1, TotalTake
<1>4. QED
  BY <1>2, <1>3 DEF Tallied

LEMMA TallyMore ==
    ASSUME FlashTypes, NEW b, Tallied(b), NEW n, n \notin Live(b), n.size \in Int
    PROVE  /\ cnt[b] + 1 = Cardinality(Live(b) \cup {n})
           /\ kvsz[b] + n.size = TotalSize(Live(b) \cup {n})
<1> DEFINE L == Live(b) \cup {n}
<1>1. IsFiniteSet(Live(b)) /\ \A x \in Live(b) : x.size \in Int
  BY LiveFinite
<1>2. IsFiniteSet(L) /\ Cardinality(L) = Cardinality(Live(b)) + 1
  BY <1>1, FS_AddElement
<1>3. \A x \in L : x.size \in Int
  BY <1>1
<1>4. L \ {n} = Live(b) /\ n \in L
  OBVIOUS
<1> HIDE DEF L
<1>5. TotalSize(L \ {n}) = TotalSize(L) - n.size /\ TotalSize(L) \in Int
  BY <1>2, <1>3, <1>4, TotalTake
<1>6. TotalSize(Live(b)) + n.size = TotalSize(L)
  <2>1. TotalSize(Live(b)) = TotalSize(L) - n.size
    BY <1>4, <1>5
  <2>2. QED
    BY <2>1, <1>5
<1>7. QED
  BY <1>2, <1>6 DEF Tallied, L

(* Programming over torn remains disturbs nothing but torn remains. *)
LEMMA CoverSound ==
    ASSUME FlashTypes, RamTypes, NEW b \in Blocks, Behind(b),
           NEW s \in 1 .. BlockSize, CanAlloc(b, s),
           NEW n \in Entry, n.blk = b, n.off = wo[b], n.size = s, n.st = "live" => IsNode(n)
    PROVE  /\ Cover(b, s, n) \subseteq Entry
           /\ IsFiniteSet(Cover(b, s, n))
           /\ \A e \in Cover(b, s, n) : e.off + e.size <= BlockSize
           /\ \A e \in Cover(b, s, n) : e.st = "live" => IsNode(e)
           /\ \A e : e.st # "torn" => (e \in Cover(b, s, n) <=> e \in flash \/ e = n)
           /\ Apart(Cover(b, s, n))
<1> DEFINE R == {g \in Remains(b, s) : g.off + g.size > wo[b] + s}
<1> DEFINE Frag(f) == Space(b, wo[b] + s, f.off + f.size - wo[b] - s, "torn")
<1> DEFINE F == {Frag(f) : f \in R}
<1>w. wo[b] \in 0 .. BlockSize /\ wo[b] + s <= BlockSize - 1 /\ BlockSize \in Nat
  BY ConstantsAssumption DEF RamTypes, CanAlloc
<1>1. Cover(b, s, n) = (flash \ Remains(b, s)) \cup {n} \cup F
  BY DEF Cover
<1>2. ASSUME NEW e \in Remains(b, s) PROVE e \in flash /\ e.st = "torn"
  <2>1. e \in flash /\ e.blk = b /\ wo[b] < e.off + e.size
    BY DEF Remains, In
  <2>2. e \in Entry
    BY <2>1 DEF FlashTypes
  <2>3. e.off \in Int /\ e.size \in Int
    BY <2>2, EntryFields
  <2>4. QED
    BY <2>1, <2>3, <1>w DEF Behind
<1>3. ASSUME NEW f \in R
      PROVE  Frag(f) \in Entry /\ Frag(f).off + Frag(f).size <= BlockSize /\ Frag(f).st = "torn"
  <2>1. f \in flash /\ f \in Entry /\ f.off + f.size > wo[b] + s
    BY <1>2 DEF FlashTypes
  <2>2. f.off \in Int /\ f.size \in Int /\ f.off + f.size <= BlockSize
    BY <2>1, EntryFields DEF FlashTypes, FlashSound
  <2> DEFINE z == f.off + f.size - wo[b] - s
  <2>3. z \in 1 .. BlockSize /\ wo[b] + s \in 0 .. BlockSize /\ wo[b] + s + z <= BlockSize
    BY <2>1, <2>2, <1>w
  <2> HIDE DEF z
  <2>4. Space(b, wo[b] + s, z, "torn") \in Entry
    BY <2>3, SpaceIsEntry
  <2>5. QED
    BY <2>3, <2>4 DEF z, Space
<1>4. IsFiniteSet(F)
  <2>1. R \in SUBSET flash
    BY <1>2
  <2>2. IsFiniteSet(R)
    BY <2>1, FS_Subset DEF FlashTypes, FlashSound
  <2> DEFINE h == [f \in R |-> Frag(f)]
  <2>3. {h[f] : f \in R} = F /\ h = [f \in R |-> h[f]]
    OBVIOUS
  <2> HIDE DEF h
  <2>4. QED
    BY <2>2, <2>3, ImageFinite
<1>5. IsFiniteSet(flash \ Remains(b, s))
  BY FS_Difference DEF FlashTypes, FlashSound
<1>6. IsFiniteSet((flash \ Remains(b, s)) \cup {n})
  BY <1>5, FS_AddElement
<1> HIDE DEF F, R, Frag
<1>7. IsFiniteSet(Cover(b, s, n))
  <2> DEFINE A == (flash \ Remains(b, s)) \cup {n}
  <2>1. IsFiniteSet(A) /\ Cover(b, s, n) = A \cup F
    BY <1>1, <1>6
  <2> HIDE DEF A
  <2>2. IsFiniteSet(A \cup F)
    BY <2>1, <1>4, FS_Union
  <2>3. QED
    BY <2>1, <2>2
<1>8. \A e \in F : e \in Entry /\ e.off + e.size <= BlockSize /\ e.st = "torn"
  BY <1>3 DEF F
<1>9. Cover(b, s, n) \subseteq Entry
  BY <1>1, <1>8 DEF FlashTypes
<1>10. ASSUME NEW e \in Cover(b, s, n) PROVE e.off + e.size <= BlockSize
  <2>1. CASE e \in flash
    BY <2>1 DEF FlashTypes, FlashSound
  <2>2. CASE e = n
    BY <2>2, <1>w
  <2>3. CASE e \in F
    BY <2>3, <1>8
  <2>4. QED
    BY <1>1, <2>1, <2>2, <2>3
<1>11. ASSUME NEW e \in Cover(b, s, n), e.st = "live" PROVE IsNode(e)
  BY <1>1, <1>8, <1>11 DEF FlashTypes, FlashSound
<1>12. ASSUME NEW e, e.st # "torn" PROVE e \in Cover(b, s, n) <=> e \in flash \/ e = n
  BY <1>1, <1>2, <1>8, <1>12
<1>13. Apart(Cover(b, s, n))
  <2>1. ASSUME NEW e \in flash, e.st # "torn", e.blk = b PROVE e.off # n.off
    <3>1. e.off + e.size <= wo[b]
      BY <2>1 DEF Behind
    <3>2. e.off \in Int /\ e.size \in 1 .. BlockSize
      BY EntryFields DEF FlashTypes
    <3>3. QED
      BY <3>1, <3>2, <1>w
  <2>2. Apart(flash)
    BY DEF FlashTypes, FlashSound
  <2>3. \A e \in Cover(b, s, n) : e.st = "live" => e \in flash \/ e = n
    BY <1>12
  <2>4. QED
    BY <2>1, <2>2, <2>3 DEF Apart
<1>14. QED
  BY <1>7, <1>9, <1>10, <1>11, <1>12, <1>13

(* What stays of flash is live as before, apart from what was added. *)
LEMMA ProgrammedSound ==
    ASSUME AllSound, NEW b \in Blocks, NEW s \in 1 .. BlockSize, CanAlloc(b, s),
           NEW k \in Keys, NEW v \in Vals, NEW r \in 0 .. MaxVer,
           Programmed(b, s, k, v, r)
    PROVE  /\ AllSound'
           /\ Node(b, wo[b], s, k, v, r) \notin flash
           /\ \A e : e.st # "torn" => (e \in flash' <=> e \in flash \/ e = Node(b, wo[b], s, k, v, r))
<1> DEFINE n == Node(b, wo[b], s, k, v, r)
<1>w. wo[b] \in 0 .. BlockSize /\ wo[b] + s <= BlockSize - 1 /\ BlockSize \in Nat
  BY ConstantsAssumption DEF AllSound, RamTypes, CanAlloc
<1>s. FlashTypes /\ RamTypes /\ Tallied(b) /\ Behind(b)
  BY DEF AllSound
<1>n. /\ n.blk = b /\ n.off = wo[b] /\ n.size = s /\ n.st = "live"
      /\ n \in Entry /\ IsNode(n)
  BY <1>w, NodeIsEntry DEF Node
<1>p. /\ flash' = Cover(b, s, n)
      /\ wo' = [wo EXCEPT ![b] = @ + s] /\ kvsz' = [kvsz EXCEPT ![b] = @ + s]
      /\ cnt' = [cnt EXCEPT ![b] = @ + 1] /\ roc' = roc
  BY DEF Programmed
<1> HIDE DEF n
<1>c. /\ flash' \subseteq Entry
      /\ IsFiniteSet(flash')
      /\ \A e \in flash' : e.off + e.size <= BlockSize
      /\ \A e \in flash' : e.st = "live" => IsNode(e)
      /\ \A e : e.st # "torn" => (e \in flash' <=> e \in flash \/ e = n)
      /\ Apart(flash')
  BY <1>s, <1>n, <1>p, CoverSound
<1>f. n \notin flash
  <2>1. SUFFICES ASSUME n \in flash PROVE FALSE
    OBVIOUS
  <2>2. wo[b] + s <= wo[b]
    BY <2>1, <1>n, <1>s DEF Behind
  <2>3. QED
    BY <2>2, <1>w
<1>1. FlashTypes'
  BY <1>c DEF FlashTypes, FlashSound, IsNode
<1>2. RamTypes'
  <2>1. wo' \in [Blocks -> 0 .. BlockSize]
    BY <1>s, <1>p, <1>w DEF RamTypes
  <2>2. kvsz' \in [Blocks -> Int] /\ cnt' \in [Blocks -> Int] /\ roc' \in [Blocks -> Nat]
    BY <1>s, <1>p DEF RamTypes
  <2>3. QED
    BY <2>1, <2>2 DEF RamTypes
<1>3. ASSUME NEW c \in Blocks, c # b PROVE Live(c)' = Live(c)
  BY <1>c, <1>n, <1>3 DEF Live, In
<1>4. Live(b)' = Live(b) \cup {n}
  BY <1>c, <1>n DEF Live, In
<1>5. Tallied(b)'
  <2>1. n \notin Live(b) /\ n.size \in Int
    BY <1>f, <1>n DEF Live, In
  <2>2. cnt[b] + 1 = Cardinality(Live(b) \cup {n}) /\ kvsz[b] + n.size = TotalSize(Live(b) \cup {n})
    BY <2>1, <1>s, TallyMore
  <2>3. cnt'[b] = cnt[b] + 1 /\ kvsz'[b] = kvsz[b] + n.size
    BY <1>p, <1>s, <1>n DEF RamTypes
  <2>4. QED
    BY <2>2, <2>3, <1>4 DEF Tallied
<1>6. ASSUME NEW c \in Blocks, c # b PROVE Tallied(c)'
  <2>1. cnt'[c] = cnt[c] /\ kvsz'[c] = kvsz[c]
    BY <1>6, <1>p, <1>s DEF RamTypes
  <2>2. QED
    BY <2>1, <1>3, <1>6 DEF Tallied, AllSound
<1>7. ASSUME NEW c \in Blocks PROVE Behind(c)'
  <2>1. SUFFICES ASSUME NEW e \in flash', e.blk = c, e.st # "torn"
                 PROVE  e.off + e.size <= wo'[c]
    BY DEF Behind
  <2>2. e \in flash \/ e = n
    BY <2>1, <1>c
  <2>3. CASE e = n
    <3>1. wo'[b] = wo[b] + s
      BY <1>p, <1>s DEF RamTypes
    <3>2. c = b /\ e.off + e.size = wo[b] + s
      BY <2>1, <2>3, <1>n
    <3>3. wo[b] + s <= wo[b] + s
      BY <1>w
    <3>4. QED
      BY <3>1, <3>2, <3>3
  <2>4. CASE e \in flash
    <3>1. e.off + e.size <= wo[c]
      BY <2>1, <2>4 DEF AllSound, Behind
    <3>2. wo'[c] >= wo[c] /\ wo'[c] \in Int /\ wo[c] \in Int
      BY <1>p, <1>s, <1>w DEF RamTypes
    <3>3. e.off \in Int /\ e.size \in Int
      BY <2>4, <1>s, EntryFields DEF FlashTypes
    <3>4. QED
      BY <3>1, <3>2, <3>3
  <2>5. QED
    BY <2>2, <2>3, <2>4
<1>8. AllSound'
  BY <1>1, <1>2, <1>5, <1>6, <1>7 DEF AllSound
<1>9. QED
  BY <1>8, <1>c, <1>f DEF n

LEMMA FailedSound ==
    ASSUME AllSound, NEW b \in Blocks, NEW s \in 1 .. BlockSize, CanAlloc(b, s),
           VerifyFailed(b, s)
    PROVE  /\ AllSound'
           /\ \A e : e.st = "live" => (e \in flash' <=> e \in flash)
           /\ \A e \in flash : e.st # "torn" => e \in flash'
<1>w. wo[b] \in 0 .. BlockSize /\ wo[b] + s <= BlockSize - 1 /\ BlockSize \in Nat
  BY ConstantsAssumption DEF AllSound, RamTypes, CanAlloc
<1>s. FlashTypes /\ RamTypes /\ Behind(b)
  BY DEF AllSound
<1>p. PICK t \in {"dead", "torn"} : flash' = Cover(b, s, Space(b, wo[b], s, t))
  BY DEF VerifyFailed
<1> DEFINE n == Space(b, wo[b], s, t)
<1>q. wo' = [wo EXCEPT ![b] = @ + s] /\ kvsz' = kvsz /\ cnt' = cnt /\ roc' = roc
  BY DEF VerifyFailed
<1>n. n.blk = b /\ n.off = wo[b] /\ n.size = s /\ n.st = t /\ n.st # "live" /\ n \in Entry
  BY <1>w, SpaceIsEntry DEF Space
<1> HIDE DEF n
<1>c. /\ flash' \subseteq Entry
      /\ IsFiniteSet(flash')
      /\ \A e \in flash' : e.off + e.size <= BlockSize
      /\ \A e \in flash' : e.st = "live" => IsNode(e)
      /\ \A e : e.st # "torn" => (e \in flash' <=> e \in flash \/ e = n)
      /\ Apart(flash')
  <2>1. flash' = Cover(b, s, n)
    BY <1>p DEF n
  <2>2. QED
    BY <1>s, <1>n, <2>1, CoverSound
<1>l. \A e : e.st = "live" => (e \in flash' <=> e \in flash)
  BY <1>c, <1>n
<1>1. FlashTypes'
  BY <1>c DEF FlashTypes, FlashSound, IsNode
<1>2. RamTypes'
  BY <1>s, <1>q, <1>w DEF RamTypes
<1>3. ASSUME NEW c \in Blocks PROVE Tallied(c)'
  <2>1. Live(c)' = Live(c)
    BY <1>l DEF Live, In
  <2>2. QED
    BY <2>1, <1>q DEF Tallied, AllSound
<1>4. ASSUME NEW c \in Blocks PROVE Behind(c)'
  <2>1. SUFFICES ASSUME NEW e \in flash', e.blk = c, e.st # "torn"
                 PROVE  e.off + e.size <= wo'[c]
    BY DEF Behind
  <2>2. e \in flash \/ e = n
    BY <2>1, <1>c
  <2>3. CASE e = n
    <3>1. wo'[b] = wo[b] + s
      BY <1>q, <1>s DEF RamTypes
    <3>2. c = b /\ e.off + e.size = wo[b] + s
      BY <2>1, <2>3, <1>n
    <3>3. wo[b] + s <= wo[b] + s
      BY <1>w
    <3>4. QED
      BY <3>1, <3>2, <3>3
  <2>4. CASE e \in flash
    <3>1. e.off + e.size <= wo[c]
      BY <2>1, <2>4 DEF AllSound, Behind
    <3>2. wo'[c] >= wo[c] /\ wo'[c] \in Int /\ wo[c] \in Int
      BY <1>q, <1>s, <1>w DEF RamTypes
    <3>3. e.off \in Int /\ e.size \in Int
      BY <2>4, <1>s, EntryFields DEF FlashTypes
    <3>4. QED
      BY <3>1, <3>2, <3>3
  <2>5. QED
    BY <2>2, <2>3, <2>4
<1>5. AllSound'
  BY <1>1, <1>2, <1>3, <1>4 DEF AllSound
<1>6. QED
  BY <1>5, <1>l, <1>c

(* Clearing one erase word. *)
LEMMA MarkSound ==
    ASSUME AllSound, NEW e \in flash, IsNode(e),
           flash' = (flash \ {e}) \cup {Space(e.blk, e.off, e.size, "dead")},
           kvsz' = [kvsz EXCEPT ![e.blk] = @ - e.size],
           cnt' = [cnt EXCEPT ![e.blk] = @ - 1],
           wo' = wo, roc' = roc
    PROVE  AllSound' /\ \A f : f.st = "live" => (f \in flash' <=> f \in flash /\ f # e)
<1> DEFINE d == Space(e.blk, e.off, e.size, "dead")
<1> DEFINE b == e.blk
<1>e. /\ e \in Entry /\ b \in Blocks /\ e.off \in 0 .. BlockSize /\ e.size \in 1 .. BlockSize
      /\ e.st = "live" /\ e.off + e.size <= BlockSize
  BY EntryFields DEF AllSound, FlashTypes, FlashSound, IsNode
<1>d. d \in Entry /\ d.st = "dead" /\ d.blk = b /\ d.off = e.off /\ d.size = e.size
  BY <1>e, SpaceIsEntry DEF Space
<1>s. FlashTypes /\ RamTypes /\ Tallied(b) /\ Behind(b)
  BY <1>e DEF AllSound
<1>p. flash' = (flash \ {e}) \cup {d}
  OBVIOUS
<1> HIDE DEF d
<1>l. \A f : f.st = "live" => (f \in flash' <=> f \in flash /\ f # e)
  BY <1>p, <1>d
<1>1. FlashTypes'
  <2>1. IsFiniteSet(flash \ {e})
    BY <1>s, FS_RemoveElement DEF FlashTypes, FlashSound
  <2>2. IsFiniteSet(flash')
    BY <2>1, <1>p, FS_AddElement
  <2>3. flash' \subseteq Entry /\ \A f \in flash' : f.off + f.size <= BlockSize
    BY <1>s, <1>p, <1>d, <1>e DEF FlashTypes, FlashSound
  <2>4. \A f \in flash' : f.st = "live" => IsNode(f)
    BY <1>l, <1>s DEF FlashTypes, FlashSound
  <2>5. Apart(flash')
    BY <1>l, <1>s, ApartShrinks DEF FlashTypes, FlashSound
  <2>6. QED
    BY <2>2, <2>3, <2>4, <2>5 DEF FlashTypes, FlashSound, IsNode
<1>2. RamTypes'
  <2>1. kvsz' \in [Blocks -> Int]
    BY <1>s, <1>e DEF RamTypes
  <2>2. cnt' \in [Blocks -> Int]
    BY <1>s, <1>e DEF RamTypes
  <2>3. QED
    BY <2>1, <2>2, <1>s DEF RamTypes
<1>3. Tallied(b)'
  <2>1. e \in Live(b) /\ Live(b)' = Live(b) \ {e}
    BY <1>l, <1>e DEF Live, In
  <2>2. cnt[b] - 1 = Cardinality(Live(b) \ {e}) /\ kvsz[b] - e.size = TotalSize(Live(b) \ {e})
    BY <2>1, <1>s, TallyLess
  <2>3. cnt'[b] = cnt[b] - 1 /\ kvsz'[b] = kvsz[b] - e.size
    BY <1>s, <1>e DEF RamTypes
  <2>4. QED
    BY <2>1, <2>2, <2>3 DEF Tallied
<1>4. ASSUME NEW c \in Blocks, c # b PROVE Tallied(c)'
  <2>1. Live(c)' = Live(c)
    BY <1>l, <1>4, <1>p, <1>d DEF Live, In
  <2>2. cnt'[c] = cnt[c] /\ kvsz'[c] = kvsz[c]
    BY <1>4, <1>s DEF RamTypes
  <2>3. QED
    BY <2>1, <2>2 DEF Tallied, AllSound
<1>5. ASSUME NEW c \in Blocks PROVE Behind(c)'
  <2>1. SUFFICES ASSUME NEW f \in flash', f.blk = c, f.st # "torn"
                 PROVE  f.off + f.size <= wo[c]
    BY DEF Behind
  <2>2. CASE f = d
    BY <2>1, <2>2, <1>d, <1>e, <1>s DEF Behind
  <2>3. CASE f \in flash
    BY <2>1, <2>3 DEF AllSound, Behind
  <2>4. QED
    BY <2>2, <2>3, <1>p
<1>6. AllSound'
  BY <1>1, <1>2, <1>3, <1>4, <1>5 DEF AllSound
<1>7. QED
  BY <1>6, <1>l

(* Erasing a block. *)
LEMMA EraseSound ==
    ASSUME AllSound, NEW b \in Blocks, EraseBlock(b)
    PROVE  AllSound' /\ flash' = {f \in flash : f.blk # b}
<1>p. flash' = {f \in flash : f.blk # b}
  BY DEF EraseBlock, Erased, In
<1>q. /\ wo' = [wo EXCEPT ![b] = 0] /\ kvsz' = [kvsz EXCEPT ![b] = 0]
      /\ cnt' = [cnt EXCEPT ![b] = 0] /\ roc' = roc
  BY DEF EraseBlock
<1>s. FlashTypes /\ RamTypes
  BY DEF AllSound
<1>1. FlashTypes'
  <2>1. IsFiniteSet(flash')
    BY <1>p, <1>s, FS_Subset DEF FlashTypes, FlashSound
  <2>2. Apart(flash')
    BY <1>p, <1>s, ApartShrinks DEF FlashTypes, FlashSound
  <2>3. QED
    BY <2>1, <2>2, <1>p, <1>s DEF FlashTypes, FlashSound, IsNode
<1>2. RamTypes'
  <2>1. wo' \in [Blocks -> 0 .. BlockSize]
    BY <1>q, <1>s, ConstantsAssumption DEF RamTypes
  <2>2. kvsz' \in [Blocks -> Int] /\ cnt' \in [Blocks -> Int] /\ roc' \in [Blocks -> Nat]
    BY <1>q, <1>s DEF RamTypes
  <2>3. QED
    BY <2>1, <2>2 DEF RamTypes
<1>3. Tallied(b)'
  <2>1. Live(b)' = {}
    BY <1>p DEF Live, In
  <2>2. cnt'[b] = 0 /\ kvsz'[b] = 0
    BY <1>q, <1>s DEF RamTypes
  <2>3. Cardinality({}) = 0 /\ TotalSize({}) = 0
    <3>1. \E f : Sums(f, SUBSET {})
      BY FS_EmptySet, SumsExist
    <3> DEFINE f == CHOOSE g : Sums(g, SUBSET {})
    <3>2. Sums(f, SUBSET {})
      BY <3>1
    <3>3. TotalSize({}) = f[{}]
      BY TotalIsSums
    <3> HIDE DEF f
    <3>4. f[{}] = 0
      BY <3>2 DEF Sums
    <3>5. QED
      BY <3>3, <3>4, FS_EmptySet
  <2>4. QED
    BY <2>1, <2>2, <2>3 DEF Tallied
<1>4. ASSUME NEW c \in Blocks, c # b PROVE Tallied(c)'
  <2>1. Live(c)' = Live(c)
    BY <1>p, <1>4 DEF Live, In
  <2>2. cnt'[c] = cnt[c] /\ kvsz'[c] = kvsz[c]
    BY <1>4, <1>q, <1>s DEF RamTypes
  <2>3. QED
    BY <2>1, <2>2 DEF Tallied, AllSound
<1>5. ASSUME NEW c \in Blocks PROVE Behind(c)'
  <2>1. SUFFICES ASSUME NEW f \in flash', f.blk = c, f.st # "torn"
                 PROVE  f.off + f.size <= wo'[c]
    BY DEF Behind
  <2>2. c # b /\ f \in flash
    BY <2>1, <1>p
  <2>3. wo'[c] = wo[c]
    BY <2>2, <1>q, <1>s DEF RamTypes
  <2>4. QED
    BY <2>1, <2>2, <2>3 DEF AllSound, Behind
<1>6. QED
  BY <1>1, <1>2, <1>3, <1>4, <1>5, <1>p DEF AllSound

(* kvnode_rm, also of a node that went with its block before. *)
LEMMA RmSound ==
    ASSUME AllSound, NEW e \in Entry, IsNode(e), e \in flash \/ Live(e.blk) = {},
           kvnode_rm(e)
    PROVE  /\ AllSound'
           /\ \A f \in flash' : f.st = "live" => f \in flash
           /\ e.rw => e \notin flash'
           /\ \A f \in flash : f.st = "live" /\ (f.blk # e.blk \/ ~e.rw) => f \in flash'
           /\ roc' = roc
           /\ \A f \in flash : f.st = "live" /\ f # e /\ f \notin flash' => e.rw /\ LastNode(e) /\ Live(e.blk)' = {}
<1>e. e.blk \in Blocks /\ e.st = "live" /\ e.rw \in BOOLEAN
  BY EntryFields DEF IsNode
<1>1. CASE ~e.rw /\ UNCHANGED <<flash, wo, kvsz, cnt, roc>>
  <2>1. AllSound'
    BY <1>1 DEF AllSound, FlashTypes, FlashSound, IsNode, RamTypes, Tallied, Behind, Live, In
  <2>2. QED
    BY <1>1, <2>1
<1>2. CASE /\ e.rw /\ ~LastNode(e)
           /\ flash' = (flash \ {e}) \cup {Space(e.blk, e.off, e.size, "dead")}
           /\ kvsz'  = [kvsz EXCEPT ![e.blk] = @ - e.size]
           /\ cnt'   = [cnt EXCEPT ![e.blk] = @ - 1]
           /\ UNCHANGED <<wo, roc>>
  <2>1. e \in flash
    <3>1. SUFFICES ASSUME Live(e.blk) = {} PROVE FALSE
      OBVIOUS
    <3>2. cnt[e.blk] = 0
      BY <3>1, <1>e, FS_EmptySet DEF AllSound, Tallied
    <3>3. roc[e.blk] \in Nat
      BY <1>e DEF AllSound, RamTypes
    <3>4. QED
      BY <3>2, <3>3, <1>2 DEF LastNode
  <2>2. AllSound' /\ \A f : f.st = "live" => (f \in flash' <=> f \in flash /\ f # e)
    BY <1>2, <2>1, MarkSound
  <2>3. QED
    BY <1>2, <2>2, <1>e
<1>3. CASE e.rw /\ LastNode(e) /\ EraseBlock(e.blk)
  <2>1. AllSound' /\ flash' = {f \in flash : f.blk # e.blk}
    BY <1>3, <1>e, EraseSound
  <2>2. Live(e.blk)' = {}
    BY <2>1 DEF Live, In
  <2>3. roc' = roc
    BY <1>3 DEF EraseBlock
  <2>4. QED
    BY <1>3, <2>1, <2>2, <2>3
<1>4. QED
  BY <1>1, <1>2, <1>3 DEF kvnode_rm

-----------------------------------------------------------------------------
(* kvblock_calc finds a write offset behind every node. *)
LEMMA ScanSound ==
    ASSUME FlashTypes, NEW b \in Blocks
    PROVE  /\ EndOfNodes(b) \in 0 .. BlockSize
           /\ EndOfNodes(b) \in {0} \cup {e.off + e.size : e \in {f \in In(b) : f.st # "torn"}}
           /\ \A e \in flash : e.blk = b /\ e.st # "torn" => e.off + e.size <= EndOfNodes(b)
           /\ WriteOffset(b) \in 0 .. BlockSize /\ EndOfNodes(b) <= WriteOffset(b)
<1> DEFINE S == {0} \cup {e.off + e.size : e \in {f \in In(b) : f.st # "torn"}}
<1>n. BlockSize \in Nat
  BY ConstantsAssumption
<1>f. \A e \in flash : e.off \in Nat /\ e.size \in Nat /\ e.off + e.size <= BlockSize
  BY <1>n, EntryFields DEF FlashTypes, FlashSound
<1>1. S \in SUBSET Nat /\ S # {} /\ \A x \in S : x <= BlockSize
  <2>1. ASSUME NEW x \in S PROVE x \in Nat /\ x <= BlockSize
    <3>1. CASE x = 0
      BY <3>1, <1>n
    <3>2. CASE \E e \in flash : x = e.off + e.size
      BY <3>2, <1>f
    <3>3. QED
      BY <3>1, <3>2 DEF In
  <2>2. QED
    BY <2>1
<1>2. EndOfNodes(b) = Max(S)
  BY DEF EndOfNodes
<1>3. \A e \in flash : e.blk = b /\ e.st # "torn" => e.off + e.size \in S
  BY DEF In
<1> HIDE DEF S
<1>4. EndOfNodes(b) \in S /\ \A x \in S : x <= EndOfNodes(b)
  BY <1>1, <1>2, <1>n, MaxOf
<1>5. EndOfNodes(b) \in Nat /\ EndOfNodes(b) <= BlockSize
  BY <1>4, <1>1
<1> DEFINE R == {EndOfNodes(b)} \cup {u + 1 : u \in TornWords(b)}
<1>6. ASSUME NEW u \in TornWords(b) PROVE u + 1 \in Nat /\ u + 1 <= BlockSize
  <2>1. PICK e \in flash : u \in Int /\ u >= EndOfNodes(b) /\ u < e.off + e.size
    BY <1>5, ConstantsAssumption DEF TornWords, In
  <2>2. QED
    BY <2>1, <1>f, <1>n, <1>5
<1>7. R \in SUBSET Nat /\ R # {} /\ (\A x \in R : x <= BlockSize) /\ EndOfNodes(b) \in R
  BY <1>5, <1>6
<1>8. WriteOffset(b) = Max(R)
  BY DEF WriteOffset
<1> HIDE DEF R
<1>9. WriteOffset(b) \in R /\ \A x \in R : x <= WriteOffset(b)
  BY <1>7, <1>8, <1>n, MaxOf
<1>10. WriteOffset(b) \in Nat /\ WriteOffset(b) <= BlockSize /\ EndOfNodes(b) <= WriteOffset(b)
  BY <1>9, <1>7
<1>11. \A e \in flash : e.blk = b /\ e.st # "torn" => e.off + e.size <= EndOfNodes(b)
  BY <1>3, <1>4
<1>12. EndOfNodes(b) \in 0 .. BlockSize /\ WriteOffset(b) \in 0 .. BlockSize
  BY <1>5, <1>10, <1>n
<1>13. EndOfNodes(b) \in {0} \cup {e.off + e.size : e \in {f \in In(b) : f.st # "torn"}}
  BY <1>4 DEF S
<1>14. QED
  BY <1>10, <1>11, <1>12, <1>13

LEMMA EndBelow ==
    ASSUME AllSound, NEW b \in Blocks
    PROVE  EndOfNodes(b) <= wo[b]
<1>1. EndOfNodes(b) \in {0} \cup {e.off + e.size : e \in {f \in In(b) : f.st # "torn"}}
  BY ScanSound DEF AllSound
<1>2. wo[b] \in Nat
  BY ConstantsAssumption DEF AllSound, RamTypes
<1>3. \A e \in {f \in In(b) : f.st # "torn"} : e.off + e.size <= wo[b]
  BY DEF AllSound, Behind, In
<1>4. QED
  BY <1>1, <1>2, <1>3

-----------------------------------------------------------------------------
(* Lookups.                                                                *)

(* kvblock_find does not stop before it has seen a live node. *)
LEMMA SeenAll ==
    ASSUME AllSound, NEW e \in flash, e.st = "live"
    PROVE  Seen(e)
<1> DEFINE L == Live(e.blk)
<1> DEFINE P == {f \in L : f.off < e.off}
<1>1. e.blk \in Blocks /\ e.off \in Int
  BY EntryFields DEF AllSound, FlashTypes
<1>2. IsFiniteSet(L) /\ Cardinality(L) \in Nat /\ cnt[e.blk] = Cardinality(L)
  BY <1>1, LiveFinite DEF AllSound, Tallied
<1>3. e \in L /\ P \in SUBSET L
  BY DEF Live, In
<1>4. e \notin P
  BY <1>1
<1>5. P # L
  BY <1>3, <1>4
<1>6. Seen(e) <=> (Cardinality(P) = 0 \/ Cardinality(P) < cnt[e.blk])
  BY DEF Seen
<1> HIDE DEF P, L
<1>7. IsFiniteSet(P) /\ Cardinality(P) <= Cardinality(L) /\ Cardinality(L) # Cardinality(P)
  BY <1>2, <1>3, <1>5, FS_Subset
<1>8. Cardinality(P) \in Nat
  BY <1>7, FS_CardinalityType
<1>9. Cardinality(P) < cnt[e.blk]
  BY <1>2, <1>7, <1>8
<1>10. QED
  BY <1>6, <1>9

LEMMA LookupSound ==
    ASSUME AllSound, NEW k \in Keys
    PROVE  /\ Hits(k, TRUE) = Copies(k)
           /\ Missing(k) => Copies(k) = {}
           /\ \A e \in flash : Found(e, k) => /\ IsNode(e) /\ e.key = k
                                              /\ Copies(k) # {} => e \in Copies(k)
<1>1. \A e \in flash : e.st = "live" => Seen(e)
  BY SeenAll
<1>2. Hits(k, TRUE) = Copies(k)
  BY <1>1, EntryFields DEF Hits, Copies, AllSound, FlashTypes
<1>3. ASSUME NEW e \in flash, Found(e, k)
      PROVE  IsNode(e) /\ e.key = k /\ (Copies(k) # {} => e \in Copies(k))
  <2>1. e \in Hits(k, TRUE) \/ (Hits(k, TRUE) = {} /\ e \in Hits(k, FALSE))
    BY <1>3 DEF Found, IsFirst, IsLast
  <2>2. e.st = "live" /\ e.key = k
    BY <2>1 DEF Hits
  <2>3. QED
    BY <2>1, <2>2, <1>2 DEF AllSound, FlashTypes, FlashSound
<1>4. QED
  BY <1>2, <1>3 DEF Missing

LEMMA OnlyFound ==
    ASSUME AllSound, NEW k \in Keys, \A e, f \in Copies(k) : e = f
    PROVE  \A e \in Copies(k) : Found(e, k)
<1>1. Hits(k, TRUE) = Copies(k)
  BY LookupSound
<1>2. QED
  BY <1>1 DEF Found, IsFirst

-----------------------------------------------------------------------------
(* Copies of a key.                                                        *)

LEMMA TwoOfThree ==
    ASSUME NEW e, NEW f, NEW g
    PROVE  Cardinality({e, f, g}) <= 2 <=> (e = f \/ f = g \/ e = g)
<1>1. IsFiniteSet({e}) /\ Cardinality({e}) = 1
  BY FS_Singleton
<1>2. /\ IsFiniteSet({e} \cup {f})
      /\ Cardinality({e} \cup {f}) = IF f \in {e} THEN 1 ELSE 2
  BY <1>1, FS_AddElement
<1> DEFINE P == {e} \cup {f}
<1>3. {e, f, g} = P \cup {g}
  OBVIOUS
<1>4. Cardinality(P \cup {g}) = IF g \in P THEN Cardinality(P) ELSE Cardinality(P) + 1
  <2> HIDE DEF P
  <2>1. IsFiniteSet(P)
    BY <1>2 DEF P
  <2>2. QED
    BY <2>1, FS_AddElement
<1>5. CASE f = e
  BY <1>2, <1>3, <1>4, <1>5
<1>6. CASE f # e
  BY <1>2, <1>3, <1>4, <1>6
<1>7. QED
  BY <1>5, <1>6

LEMMA NextVerOther ==
    ASSUME NEW r \in 0 .. MaxVer
    PROVE  NextVer(r) \in 0 .. MaxVer /\ NextVer(r) # r
BY ConstantsAssumption DEF NextVer

(* Removing nodes keeps copies ordered. *)
LEMMA OrderedShrinks ==
    ASSUME CopiesOrdered, \A f \in flash' : f.st = "live" => f \in flash
    PROVE  CopiesOrdered'
<1>1. \A k \in Keys : Copies(k)' \subseteq Copies(k)
  BY DEF Copies
<1>2. ASSUME NEW k \in Keys, NEW e \in Copies(k)', NEW f \in Copies(k)'
      PROVE  /\ e = f \/ e.ver = NextVer(f.ver) \/ f.ver = NextVer(e.ver)
             /\ \A g \in Copies(k)' : Cardinality({e, f, g}) <= 2
  BY <1>1 DEF CopiesOrdered
<1>3. QED
  BY <1>2 DEF CopiesOrdered, NextVer

(* A copy with the next version keeps them ordered, if there was one. *)
LEMMA OrderedGrows ==
    ASSUME CopiesOrdered, NEW n,
           \A f \in flash' : f.st = "live" => f \in flash \/ f = n,
           \A e, f \in Copies(n.key) : e = f,
           \A e \in Copies(n.key) : n.ver = NextVer(e.ver)
    PROVE  CopiesOrdered'
<1>1. \A k \in Keys : \A e \in Copies(k)' : e \in Copies(k) \/ (e = n /\ k = n.key)
  BY DEF Copies
<1>2. ASSUME NEW k \in Keys, NEW e \in Copies(k)', NEW f \in Copies(k)'
      PROVE  e = f \/ e.ver = NextVer(f.ver) \/ f.ver = NextVer(e.ver)
  BY <1>1 DEF CopiesOrdered
<1>3. ASSUME NEW k \in Keys, NEW e \in Copies(k)', NEW f \in Copies(k)', NEW g \in Copies(k)'
      PROVE  Cardinality({e, f, g}) <= 2
  <2>1. CASE k = n.key
    <3>1. e = f \/ f = g \/ e = g
      BY <2>1, <1>1
    <3>2. QED
      BY <3>1, TwoOfThree
  <2>2. CASE k # n.key
    BY <2>2, <1>1 DEF CopiesOrdered
  <2>3. QED
    BY <2>1, <2>2
<1>4. QED
  BY <1>2, <1>3 DEF CopiesOrdered, NextVer

-----------------------------------------------------------------------------
(* Every step of KVStore preserves StoreInv.                               *)

(* One copy of each key. *)
Lone == \A k \in Keys : \A e, f \in Copies(k) : e = f

(* The same live nodes before and after. *)
SameLive == \A f : f.st = "live" => (f \in flash' <=> f \in flash)

LEMMA DoomedIs ==
    /\ pc = "verify" => Doomed = todo
    /\ pc = "setrm" => Doomed = old
    /\ pc = "gcrm" => Doomed = {e \in todo : IsFirst(e, todo)}
    /\ pc \notin {"verify", "setrm", "gcrm"} => Doomed = {}
BY DEF Doomed

LEMMA LoneNow ==
    ASSUME StoreInv, pc \notin {"init", "verify", "setrm", "gcrm"}
    PROVE  Lone
BY DoomedIs DEF StoreInv, OneLeft, Lone

LEMMA LoneNext ==
    ASSUME Lone'
    PROVE  OneLeft'
BY DEF OneLeft, Lone

LEMMA Running ==
    ASSUME StoreInv, pc # "init" \/ idx = N
    PROVE  AllSound
<1>1. \A b \in Blocks : Scanned(b)
  BY ConstantsAssumption DEF Scanned, Blocks
<1>2. FlashTypes /\ RamTypes
  BY DEF StoreInv, TypeOK, FlashTypes, RamTypes
<1>3. \A b \in Blocks : Tallied(b)
  BY <1>1 DEF StoreInv, CountsSound, Tallied
<1>4. \A b \in Blocks : Behind(b)
  BY <1>1 DEF StoreInv, OffsetsSound, Behind
<1>5. QED
  BY <1>2, <1>3, <1>4 DEF AllSound

LEMMA Assemble ==
    ASSUME TypeOK', AllSound', CallSound', CopiesOrdered', OneLeft', VersionsSound'
    PROVE  StoreInv'
<1>1. FlashSound'
  BY DEF AllSound, FlashTypes
<1>2. CountsSound'
  BY DEF AllSound, CountsSound, Tallied
<1>3. OffsetsSound'
  <2>1. ASSUME NEW e \in flash', e.st # "torn" PROVE e.off + e.size <= wo'[e.blk]
    <3>1. e.blk \in Blocks
      BY EntryFields DEF AllSound, FlashTypes
    <3>2. QED
      BY <3>1, <2>1 DEF AllSound, Behind
  <2>2. QED
    BY <2>1 DEF OffsetsSound
<1>4. QED
  BY <1>1, <1>2, <1>3 DEF StoreInv

LEMMA StillSound ==
    ASSUME AllSound, UNCHANGED <<flash, wo, kvsz, cnt, roc>>
    PROVE  AllSound' /\ SameLive
BY DEF AllSound, FlashTypes, FlashSound, IsNode, RamTypes, Tallied, Behind, Live, In, SameLive

LEMMA SameCopies ==
    ASSUME SameLive, NEW k
    PROVE  Copies(k)' = Copies(k)
BY DEF SameLive, Copies

LEMMA SameOrdered ==
    ASSUME CopiesOrdered, SameLive
    PROVE  CopiesOrdered'
BY OrderedShrinks DEF SameLive

(* What the type invariant says of flash and counters, from AllSound. *)
LEMMA TypesFrom ==
    ASSUME AllSound',
           bid' \in Blocks /\ gcb' \in Blocks \cup {-1},
           pc' \in {"init", "verify", "idle", "set", "setrm", "delrm", "gc", "gccopy", "gcrm", "reset", "wild"},
           idx' \in 0 .. N,
           old' \subseteq Entry /\ todo' \subseteq Entry,
           ver' \in 0 .. MaxVer /\ start' \in Blocks /\ gcd' \in BOOLEAN,
           src' \in Blocks /\ newgc' \in Blocks \cup {-1},
           res' \in {"none", "ok", "fail"}
    PROVE  TypeOK'
BY DEF TypeOK, AllSound, FlashTypes, RamTypes

(* A call returns. *)
LEMMA ReturnSound ==
    ASSUME StoreInv, AllSound', CopiesOrdered', Lone',
           Return("ok") \/ Return("fail"),
           bid' \in Blocks, gcb' \in Blocks \cup {-1}, idx' = idx
    PROVE  StoreInv'
<1>1. /\ pc' = "idle" /\ old' = {} /\ ver' = 0 /\ start' = 0 /\ gcd' = FALSE
      /\ src' = 0 /\ newgc' = -1 /\ todo' = {} /\ res' \in {"none", "ok", "fail"}
  BY DEF Return
<1>2. TypeOK'
  <2>1. 0 \in Blocks /\ 0 \in 0 .. MaxVer
    BY ConstantsAssumption DEF Blocks
  <2>2. idx' \in 0 .. N
    BY DEF StoreInv, TypeOK
  <2>3. QED
    BY <1>1, <2>1, <2>2, TypesFrom
<1>3. CallSound'
  BY <1>1 DEF CallSound, SetCall, GcCall
<1>4. VersionsSound'
  BY <1>1 DEF VersionsSound, SetCall
<1>5. QED
  BY <1>2, <1>3, <1>4, LoneNext, Assemble

(* Label start1 of kv_set. *)
LEMMA StartOneSound ==
    ASSUME StoreInv, pc \in {"idle", "gc"}, NEW k \in Keys, NEW v \in Vals, NEW g \in BOOLEAN,
           StartOne(k, v, g), UNCHANGED <<flash, wo, kvsz, cnt, roc, bid, idx>>,
           gcb' \in Blocks \cup {-1}
    PROVE  StoreInv'
<1>a. AllSound /\ Lone
  BY Running, LoneNow
<1>b. AllSound' /\ SameLive
  BY <1>a, StillSound
<1>c. CopiesOrdered' /\ Lone'
  <2>1. CopiesOrdered'
    BY <1>b, SameOrdered DEF StoreInv
  <2>2. Lone'
    BY <1>a, <1>b, SameCopies DEF Lone
  <2>3. QED
    BY <2>1, <2>2
<1>t. TypeOK
  BY DEF StoreInv
<1>d. bid' \in Blocks /\ idx' \in 0 .. N
  BY <1>t DEF TypeOK
<1>1. ASSUME pc' = "set", start' = bid, gcd' = g,
             op' = [kind |-> "set", key |-> k, val |-> v],
             UNCHANGED <<src, newgc, todo, res>>,
             old' \subseteq flash, \A e, f \in old' : e = f, \A e \in old' : IsNode(e),
             ver' \in 0 .. MaxVer,
             \A e \in Copies(k) : e \in old' /\ ver' = NextVer(e.ver)
      PROVE  StoreInv'
  <2>1. TypeOK'
    <3>1. old' \subseteq Entry
      BY <1>1, <1>t DEF TypeOK
    <3>2. start' \in Blocks /\ gcd' \in BOOLEAN /\ todo' \subseteq Entry
      BY <1>1, <1>t DEF TypeOK
    <3>3. src' \in Blocks /\ newgc' \in Blocks \cup {-1} /\ res' \in {"none", "ok", "fail"}
      BY <1>1, <1>t DEF TypeOK
    <3>4. QED
      BY <1>1, <1>b, <1>d, <3>1, <3>2, <3>3, TypesFrom
  <2>2. op'.key = k /\ op'.val = v
    BY <1>1
  <2>3. CallSound'
    BY <1>1, <2>2 DEF CallSound, SetCall, GcCall, IsNode
  <2>4. VersionsSound'
    BY <1>1, <1>b, <2>2, SameCopies DEF VersionsSound, SetCall, NextVer
  <2>5. QED
    BY <1>b, <1>c, <2>1, <2>3, <2>4, LoneNext, Assemble
<1>2. CASE \E e \in flash :
             /\ Found(e, k)
             /\ IF Stored(e) = v
                  THEN Return("ok")
                  ELSE /\ old' = {e} /\ ver' = NextVer(e.ver)
                       /\ pc' = "set" /\ start' = bid
                       /\ op' = [kind |-> "set", key |-> k, val |-> v]
                       /\ gcd' = g
                       /\ UNCHANGED <<src, newgc, todo, res>>
  <2>1. PICK e \in flash :
             /\ Found(e, k)
             /\ IF Stored(e) = v
                  THEN Return("ok")
                  ELSE /\ old' = {e} /\ ver' = NextVer(e.ver)
                       /\ pc' = "set" /\ start' = bid
                       /\ op' = [kind |-> "set", key |-> k, val |-> v]
                       /\ gcd' = g
                       /\ UNCHANGED <<src, newgc, todo, res>>
    BY <1>2
  <2>2. CASE Stored(e) = v
    BY <2>1, <2>2, <1>b, <1>c, <1>d, ReturnSound
  <2>3. CASE Stored(e) # v
    <3>1. IsNode(e) /\ e.key = k /\ (Copies(k) # {} => e \in Copies(k))
      BY <2>1, <1>a, LookupSound
    <3>2. \A f \in Copies(k) : f = e
      BY <3>1, <1>a DEF Lone
    <3>3. e.ver \in 0 .. MaxVer
      BY <1>t, EntryFields DEF TypeOK
    <3>4. NextVer(e.ver) \in 0 .. MaxVer
      BY <3>3, NextVerOther
    <3>5. QED
      BY <2>1, <2>3, <3>1, <3>2, <3>4, <1>1
  <2>4. QED
    BY <2>2, <2>3
<1>3. CASE /\ Missing(k)
           /\ old' = {} /\ ver' = 1 /\ gcd' = g
           /\ pc' = "set" /\ start' = bid
           /\ op' = [kind |-> "set", key |-> k, val |-> v]
           /\ UNCHANGED <<src, newgc, todo, res>>
  <2>1. Copies(k) = {}
    BY <1>3, <1>a, LookupSound
  <2>2. 1 \in 0 .. MaxVer
    BY ConstantsAssumption
  <2>3. QED
    BY <1>3, <2>1, <2>2, <1>1
<1>4. QED
  BY <1>2, <1>3 DEF StartOne

(* The end of the loop body of kv_set. *)
LEMMA NextBlockSound ==
    ASSUME StoreInv, pc = "set", NextBlock, AllSound', SameLive, UNCHANGED <<gcb, idx>>
    PROVE  StoreInv'
<1>a. Lone
  BY LoneNow
<1>c. CopiesOrdered' /\ Lone'
  <2>1. CopiesOrdered'
    BY SameOrdered DEF StoreInv
  <2>2. Lone'
    BY <1>a, SameCopies DEF Lone
  <2>3. QED
    BY <2>1, <2>2
<1>t. TypeOK /\ CallSound /\ VersionsSound
  BY DEF StoreInv
<1>d. bid' \in Blocks
  <2>1. bid \in Int /\ N \in Nat /\ N >= 2
    BY <1>t, ConstantsAssumption DEF TypeOK, Blocks
  <2>2. bid' = (bid + 1) % N
    BY DEF NextBlock
  <2>3. QED
    BY <2>1, <2>2 DEF Blocks
<1>e. gcb' \in Blocks \cup {-1} /\ idx' \in 0 .. N
  BY <1>t DEF TypeOK
<1>1. ASSUME pc' \in {"set", "gc"}, newgc' \in {newgc, -1},
             UNCHANGED <<op, old, ver, start, gcd, src, todo, res>>
      PROVE  StoreInv'
  <2>1. TypeOK'
    <3>1. old' \subseteq Entry /\ todo' \subseteq Entry
      BY <1>1, <1>t DEF TypeOK
    <3>2. ver' \in 0 .. MaxVer /\ start' \in Blocks /\ gcd' \in BOOLEAN
      BY <1>1, <1>t DEF TypeOK
    <3>3. src' \in Blocks /\ newgc' \in Blocks \cup {-1} /\ res' \in {"none", "ok", "fail"}
      BY <1>1, <1>t DEF TypeOK
    <3>4. QED
      BY <1>1, <1>d, <1>e, <3>1, <3>2, <3>3, TypesFrom
  <2>2. \A e \in old : e \in flash' /\ IsNode(e)
    BY <1>t DEF CallSound, IsNode, SameLive
  <2>3. CallSound'
    BY <1>1, <1>t, <2>2 DEF CallSound, SetCall, GcCall, IsNode
  <2>4. VersionsSound'
    BY <1>1, <1>t, SameCopies DEF VersionsSound, SetCall, NextVer
  <2>5. QED
    BY <1>c, <2>1, <2>3, <2>4, LoneNext, Assemble
<1>2. CASE UNCHANGED <<pc, op, old, ver, start, gcd, src, newgc, todo, res>>
  BY <1>1, <1>2
<1>3. CASE Return("fail")
  BY <1>3, <1>c, <1>d, <1>e, ReturnSound
<1>4. CASE pc' = "gc" /\ newgc' = -1 /\ UNCHANGED <<op, old, ver, start, gcd, src, todo, res>>
  BY <1>1, <1>4
<1>5. QED
  BY <1>2, <1>3, <1>4 DEF NextBlock

-----------------------------------------------------------------------------
(* Steps that touch neither flash nor counters.                            *)

(* What such a step keeps whatever else it does. *)
LEMMA QuietSound ==
    ASSUME StoreInv, pc \notin {"init", "verify", "setrm", "gcrm"},
           UNCHANGED <<flash, wo, kvsz, cnt, roc>>
    PROVE  AllSound /\ AllSound' /\ SameLive /\ CopiesOrdered' /\ Lone /\ Lone'
<1>1. AllSound /\ Lone
  BY Running, LoneNow
<1>2. AllSound' /\ SameLive
  BY <1>1, StillSound
<1>3. CopiesOrdered'
  BY <1>2, SameOrdered DEF StoreInv
<1>4. Lone'
  BY <1>1, <1>2, SameCopies DEF Lone
<1>5. QED
  BY <1>1, <1>2, <1>3, <1>4

LEMMA SetInv ==
    ASSUME StoreInv, NEW k \in Keys, NEW v \in Vals, Set(k, v)
    PROVE  StoreInv'
<1>1. pc = "idle" /\ UNCHANGED <<flash, wo, kvsz, cnt, roc, bid, gcb, idx>>
  BY DEF Set
<1>2. AllSound' /\ CopiesOrdered' /\ Lone'
  BY <1>1, QuietSound
<1>3. bid' \in Blocks /\ gcb' \in Blocks \cup {-1}
  BY <1>1 DEF StoreInv, TypeOK
<1>4. CASE Return("fail")
  BY <1>1, <1>2, <1>3, <1>4, ReturnSound
<1>5. CASE StartOne(k, v, FALSE)
  BY <1>1, <1>3, <1>5, StartOneSound
<1>6. QED
  BY <1>4, <1>5 DEF Set

LEMMA SetSkipInv ==
    ASSUME StoreInv, SetSkip
    PROVE  StoreInv'
<1>1. pc = "set" /\ NextBlock /\ UNCHANGED <<flash, wo, kvsz, cnt, roc, gcb, idx>>
  BY DEF SetSkip
<1>2. AllSound' /\ SameLive
  BY <1>1, QuietSound
<1>3. QED
  BY <1>1, <1>2, NextBlockSound

LEMMA GcPickInv ==
    ASSUME StoreInv, NEW b \in Blocks, GcPick(b)
    PROVE  StoreInv'
<1>1. /\ pc = "gc" /\ gcb # -1 /\ MinUsed(b)
      /\ src' = b /\ todo' = {e \in Live(b) : e.rw} /\ pc' = "gccopy"
      /\ UNCHANGED <<flash, wo, kvsz, cnt, roc, bid, gcb, idx, op, old, ver, start, gcd, newgc, res>>
  BY DEF GcPick
<1>2. AllSound /\ AllSound' /\ SameLive /\ CopiesOrdered' /\ Lone'
  BY <1>1, QuietSound
<1>t. TypeOK /\ CallSound /\ VersionsSound
  BY DEF StoreInv
<1>3. roc[b] = 0 /\ b # gcb
  BY <1>1 DEF MinUsed, Movable
<1>4. \A e \in todo' : e \in flash /\ IsNode(e) /\ e.rw /\ e.blk = b
  BY <1>1, <1>2 DEF Live, In, AllSound, FlashTypes, FlashSound
<1>5. TypeOK'
  <2>1. todo' \subseteq Entry
    BY <1>4, <1>t DEF TypeOK
  <2>2. QED
    BY <1>1, <1>t, <2>1 DEF TypeOK
<1>6. CallSound'
  BY <1>1, <1>3, <1>4, <1>t DEF CallSound, SetCall, GcCall, IsNode
<1>7. VersionsSound'
  BY <1>1, <1>2, <1>t, SameCopies DEF VersionsSound, SetCall
<1>8. QED
  BY <1>2, <1>5, <1>6, <1>7, LoneNext, Assemble

LEMMA GcBlockDoneInv ==
    ASSUME StoreInv, GcBlockDone
    PROVE  StoreInv'
<1>1. /\ pc = "gccopy" /\ pc' = "gc" /\ newgc' \in {src, newgc}
      /\ UNCHANGED <<flash, wo, kvsz, cnt, roc, bid, gcb, idx, op, old, ver, start, gcd, src, todo, res>>
  BY DEF GcBlockDone
<1>2. AllSound' /\ SameLive /\ CopiesOrdered' /\ Lone'
  BY <1>1, QuietSound
<1>t. TypeOK /\ CallSound /\ VersionsSound
  BY DEF StoreInv
<1>3. TypeOK'
  BY <1>1, <1>t DEF TypeOK
<1>4. CallSound'
  BY <1>1, <1>t DEF CallSound, SetCall, GcCall, IsNode
<1>5. VersionsSound'
  BY <1>1, <1>2, <1>t, SameCopies DEF VersionsSound, SetCall
<1>6. QED
  BY <1>2, <1>3, <1>4, <1>5, LoneNext, Assemble

LEMMA GcEndInv ==
    ASSUME StoreInv, GcEnd
    PROVE  StoreInv'
<1>1. pc = "gc" /\ UNCHANGED <<flash, wo, kvsz, cnt, roc, bid, idx>>
  BY DEF GcEnd
<1>2. AllSound' /\ SameLive /\ CopiesOrdered' /\ Lone'
  BY <1>1, QuietSound
<1>t. TypeOK /\ CallSound /\ VersionsSound
  BY DEF StoreInv
<1>k. op.key \in Keys /\ op.val \in Vals
  BY <1>1, <1>t DEF CallSound, SetCall
<1>3. gcb' \in Blocks \cup {-1} /\ bid' \in Blocks
  BY <1>1, <1>t DEF GcEnd, TypeOK
<1>4. CASE Return("fail")
  BY <1>1, <1>2, <1>3, <1>4, ReturnSound
<1>5. CASE StartOne(op.key, op.val, TRUE)
  BY <1>1, <1>3, <1>5, <1>k, StartOneSound
<1>6. CASE /\ old = {}
           /\ pc' = "set" /\ start' = bid /\ gcd' = TRUE
           /\ UNCHANGED <<op, old, ver, src, newgc, todo, res>>
  <2>1. TypeOK'
    BY <1>1, <1>3, <1>6, <1>t DEF TypeOK
  <2>2. CallSound'
    BY <1>6, <1>k DEF CallSound, SetCall, GcCall
  <2>3. Copies(op.key) = {}
    BY <1>1, <1>6, <1>t DEF VersionsSound, SetCall
  <2>4. VersionsSound'
    BY <2>3, <1>2, <1>6, SameCopies DEF VersionsSound, SetCall
  <2>5. QED
    BY <1>2, <2>1, <2>2, <2>4, LoneNext, Assemble
<1>7. QED
  BY <1>4, <1>5, <1>6 DEF GcEnd

LEMMA GcWildInv ==
    ASSUME StoreInv, GcWild
    PROVE  StoreInv'
<1>1. pc = "gc" /\ UNCHANGED <<flash, wo, kvsz, cnt, roc, bid, gcb, idx>>
  BY DEF GcWild
<1>2. AllSound' /\ SameLive /\ CopiesOrdered' /\ Lone'
  BY <1>1, QuietSound
<1>t. TypeOK /\ CallSound /\ VersionsSound
  BY DEF StoreInv
<1>3. gcb' \in Blocks \cup {-1} /\ bid' \in Blocks
  BY <1>1, <1>t DEF TypeOK
<1>4. CASE Return("fail")
  BY <1>1, <1>2, <1>3, <1>4, ReturnSound
<1>5. CASE pc' = "wild" /\ UNCHANGED <<op, old, ver, start, gcd, src, newgc, todo, res>>
  <2>1. TypeOK'
    BY <1>1, <1>5, <1>t DEF TypeOK
  <2>2. CallSound'
    BY <1>1, <1>5, <1>t DEF CallSound, SetCall, GcCall
  <2>3. VersionsSound'
    BY <1>5 DEF VersionsSound, SetCall
  <2>4. QED
    BY <1>2, <2>1, <2>2, <2>3, LoneNext, Assemble
<1>6. QED
  BY <1>4, <1>5 DEF GcWild

LEMMA DelInv ==
    ASSUME StoreInv, NEW k \in Keys, Del(k)
    PROVE  StoreInv'
<1>1. pc = "idle" /\ UNCHANGED <<flash, wo, kvsz, cnt, roc, bid, gcb, idx>>
  BY DEF Del
<1>2. AllSound /\ AllSound' /\ SameLive /\ CopiesOrdered' /\ Lone'
  BY <1>1, QuietSound
<1>t. TypeOK
  BY DEF StoreInv
<1>3. gcb' \in Blocks \cup {-1} /\ bid' \in Blocks
  BY <1>1, <1>t DEF TypeOK
<1>4. CASE Return("fail")
  BY <1>1, <1>2, <1>3, <1>4, ReturnSound
<1>5. ASSUME NEW e \in flash, Found(e, k), old' = {e}, pc' = "delrm",
             UNCHANGED <<ver, start, gcd, src, newgc, todo, res>>
      PROVE  StoreInv'
  <2>1. TypeOK'
    BY <1>1, <1>5, <1>t DEF TypeOK
  <2>2. IsNode(e)
    BY <1>2, <1>5, LookupSound
  <2>3. CallSound'
    BY <1>1, <1>5, <2>2 DEF CallSound, SetCall, GcCall, IsNode
  <2>4. VersionsSound'
    BY <1>5 DEF VersionsSound, SetCall
  <2>5. QED
    BY <1>2, <2>1, <2>3, <2>4, LoneNext, Assemble
<1>6. QED
  BY <1>4, <1>5 DEF Del

LEMMA ResetInv ==
    ASSUME StoreInv, Reset
    PROVE  StoreInv'
<1>1. /\ pc = "idle" /\ pc' = "reset" /\ todo' = {e \in flash : e.st = "live"}
      /\ UNCHANGED <<flash, wo, kvsz, cnt, roc, bid, gcb, idx, old, ver, start, gcd, src, newgc, res>>
  BY DEF Reset
<1>2. AllSound /\ AllSound' /\ CopiesOrdered' /\ Lone'
  BY <1>1, QuietSound
<1>t. TypeOK /\ CallSound
  BY DEF StoreInv
<1>3. TypeOK'
  BY <1>1, <1>t DEF TypeOK
<1>4. \A e \in todo' : IsNode(e) /\ e \in flash
  BY <1>1, <1>2 DEF AllSound, FlashTypes, FlashSound
<1>5. CallSound'
  BY <1>1, <1>4, <1>t DEF CallSound, SetCall, GcCall, IsNode
<1>6. VersionsSound'
  BY <1>1 DEF VersionsSound, SetCall
<1>7. QED
  BY <1>2, <1>3, <1>5, <1>6, LoneNext, Assemble

LEMMA ResetEndInv ==
    ASSUME StoreInv, ResetEnd
    PROVE  StoreInv'
<1>1. pc = "reset" /\ Return("ok") /\ UNCHANGED <<flash, wo, kvsz, cnt, roc, bid, gcb, idx>>
  BY DEF ResetEnd
<1>2. AllSound' /\ CopiesOrdered' /\ Lone'
  BY <1>1, QuietSound
<1>3. gcb' \in Blocks \cup {-1} /\ bid' \in Blocks
  BY <1>1 DEF StoreInv, TypeOK
<1>4. QED
  BY <1>1, <1>2, <1>3, ReturnSound

LEMMA VerifyEndInv ==
    ASSUME StoreInv, VerifyEnd
    PROVE  StoreInv'
<1>1. /\ pc = "verify" /\ todo = {} /\ pc' = "idle"
      /\ UNCHANGED <<flash, wo, kvsz, cnt, roc, bid, gcb, idx, op, old, ver, start, gcd, src, newgc, todo, res>>
  BY DEF VerifyEnd
<1>2. AllSound' /\ SameLive
  BY <1>1, Running, StillSound
<1>3. CopiesOrdered'
  BY <1>2, SameOrdered DEF StoreInv
<1>4. Lone
  BY <1>1, DoomedIs DEF StoreInv, OneLeft, Lone
<1>5. Lone'
  BY <1>2, <1>4, SameCopies DEF Lone
<1>t. TypeOK /\ CallSound
  BY DEF StoreInv
<1>6. TypeOK'
  BY <1>1, <1>t DEF TypeOK
<1>7. CallSound' /\ VersionsSound'
  BY <1>1, <1>t DEF CallSound, VersionsSound, SetCall, GcCall
<1>8. QED
  BY <1>2, <1>3, <1>5, <1>6, <1>7, LoneNext, Assemble

-----------------------------------------------------------------------------
(* Steps that change the flash.                                            *)

LEMMA FirstUnique ==
    ASSUME NEW S \in SUBSET Entry, NEW e, NEW f, IsFirst(e, S), IsFirst(f, S)
    PROVE  e = f
<1>1. e \in S /\ f \in S /\ (f = e \/ Before(e, f)) /\ (e = f \/ Before(f, e))
  BY DEF IsFirst
<1>2. e.blk \in Int /\ e.off \in Int /\ f.blk \in Int /\ f.off \in Int
  BY <1>1, EntryFields DEF Blocks
<1>3. ~(Before(e, f) /\ Before(f, e))
  BY <1>2 DEF Before
<1>4. QED
  BY <1>1, <1>3

LEMMA AtMostOne ==
    ASSUME NEW S, IsFiniteSet(S), Cardinality(S) <= 1, NEW e \in S, NEW f \in S
    PROVE  e = f
<1>1. SUFFICES ASSUME e # f PROVE FALSE
  OBVIOUS
<1>2. IsFiniteSet({e}) /\ Cardinality({e}) = 1
  BY FS_Singleton
<1>3. Cardinality({e} \cup {f}) = 2
  <2> DEFINE A == {e}
  <2>1. f \notin A /\ IsFiniteSet(A) /\ Cardinality(A) = 1
    BY <1>1, <1>2
  <2> HIDE DEF A
  <2>2. Cardinality(A \cup {f}) = Cardinality(A) + 1
    BY <2>1, FS_AddElement
  <2>3. QED
    BY <2>1, <2>2 DEF A
<1>4. {e} \cup {f} \in SUBSET S
  OBVIOUS
<1>5. Cardinality({e} \cup {f}) <= Cardinality(S) /\ Cardinality(S) \in Nat
  BY <1>4, FS_Subset, FS_CardinalityType
<1>6. QED
  BY <1>3, <1>5

LEMMA SetRmInv ==
    ASSUME StoreInv, SetRm \/ DelRm
    PROVE  StoreInv'
<1>1. pc \in {"setrm", "delrm"} /\ Return("ok") /\ UNCHANGED <<bid, gcb, idx>>
  BY DEF SetRm, DelRm
<1>2. PICK e \in old : kvnode_rm(e)
  BY DEF SetRm, DelRm
<1>t. TypeOK /\ CallSound /\ OneLeft /\ CopiesOrdered
  BY DEF StoreInv
<1>3. e \in flash /\ IsNode(e) /\ e \in Entry /\ \A f \in old : f = e
  BY <1>1, <1>2, <1>t DEF CallSound, TypeOK
<1>4. AllSound
  BY <1>1, Running
<1>5. /\ AllSound'
      /\ \A f \in flash' : f.st = "live" => f \in flash
      /\ e.rw => e \notin flash'
  BY <1>2, <1>3, <1>4, RmSound
<1>6. CopiesOrdered'
  BY <1>5, <1>t, OrderedShrinks
<1>7. Lone'
  <2>1. SUFFICES ASSUME NEW k \in Keys, NEW a \in Copies(k)', NEW b \in Copies(k)'
                 PROVE  a = b
    BY DEF Lone
  <2>2. a \in Copies(k) /\ b \in Copies(k)
    BY <1>5 DEF Copies
  <2>3. a # e /\ b # e
    BY <1>5 DEF Copies
  <2>4. Doomed \subseteq {e}
    BY <1>1, <1>3, DoomedIs
  <2>5. QED
    BY <2>2, <2>3, <2>4, <1>1, <1>t DEF OneLeft
<1>8. gcb' \in Blocks \cup {-1} /\ bid' \in Blocks
  BY <1>1, <1>t DEF TypeOK
<1>9. QED
  BY <1>1, <1>5, <1>6, <1>7, <1>8, ReturnSound

LEMMA VerifyInv ==
    ASSUME StoreInv, NEW e \in flash, NEW f \in flash, Verify(e, f)
    PROVE  StoreInv'
<1>1. /\ pc = "verify" /\ e \in todo /\ f \in Mapped(e) /\ todo' = todo \ {e}
      /\ UNCHANGED <<bid, gcb, pc, idx, op, old, ver, start, gcd, src, newgc, res>>
  BY DEF Verify, IsFirst
<1>t. TypeOK /\ CallSound /\ OneLeft /\ CopiesOrdered
  BY DEF StoreInv
<1>2. AllSound
  BY <1>1, Running
<1>3. e \in Copies(e.key) /\ f \in Copies(e.key) /\ e.key \in Keys /\ e # f
  BY <1>1, <1>t DEF CallSound, IsNode, Mapped, Copies
<1>4. e.ver \in 0 .. MaxVer /\ f.ver \in 0 .. MaxVer /\ e \in Entry /\ f \in Entry
  BY <1>t, EntryFields DEF TypeOK
<1>5. e.ver # f.ver
  BY <1>3, <1>4, <1>t, NextVerOther DEF CopiesOrdered
<1> DEFINE l == Loser(e, f)
<1>6. l \in {e, f} /\ kvnode_rm(l)
  BY <1>5 DEF Verify, Loser
<1>7. l \in flash /\ l \in Entry /\ IsNode(l) /\ l.rw
  <2>1. IsNode(e) /\ IsNode(f) /\ e.rw /\ f.rw
    BY <1>3, <1>2 DEF Copies, AllSound, FlashTypes, FlashSound
  <2>2. QED
    BY <2>1, <1>4, <1>6
<1> HIDE DEF l
<1>8. /\ AllSound'
      /\ \A x \in flash' : x.st = "live" => x \in flash
      /\ l \notin flash'
  BY <1>2, <1>6, <1>7, RmSound
<1>9. CopiesOrdered'
  BY <1>8, <1>t, OrderedShrinks
<1>10. OneLeft'
  <2>1. Doomed' = todo \ {e}
    BY <1>1 DEF Doomed
  <2>2. SUFFICES ASSUME NEW k \in Keys, NEW a \in Copies(k)', NEW b \in Copies(k)', a # b
                 PROVE  a \in todo \ {e} \/ b \in todo \ {e}
    BY <2>1 DEF OneLeft
  <2>3. a \in Copies(k) /\ b \in Copies(k) /\ a # l /\ b # l
    BY <1>8 DEF Copies
  <2>4. a \in todo \/ b \in todo
    BY <2>2, <2>3, <1>1, <1>t, DoomedIs DEF OneLeft
  <2>5. ASSUME a = e \/ b = e PROVE FALSE
    <3>1. k = e.key
      BY <2>3, <2>5 DEF Copies
    <3>2. ASSUME NEW x \in Copies(k), NEW y \in Copies(k), NEW z \in Copies(k)
          PROVE  x = y \/ y = z \/ x = z
      <4>1. CopiesOrdered
        BY <1>t
      <4>2. Cardinality({x, y, z}) <= 2
        BY <4>1 DEF CopiesOrdered
      <4>3. QED
        BY <4>2, TwoOfThree
    <3>3. {a, b} = {e, f}
      BY <3>1, <3>2, <2>2, <2>3, <2>5, <1>3
    <3>4. QED
      BY <3>3, <2>3, <1>6
  <2>6. QED
    BY <2>4, <2>5
<1>11. TypeOK'
  BY <1>1, <1>8, <1>t, TypesFrom DEF TypeOK
<1>12. CallSound' /\ VersionsSound'
  BY <1>1, <1>t DEF CallSound, VersionsSound, SetCall, GcCall, IsNode
<1>13. QED
  BY <1>8, <1>9, <1>10, <1>11, <1>12, Assemble

LEMMA ResetRmInv ==
    ASSUME StoreInv, NEW e \in todo, ResetRm(e)
    PROVE  StoreInv'
<1>1. /\ pc = "reset" /\ kvnode_rm(e) /\ todo' = todo \ {e}
      /\ UNCHANGED <<bid, gcb, pc, idx, op, old, ver, start, gcd, src, newgc, res>>
  BY DEF ResetRm
<1>t. TypeOK /\ CallSound /\ CopiesOrdered
  BY DEF StoreInv
<1>2. AllSound /\ Lone
  BY <1>1, Running, LoneNow
<1>3. e \in Entry /\ IsNode(e) /\ (e \in flash \/ Live(e.blk) = {})
  BY <1>1, <1>t DEF TypeOK, CallSound
<1>4. /\ AllSound'
      /\ \A f \in flash' : f.st = "live" => f \in flash
      /\ \A f \in flash : f.st = "live" /\ (f.blk # e.blk \/ ~e.rw) => f \in flash'
      /\ \A f \in flash : f.st = "live" /\ f # e /\ f \notin flash' => e.rw /\ LastNode(e) /\ Live(e.blk)' = {}
  BY <1>1, <1>2, <1>3, RmSound
<1>5. CopiesOrdered'
  BY <1>4, <1>t, OrderedShrinks
<1>6. Lone'
  <2>1. \A k \in Keys : Copies(k)' \subseteq Copies(k)
    BY <1>4 DEF Copies
  <2>2. QED
    BY <2>1, <1>2 DEF Lone
<1>7. ASSUME NEW f \in todo'
      PROVE  IsNode(f) /\ (f \in flash' \/ Live(f.blk)' = {})
  <2>1. f \in todo /\ f # e /\ IsNode(f) /\ f.st = "live"
    BY <1>1, <1>7, <1>t DEF CallSound, IsNode
  <2>2. CASE f \in flash /\ f \notin flash'
    <3>1. f.blk = e.blk /\ Live(e.blk)' = {}
      BY <2>1, <2>2, <1>4
    <3>2. QED
      BY <3>1, <2>1
  <2>3. CASE Live(f.blk) = {}
    <3>1. Live(f.blk)' \subseteq Live(f.blk)
      BY <1>4 DEF Live, In
    <3>2. QED
      BY <3>1, <2>1, <2>3
  <2>4. QED
    BY <2>1, <2>2, <2>3, <1>1, <1>t DEF CallSound
<1>8. TypeOK'
  BY <1>1, <1>4, <1>t, TypesFrom DEF TypeOK
<1>9. CallSound'
  BY <1>1, <1>7, <1>t DEF CallSound, SetCall, GcCall, IsNode
<1>10. VersionsSound'
  BY <1>1 DEF VersionsSound, SetCall
<1>11. QED
  BY <1>4, <1>5, <1>6, <1>8, <1>9, <1>10, LoneNext, Assemble

LEMMA GcRmInv ==
    ASSUME StoreInv, NEW e \in todo, GcRm(e)
    PROVE  StoreInv'
<1>1. /\ pc = "gcrm" /\ IsFirst(e, todo) /\ kvnode_rm(e) /\ pc' = "gccopy" /\ todo' = todo \ {e}
      /\ UNCHANGED <<bid, gcb, idx, op, old, ver, start, gcd, src, newgc, res>>
  BY DEF GcRm
<1>t. TypeOK /\ CallSound /\ CopiesOrdered /\ OneLeft /\ VersionsSound
  BY DEF StoreInv
<1>2. AllSound
  BY <1>1, Running
<1>3. /\ gcb # -1 /\ src # gcb /\ roc[src] = 0
      /\ \A f \in todo : f \in flash /\ IsNode(f) /\ f.rw /\ f.blk = src
  BY <1>1, <1>t DEF CallSound, GcCall
<1>4. e \in Entry /\ e \in flash /\ IsNode(e) /\ e.rw /\ e.blk = src /\ src \in Blocks
  BY <1>3, <1>t DEF TypeOK
<1>5. /\ AllSound' /\ roc' = roc
      /\ \A f \in flash' : f.st = "live" => f \in flash
      /\ e \notin flash'
      /\ \A f \in flash : f.st = "live" /\ f # e /\ f \notin flash' => LastNode(e)
  BY <1>1, <1>2, <1>4, RmSound
<1>6. CopiesOrdered'
  BY <1>5, <1>t, OrderedShrinks
<1>7. Lone'
  <2>1. SUFFICES ASSUME NEW k \in Keys, NEW a \in Copies(k)', NEW b \in Copies(k)'
                 PROVE  a = b
    BY DEF Lone
  <2>2. a \in Copies(k) /\ b \in Copies(k) /\ a # e /\ b # e
    BY <1>5 DEF Copies
  <2>3. ASSUME NEW x \in Doomed PROVE x = e
    <3>1. IsFirst(x, todo)
      BY <1>1, DoomedIs
    <3>2. QED
      BY <3>1, <1>1, <1>t, FirstUnique DEF TypeOK
  <2>4. QED
    BY <2>2, <2>3, <1>1, <1>t DEF OneLeft
<1>8. ASSUME NEW f \in todo' PROVE f \in flash'
  <2>1. SUFFICES ASSUME f \notin flash' PROVE FALSE
    OBVIOUS
  <2>2. f \in flash /\ f.st = "live" /\ f # e /\ f.blk = src
    BY <1>1, <1>3 DEF IsNode
  <2>3. LastNode(e)
    BY <2>1, <2>2, <1>5
  <2>4. IsFiniteSet(Live(src)) /\ cnt[src] = Cardinality(Live(src)) /\ Cardinality(Live(src)) \in Nat
    BY <1>2, <1>4, LiveFinite DEF AllSound, Tallied
  <2>5. Cardinality(Live(src)) <= 1
    BY <2>3, <2>4, <1>3, <1>4 DEF LastNode
  <2>6. e \in Live(src) /\ f \in Live(src)
    BY <2>2, <1>4 DEF Live, In, IsNode
  <2>7. QED
    BY <2>2, <2>4, <2>5, <2>6, AtMostOne
<1>9. TypeOK'
  BY <1>1, <1>5, <1>t, TypesFrom DEF TypeOK
<1>10. CallSound'
  <2>1. \A f \in todo' : f \in flash' /\ IsNode(f) /\ f.rw /\ f.blk = src
    BY <1>1, <1>3, <1>8
  <2>2. op.key \in Keys /\ op.val \in Vals /\ \A x, y \in old : x = y
    BY <1>1, <1>t DEF CallSound, SetCall
  <2>3. QED
    BY <2>1, <2>2, <1>1, <1>3, <1>5 DEF CallSound, SetCall, GcCall, IsNode
<1>11. VersionsSound'
  <2>1. Copies(op.key)' \subseteq Copies(op.key)
    BY <1>1, <1>5 DEF Copies
  <2>2. QED
    BY <2>1, <1>1, <1>t DEF VersionsSound, SetCall
<1>12. QED
  BY <1>5, <1>6, <1>7, <1>9, <1>10, <1>11, LoneNext, Assemble

(* The node a program would write. *)
LEMMA GcCopyInv ==
    ASSUME StoreInv, NEW e \in todo, GcCopy(e)
    PROVE  StoreInv'
<1>1. /\ pc = "gccopy" /\ IsFirst(e, todo)
      /\ UNCHANGED <<bid, gcb, idx, op, old, ver, start, gcd, src, newgc, res>>
  BY DEF GcCopy
<1>t. TypeOK /\ CallSound /\ CopiesOrdered /\ VersionsSound
  BY DEF StoreInv
<1>2. AllSound /\ Lone
  BY <1>1, Running, LoneNow
<1>3. /\ gcb # -1 /\ src # gcb /\ roc[src] = 0 /\ gcb \in Blocks
      /\ \A f \in todo : f \in flash /\ IsNode(f) /\ f.rw /\ f.blk = src
      /\ op.key \in Keys /\ op.val \in Vals /\ \A x, y \in old : x = y
  BY <1>1, <1>t DEF CallSound, GcCall, SetCall, TypeOK
<1>4. /\ e \in flash /\ IsNode(e) /\ e.rw /\ e.size \in 1 .. BlockSize /\ e.ver \in 0 .. MaxVer
      /\ e.key \in Keys /\ e.val \in Vals /\ e \in Copies(e.key)
  BY <1>3, <1>t, EntryFields DEF TypeOK, IsNode, Copies
<1>5. NextVer(e.ver) \in 0 .. MaxVer
  BY <1>4, NextVerOther
<1>6. CASE /\ CanAlloc(gcb, e.size)
           /\ Programmed(gcb, e.size, e.key, e.val, NextVer(e.ver))
           /\ pc' = "gcrm" /\ todo' = todo
  <2> DEFINE n == Node(gcb, wo[gcb], e.size, e.key, e.val, NextVer(e.ver))
  <2>1. /\ AllSound' /\ n \notin flash
        /\ \A x : x.st # "torn" => (x \in flash' <=> x \in flash \/ x = n)
    BY <1>2, <1>3, <1>4, <1>5, <1>6, ProgrammedSound
  <2>2. n.st = "live" /\ n.key = e.key /\ n.ver = NextVer(e.ver)
    BY DEF Node
  <2>3. roc' = roc
    BY <1>6 DEF Programmed
  <2> HIDE DEF n
  <2>4. \A x \in flash' : x.st = "live" => x \in flash \/ x = n
    BY <2>1
  <2>5. \A x \in Copies(e.key) : x = e
    BY <1>2, <1>4 DEF Lone
  <2>6. CopiesOrdered'
    BY <2>2, <2>4, <2>5, <1>t, OrderedGrows
  <2>7. OneLeft'
    <3>1. e \in Doomed'
      BY <1>1, <1>6 DEF Doomed
    <3>2. SUFFICES ASSUME NEW k \in Keys, NEW a \in Copies(k)', NEW b \in Copies(k)'
                   PROVE  a = b \/ a = e \/ b = e
      BY <3>1 DEF OneLeft
    <3>3. (a \in Copies(k) \/ (a = n /\ k = e.key)) /\ (b \in Copies(k) \/ (b = n /\ k = e.key))
      BY <2>2, <2>4 DEF Copies
    <3>4. QED
      BY <3>3, <2>5, <1>2 DEF Lone
  <2>8. TypeOK'
    BY <1>1, <1>6, <2>1, <1>t, TypesFrom DEF TypeOK
  <2>9. CallSound'
    <3>1. \A f \in todo' : f \in flash' /\ IsNode(f) /\ f.rw /\ f.blk = src
      BY <1>3, <1>6, <2>1 DEF IsNode
    <3>2. QED
      BY <3>1, <1>1, <1>3, <1>6, <2>3 DEF CallSound, SetCall, GcCall, IsNode
  <2>10. VersionsSound'
    <3>1. ASSUME old = {} PROVE Copies(op.key)' = {}
      <4>1. Copies(op.key) = {}
        BY <3>1, <1>1, <1>t DEF VersionsSound, SetCall
      <4>2. e.key # op.key
        BY <4>1, <1>4
      <4>3. QED
        BY <4>1, <4>2, <2>2, <2>4, <1>1 DEF Copies
    <3>2. QED
      BY <3>1, <1>1, <1>6 DEF VersionsSound
  <2>11. QED
    BY <2>1, <2>6, <2>7, <2>8, <2>9, <2>10, Assemble
<1>7. ASSUME pc' = "gccopy", todo' = todo \ {e}, AllSound', SameLive, roc' = roc
      PROVE  StoreInv'
  <2>1. CopiesOrdered' /\ Lone'
    BY <1>2, <1>7, <1>t, SameOrdered, SameCopies DEF Lone
  <2>2. TypeOK'
    BY <1>1, <1>7, <1>t, TypesFrom DEF TypeOK
  <2>3. CallSound'
    <3>1. \A f \in todo' : f \in flash' /\ IsNode(f) /\ f.rw /\ f.blk = src
      BY <1>3, <1>7 DEF IsNode, SameLive
    <3>2. QED
      BY <3>1, <1>1, <1>3, <1>7 DEF CallSound, SetCall, GcCall, IsNode
  <2>4. VersionsSound'
    BY <1>1, <1>7, <1>t, SameCopies DEF VersionsSound, SetCall
  <2>5. QED
    BY <1>7, <2>1, <2>2, <2>3, <2>4, LoneNext, Assemble
<1>8. CASE /\ CanAlloc(gcb, e.size) /\ VerifyFailed(gcb, e.size)
           /\ pc' = pc /\ todo' = todo \ {e}
  <2>1. AllSound' /\ SameLive
    BY <1>2, <1>3, <1>4, <1>8, FailedSound DEF SameLive
  <2>2. roc' = roc
    BY <1>8 DEF VerifyFailed
  <2>3. QED
    BY <1>1, <1>7, <1>8, <2>1, <2>2
<1>9. CASE /\ pc' = pc /\ todo' = todo \ {e}
           /\ UNCHANGED <<flash, wo, kvsz, cnt, roc>>
  <2>1. AllSound' /\ SameLive
    BY <1>2, <1>9, StillSound
  <2>2. QED
    BY <1>1, <1>7, <1>9, <2>1
<1>10. QED
  BY <1>6, <1>8, <1>9 DEF GcCopy

LEMMA SetProgramInv ==
    ASSUME StoreInv, SetProgram
    PROVE  StoreInv'
<1>1. /\ pc = "set" /\ CanAlloc(bid, ValSize[op.val])
      /\ UNCHANGED <<gcb, idx>>
  BY DEF SetProgram
<1>t. TypeOK /\ CallSound /\ CopiesOrdered /\ VersionsSound
  BY DEF StoreInv
<1>2. AllSound /\ Lone
  BY <1>1, Running, LoneNow
<1>3. /\ op.key \in Keys /\ op.val \in Vals /\ bid \in Blocks /\ ver \in 0 .. MaxVer
      /\ \A x, y \in old : x = y
      /\ \A x \in old : x \in flash /\ IsNode(x)
  BY <1>1, <1>t DEF CallSound, SetCall, TypeOK
<1>4. ValSize[op.val] \in 1 .. BlockSize
  BY <1>3, ConstantsAssumption
<1>5. CASE /\ Programmed(bid, ValSize[op.val], op.key, op.val, ver)
           /\ bid' = bid
           /\ IF old = {}
                THEN Return("ok")
                ELSE pc' = "setrm" /\ UNCHANGED <<op, old, ver, start, gcd, src, newgc, todo, res>>
  <2> DEFINE n == Node(bid, wo[bid], ValSize[op.val], op.key, op.val, ver)
  <2>1. /\ AllSound' /\ n \notin flash
        /\ \A x : x.st # "torn" => (x \in flash' <=> x \in flash \/ x = n)
    BY <1>1, <1>2, <1>3, <1>4, <1>5, ProgrammedSound
  <2>2. n.st = "live" /\ n.key = op.key /\ n.ver = ver
    BY DEF Node
  <2> HIDE DEF n
  <2>3. \A x \in flash' : x.st = "live" => x \in flash \/ x = n
    BY <2>1
  <2>4. \A x \in Copies(op.key) : x \in old /\ ver = NextVer(x.ver)
    BY <1>1, <1>t DEF VersionsSound
  <2>5. CopiesOrdered'
    <3>1. \A x, y \in Copies(n.key) : x = y
      BY <1>2, <1>3, <2>2 DEF Lone
    <3>2. \A x \in Copies(n.key) : n.ver = NextVer(x.ver)
      BY <2>2, <2>4
    <3>3. QED
      BY <2>3, <3>1, <3>2, <1>t, OrderedGrows
  <2>6. \A k \in Keys : \A x \in flash' :
           x.st = "live" /\ x.rw /\ x.key = k => x \in Copies(k) \/ (x = n /\ k = op.key)
    BY <2>2, <2>3 DEF Copies
  <2>7. CASE old = {}
    <3>1. Lone'
      <4>1. SUFFICES ASSUME NEW k \in Keys, NEW a \in Copies(k)', NEW b \in Copies(k)' PROVE a = b
        BY DEF Lone
      <4>2. (a \in Copies(k) \/ (a = n /\ k = op.key)) /\ (b \in Copies(k) \/ (b = n /\ k = op.key))
        BY <2>6 DEF Copies
      <4>3. Copies(op.key) = {}
        BY <2>4, <2>7
      <4>4. QED
        BY <4>2, <4>3, <1>2 DEF Lone
    <3>2. gcb' \in Blocks \cup {-1} /\ bid' \in Blocks
      BY <1>1, <1>5, <1>t DEF TypeOK
    <3>3. QED
      BY <1>1, <1>5, <2>1, <2>5, <2>7, <3>1, <3>2, ReturnSound
  <2>8. CASE old # {}
    <3>p. pc' = "setrm" /\ UNCHANGED <<op, old, ver, start, gcd, src, newgc, todo, res>>
      BY <1>5, <2>8
    <3>1. OneLeft'
      <4>1. Doomed' = old
        BY <3>p DEF Doomed
      <4>2. SUFFICES ASSUME NEW k \in Keys, NEW a \in Copies(k)', NEW b \in Copies(k)'
                     PROVE  a = b \/ a \in old \/ b \in old
        BY <4>1 DEF OneLeft
      <4>3. (a \in Copies(k) \/ (a = n /\ k = op.key)) /\ (b \in Copies(k) \/ (b = n /\ k = op.key))
        BY <2>6 DEF Copies
      <4>4. QED
        BY <4>3, <2>4, <1>2 DEF Lone
    <3>2. TypeOK'
      BY <1>1, <1>5, <3>p, <2>1, <1>t, TypesFrom DEF TypeOK
    <3>3. CallSound'
      <4>1. \A x \in old : x \in flash'
        BY <1>3, <2>1 DEF IsNode
      <4>2. QED
        BY <4>1, <1>3, <3>p DEF CallSound, SetCall, GcCall, IsNode
    <3>4. VersionsSound'
      BY <3>p, <2>8 DEF VersionsSound
    <3>5. QED
      BY <2>1, <2>5, <3>1, <3>2, <3>3, <3>4, Assemble
  <2>9. QED
    BY <2>7, <2>8
<1>6. CASE VerifyFailed(bid, ValSize[op.val]) /\ NextBlock
  <2>1. AllSound' /\ SameLive
    BY <1>1, <1>2, <1>3, <1>4, <1>6, FailedSound DEF SameLive
  <2>2. QED
    BY <1>1, <1>6, <2>1, NextBlockSound
<1>7. QED
  BY <1>5, <1>6 DEF SetProgram

-----------------------------------------------------------------------------
(* Start-up.                                                               *)

LEMMA InitBlockInv ==
    ASSUME StoreInv, InitBlock
    PROVE  StoreInv'
<1>t. TypeOK /\ FlashSound /\ OffsetsSound /\ CountsSound /\ CallSound /\ CopiesOrdered /\ FlashTypes
  BY DEF StoreInv, FlashTypes, TypeOK
<1> DEFINE w == IF Blank(idx) /\ In(idx) # {} THEN 0 ELSE WriteOffset(idx)
<1>1. /\ pc = "init" /\ idx < N
      /\ flash' = IF Blank(idx) THEN Erased(idx) ELSE flash
      /\ wo'    = [wo EXCEPT ![idx] = w]
      /\ kvsz'  = [kvsz EXCEPT ![idx] = TotalSize(Live(idx))]
      /\ cnt'   = [cnt EXCEPT ![idx] = Cardinality(Live(idx))]
      /\ roc'   = [roc EXCEPT ![idx] = Cardinality({e \in Live(idx) : ~e.rw})]
      /\ gcb' \in {idx, gcb} /\ bid' \in {idx, bid}
      /\ idx'   = idx + 1
      /\ UNCHANGED <<pc, op, old, ver, start, gcd, src, newgc, todo, res>>
  BY DEF InitBlock
<1>2. idx \in Blocks /\ idx \in Int /\ idx' \in 0 .. N
  BY <1>1, <1>t, ConstantsAssumption DEF TypeOK, Blocks
<1>3. w \in 0 .. BlockSize
  BY <1>t, <1>2, ScanSound, ConstantsAssumption
<1>4. SameLive /\ flash' \subseteq flash
  BY <1>1 DEF SameLive, Blank, Erased, Live, In
<1>5. IsFiniteSet(flash')
  BY <1>4, <1>t, FS_Subset DEF FlashSound
<1>6. FlashSound'
  <2>1. Apart(flash')
    BY <1>4, <1>t, ApartShrinks DEF FlashSound
  <2>2. QED
    BY <1>4, <1>5, <1>t, <2>1 DEF FlashSound, IsNode
<1>7. \A c : Live(c)' = Live(c)
  BY <1>4 DEF SameLive, Live, In
<1>8. TypeOK'
  <2>1. flash' \subseteq Entry
    BY <1>4, <1>t DEF TypeOK
  <2>2. wo' \in [Blocks -> 0 .. BlockSize]
    <3> HIDE DEF w
    <3>1. QED
      BY <1>1, <1>3, <1>t DEF TypeOK
  <2>3. kvsz' \in [Blocks -> Int]
    <3>1. TotalSize(Live(idx)) \in Int
      BY <1>t, LiveFinite
    <3>2. QED
      BY <3>1, <1>1, <1>t DEF TypeOK
  <2>4. cnt' \in [Blocks -> Int]
    <3>1. Cardinality(Live(idx)) \in Int
      BY <1>t, LiveFinite
    <3>2. cnt' = [cnt EXCEPT ![idx] = Cardinality(Live(idx))] /\ cnt \in [Blocks -> Int]
      BY <1>1, <1>t DEF TypeOK
    <3>3. QED
      BY <3>1, <3>2
  <2>5. roc' \in [Blocks -> Nat]
    <3> DEFINE R == {e \in Live(idx) : ~e.rw}
    <3>1. IsFiniteSet(Live(idx)) /\ R \in SUBSET Live(idx)
      BY <1>t, LiveFinite
    <3>2. roc' = [roc EXCEPT ![idx] = Cardinality(R)]
      BY <1>1
    <3> HIDE DEF R
    <3>3. Cardinality(R) \in Nat
      BY <3>1, FS_Subset, FS_CardinalityType
    <3>4. QED
      BY <3>2, <3>3, <1>t DEF TypeOK
  <2>6. gcb' \in Blocks \cup {-1} /\ bid' \in Blocks
    BY <1>1, <1>2, <1>t DEF TypeOK
  <2>7. QED
    BY <1>1, <1>2, <1>t, <2>1, <2>2, <2>3, <2>4, <2>5, <2>6 DEF TypeOK
<1>9. OffsetsSound'
  <2>1. SUFFICES ASSUME NEW e \in flash', e.st # "torn", e.blk < idx + 1
                 PROVE  e.off + e.size <= wo'[e.blk]
    BY <1>1 DEF OffsetsSound, Scanned
  <2>2. e \in flash /\ e.blk \in Blocks /\ e.blk \in Int
    BY <1>4, <1>t, EntryFields DEF TypeOK, Blocks
  <2>3. CASE e.blk = idx
    <3>1. ~Blank(idx)
      BY <2>1, <2>3, <1>1 DEF Erased, In
    <3>2. wo'[idx] = WriteOffset(idx)
      BY <3>1, <1>1, <1>2, <1>t DEF TypeOK
    <3>3. e.off + e.size <= EndOfNodes(idx) /\ EndOfNodes(idx) <= WriteOffset(idx)
      BY <2>1, <2>2, <2>3, <1>2, <1>t, ScanSound
    <3>4. e.off + e.size \in Int /\ EndOfNodes(idx) \in Int /\ WriteOffset(idx) \in Int
      BY <2>2, <1>2, <1>t, ScanSound, EntryFields DEF TypeOK
    <3>5. QED
      BY <2>3, <3>2, <3>3, <3>4
  <2>4. CASE e.blk # idx
    <3>1. e.blk < idx
      BY <2>1, <2>2, <2>4, <1>2
    <3>2. wo'[e.blk] = wo[e.blk]
      BY <2>2, <2>4, <1>1, <1>t DEF TypeOK
    <3>3. QED
      BY <2>1, <2>2, <3>1, <3>2, <1>t DEF OffsetsSound, Scanned
  <2>5. QED
    BY <2>3, <2>4
<1>10. CountsSound'
  <2>1. SUFFICES ASSUME NEW c \in Blocks, c < idx + 1
                 PROVE  cnt'[c] = Cardinality(Live(c)) /\ kvsz'[c] = TotalSize(Live(c))
    BY <1>1, <1>7 DEF CountsSound, Scanned
  <2>2. CASE c = idx
    BY <2>2, <1>1, <1>t DEF TypeOK
  <2>3. CASE c # idx
    <3>1. c < idx
      BY <2>1, <2>3, <1>2 DEF Blocks
    <3>2. cnt'[c] = cnt[c] /\ kvsz'[c] = kvsz[c]
      BY <2>3, <1>1, <1>t DEF TypeOK
    <3>3. QED
      BY <3>1, <3>2, <1>t DEF CountsSound, Scanned
  <2>4. QED
    BY <2>2, <2>3
<1>11. CallSound' /\ VersionsSound' /\ OneLeft'
  BY <1>1, <1>t DEF CallSound, VersionsSound, OneLeft, SetCall, GcCall
<1>12. CopiesOrdered'
  BY <1>4, <1>t, SameOrdered
<1>13. QED
  BY <1>6, <1>8, <1>9, <1>10, <1>11, <1>12 DEF StoreInv

LEMMA InitVerifyInv ==
    ASSUME StoreInv, InitVerify
    PROVE  StoreInv'
<1>1. /\ pc = "init" /\ idx = N /\ pc' = "verify" /\ todo' = Conflicts
      /\ UNCHANGED <<flash, wo, kvsz, cnt, roc, bid, gcb, idx, op, old, ver, start, gcd, src, newgc, res>>
  BY DEF InitVerify
<1>t. TypeOK /\ CallSound /\ CopiesOrdered
  BY DEF StoreInv
<1>2. AllSound
  BY <1>1, Running
<1>3. AllSound' /\ SameLive
  BY <1>1, <1>2, StillSound
<1>4. CopiesOrdered'
  BY <1>3, <1>t, SameOrdered
<1>5. \A e \in Conflicts : e \in flash /\ IsNode(e) /\ e.rw
  BY <1>2 DEF Conflicts, AllSound, FlashTypes, FlashSound
<1>6. TypeOK'
  BY <1>1, <1>5, <1>t DEF TypeOK
<1>7. CallSound' /\ VersionsSound'
  BY <1>1, <1>5, <1>t DEF CallSound, VersionsSound, SetCall, GcCall, IsNode
<1>8. OneLeft'
  <2>1. Doomed' = Conflicts
    BY <1>1 DEF Doomed
  <2>2. SUFFICES ASSUME NEW k \in Keys, NEW e \in Copies(k), NEW f \in Copies(k), e # f
                 PROVE  e \in Conflicts \/ f \in Conflicts
    BY <2>1, <1>3, SameCopies DEF OneLeft
  <2>3. e \in flash /\ f \in flash /\ e.st = "live" /\ f.st = "live" /\ e.rw /\ f.rw /\ e.key = f.key
    BY DEF Copies
  <2>4. ~(e.blk = f.blk /\ e.off = f.off)
    BY <2>2, <2>3, <1>2 DEF AllSound, FlashTypes, FlashSound, Apart
  <2>5. e.blk \in Int /\ f.blk \in Int /\ e.off \in Int /\ f.off \in Int
    BY <2>3, <1>t, EntryFields DEF TypeOK, Blocks
  <2>6. Before(e, f) \/ Before(f, e)
    BY <2>4, <2>5 DEF Before
  <2>7. QED
    BY <2>3, <2>6 DEF Conflicts
<1>9. QED
  BY <1>3, <1>4, <1>6, <1>7, <1>8, Assemble

-----------------------------------------------------------------------------
(* Power loss.                                                             *)

(* A flash content that start-up copes with. *)
Readable(S) ==
    /\ S \subseteq Entry /\ IsFiniteSet(S) /\ Apart(S)
    /\ \A e \in S : e.off + e.size <= BlockSize
    /\ \A e \in S : e.st = "live" => IsNode(e)

LEMMA TornProgramReadable ==
    ASSUME ~LossOverRemains, AllSound, NEW b \in Blocks, NEW s \in 1 .. BlockSize, CanAlloc(b, s),
           NEW k \in Keys, NEW v \in Vals, NEW r \in 0 .. MaxVer,
           NEW S \in TornProgram(b, s, k, v, r)
    PROVE  /\ Readable(S)
           /\ \A x \in S : x.st = "live" => x \in flash \/ x = Node(b, wo[b], s, k, v, r)
           /\ \A x \in flash : x.st # "torn" => x \in S
<1> DEFINE n == Node(b, wo[b], s, k, v, r)
<1>w. wo[b] \in 0 .. BlockSize /\ wo[b] + s <= BlockSize - 1 /\ BlockSize \in Nat
  BY ConstantsAssumption DEF AllSound, RamTypes, CanAlloc
<1>s. FlashTypes /\ RamTypes /\ Behind(b)
  BY DEF AllSound
<1>1. CASE S = flash
  BY <1>1, <1>s DEF FlashTypes, FlashSound, Readable
<1>2. CASE S = Cover(b, s, n)
  <2>1. /\ n.blk = b /\ n.off = wo[b] /\ n.size = s /\ n.st = "live"
        /\ n \in Entry /\ IsNode(n)
    BY <1>w, NodeIsEntry DEF Node
  <2> HIDE DEF n
  <2>2. /\ S \subseteq Entry /\ IsFiniteSet(S) /\ Apart(S)
        /\ \A e \in S : e.off + e.size <= BlockSize
        /\ \A e \in S : e.st = "live" => IsNode(e)
        /\ \A e : e.st # "torn" => (e \in S <=> e \in flash \/ e = n)
    BY <1>s, <1>2, <2>1, CoverSound
  <2>3. QED
    BY <2>2 DEF Readable, n
<1>3. ASSUME NEW z \in 1 .. s - 1, S = Cover(b, z, Space(b, wo[b], z, "torn")) PROVE Readable(S) /\ \A x : x.st # "torn" => (x \in S <=> x \in flash)
  <2> DEFINE m == Space(b, wo[b], z, "torn")
  <2>1. z \in 1 .. BlockSize /\ CanAlloc(b, z)
    BY <1>w DEF CanAlloc
  <2>2. m.blk = b /\ m.off = wo[b] /\ m.size = z /\ m.st = "torn" /\ m \in Entry
    BY <1>w, <2>1, SpaceIsEntry DEF Space
  <2>q. S = Cover(b, z, m)
    BY <1>3
  <2> HIDE DEF m
  <2>3. /\ S \subseteq Entry /\ IsFiniteSet(S) /\ Apart(S)
        /\ \A e \in S : e.off + e.size <= BlockSize
        /\ \A e \in S : e.st = "live" => IsNode(e)
        /\ \A e : e.st # "torn" => (e \in S <=> e \in flash \/ e = m)
    BY <1>s, <2>1, <2>2, <2>q, CoverSound
  <2>4. QED
    BY <2>2, <2>3 DEF Readable
<1>4. QED
  BY <1>1, <1>2, <1>3 DEF TornProgram, CutShort

LEMMA TornRmReadable ==
    ASSUME FlashTypes, NEW e \in Entry, NEW S \in TornRm(e)
    PROVE  /\ Readable(S)
           /\ \A x \in S : x.st = "live" => x \in flash
           /\ \A x \in flash : x \in S \/ \A y \in S : y.blk = x.blk => y.st = "torn"
<1>1. CASE S = flash
  BY <1>1 DEF FlashTypes, FlashSound, Readable
<1>2. CASE S = (flash \ In(e.blk)) \cup {Space(e.blk, 0, BlockSize, "torn")}
  <2> DEFINE m == Space(e.blk, 0, BlockSize, "torn")
  <2>1. BlockSize \in Nat /\ BlockSize >= 2 /\ e.blk \in Blocks
    BY ConstantsAssumption, EntryFields
  <2>o. m \in Entry /\ m.st = "torn" /\ m.blk = e.blk /\ m.off = 0 /\ m.size = BlockSize
    <3>1. 0 \in 0 .. BlockSize /\ BlockSize \in 1 .. BlockSize
      BY <2>1
    <3>2. m \in Entry
      BY <2>1, <3>1, SpaceIsEntry
    <3>3. QED
      BY <3>2 DEF Space
  <2>2. m \in Entry /\ m.st = "torn" /\ m.blk = e.blk /\ m.off + m.size <= BlockSize
    BY <2>o, <2>1
  <2>3. S = (flash \ In(e.blk)) \cup {m}
    BY <1>2
  <2> HIDE DEF m
  <2>4. IsFiniteSet(flash \ In(e.blk))
    BY FS_Difference DEF FlashTypes, FlashSound
  <2>5. IsFiniteSet(S)
    BY <2>3, <2>4, FS_AddElement
  <2>6. \A x \in S : x.st = "live" => x \in flash
    BY <2>2, <2>3
  <2>7. Apart(S)
    BY <2>6, ApartShrinks DEF FlashTypes, FlashSound
  <2>8. S \subseteq Entry /\ (\A x \in S : x.off + x.size <= BlockSize)
    BY <2>2, <2>3 DEF FlashTypes, FlashSound
  <2>9. \A x \in S : x.st = "live" => IsNode(x)
    BY <2>6 DEF FlashTypes, FlashSound
  <2>10. \A x \in flash : x \in S \/ \A y \in S : y.blk = x.blk => y.st = "torn"
    BY <2>2, <2>3 DEF In
  <2>11. QED
    BY <2>5, <2>6, <2>7, <2>8, <2>9, <2>10 DEF Readable
<1>3. QED
  BY <1>1, <1>2 DEF TornRm

(* What survives a power loss: the live nodes, or also the one being       *)
(* written; nothing that was a node is overwritten.                        *)
LEMMA SurvivesSound ==
    ASSUME ~LossOverRemains, StoreInv, flash' \in Survives
    PROVE  /\ Readable(flash') /\ CopiesOrdered'
           /\ \A x \in flash : x.st # "torn" =>
                 x \in flash' \/ \A y \in flash' : y.blk = x.blk => y.st = "torn"
<1>t. TypeOK /\ FlashTypes /\ CallSound /\ CopiesOrdered /\ VersionsSound
  BY DEF StoreInv, FlashTypes, TypeOK
<1>1. CASE flash' = flash
  <2>1. SameLive
    BY <1>1 DEF SameLive
  <2>2. CopiesOrdered'
    BY <2>1, <1>t, SameOrdered
  <2>3. Readable(flash)
    BY <1>t DEF FlashTypes, FlashSound, Readable
  <2>4. QED
    BY <1>1, <2>2, <2>3
<1>2. ASSUME NEW e \in Entry, flash' \in TornRm(e)
      PROVE  /\ Readable(flash') /\ CopiesOrdered'
             /\ \A x \in flash : x.st # "torn" =>
                   x \in flash' \/ \A y \in flash' : y.blk = x.blk => y.st = "torn"
  <2>1. /\ Readable(flash')
        /\ \A x \in flash' : x.st = "live" => x \in flash
        /\ \A x \in flash : x \in flash' \/ \A y \in flash' : y.blk = x.blk => y.st = "torn"
    BY <1>2, <1>t, TornRmReadable
  <2>2. CopiesOrdered'
    BY <2>1, <1>t, OrderedShrinks
  <2>3. QED
    BY <2>1, <2>2
<1>3. CASE /\ pc = "set" /\ CanAlloc(bid, ValSize[op.val])
           /\ flash' \in TornProgram(bid, ValSize[op.val], op.key, op.val, ver)
  <2>1. AllSound /\ Lone
    BY <1>3, Running, LoneNow
  <2>2. op.key \in Keys /\ op.val \in Vals /\ bid \in Blocks /\ ver \in 0 .. MaxVer
    BY <1>3, <1>t DEF CallSound, SetCall, TypeOK
  <2>3. ValSize[op.val] \in 1 .. BlockSize
    BY <2>2, ConstantsAssumption
  <2> DEFINE n == Node(bid, wo[bid], ValSize[op.val], op.key, op.val, ver)
  <2>4. /\ Readable(flash')
        /\ \A x \in flash' : x.st = "live" => x \in flash \/ x = n
        /\ \A x \in flash : x.st # "torn" => x \in flash'
    BY <1>3, <2>1, <2>2, <2>3, TornProgramReadable
  <2>5. n.key = op.key /\ n.ver = ver
    BY DEF Node
  <2> HIDE DEF n
  <2>6. \A x, y \in Copies(n.key) : x = y
    BY <2>1, <2>2, <2>5 DEF Lone
  <2>7. \A x \in Copies(n.key) : n.ver = NextVer(x.ver)
    BY <1>3, <1>t, <2>5 DEF VersionsSound
  <2>8. CopiesOrdered'
    BY <2>4, <2>6, <2>7, <1>t, OrderedGrows
  <2>9. QED
    BY <2>4, <2>8
<1>4. ASSUME pc = "gccopy", NEW e \in todo, CanAlloc(gcb, e.size),
             flash' \in TornProgram(gcb, e.size, e.key, e.val, NextVer(e.ver))
      PROVE  /\ Readable(flash') /\ CopiesOrdered'
             /\ \A x \in flash : x.st # "torn" =>
                   x \in flash' \/ \A y \in flash' : y.blk = x.blk => y.st = "torn"
  <2>1. AllSound /\ Lone
    BY <1>4, Running, LoneNow
  <2>2. gcb \in Blocks /\ e \in flash /\ IsNode(e) /\ e.rw
    BY <1>4, <1>t DEF CallSound, GcCall, TypeOK
  <2>3. /\ e.size \in 1 .. BlockSize /\ e.ver \in 0 .. MaxVer
        /\ e.key \in Keys /\ e.val \in Vals /\ e \in Copies(e.key)
    BY <2>2, <1>t, EntryFields DEF TypeOK, IsNode, Copies
  <2>n. NextVer(e.ver) \in 0 .. MaxVer
    BY <2>3, NextVerOther
  <2> DEFINE n == Node(gcb, wo[gcb], e.size, e.key, e.val, NextVer(e.ver))
  <2>4. /\ Readable(flash')
        /\ \A x \in flash' : x.st = "live" => x \in flash \/ x = n
        /\ \A x \in flash : x.st # "torn" => x \in flash'
    BY <1>4, <2>1, <2>2, <2>3, <2>n, TornProgramReadable
  <2>5. n.key = e.key /\ n.ver = NextVer(e.ver)
    BY DEF Node
  <2> HIDE DEF n
  <2>6. \A x \in Copies(n.key) : x = e
    BY <2>1, <2>3, <2>5 DEF Lone
  <2>8. CopiesOrdered'
    BY <2>4, <2>5, <2>6, <1>t, OrderedGrows
  <2>9. QED
    BY <2>4, <2>8
<1>5. CASE pc \in {"setrm", "delrm"}
  <2>1. PICK e \in old : flash' \in TornRm(e)
    BY <1>5 DEF Survives
  <2>2. QED
    BY <2>1, <1>2, <1>t DEF TypeOK
<1>6. CASE pc \in {"gcrm", "reset"}
  <2>1. flash' = flash \/ \E e \in todo : flash' \in TornRm(e)
    BY <1>6 DEF Survives
  <2>2. QED
    BY <2>1, <1>1, <1>2, <1>t DEF TypeOK
<1>7. CASE pc = "verify"
  <2>1. flash' = flash \/ \E e \in todo : \E f \in Mapped(e) : flash' \in TornRm(Loser(e, f))
    BY <1>7 DEF Survives
  <2>2. ASSUME NEW e \in todo, NEW f \in Mapped(e) PROVE Loser(e, f) \in Entry
    BY <1>t DEF TypeOK, Mapped, Loser
  <2>3. QED
    BY <2>1, <2>2, <1>1, <1>2
<1>8. CASE pc = "gccopy"
  <2>1. \/ flash' = flash
        \/ \E e \in todo : /\ CanAlloc(gcb, e.size)
                           /\ flash' \in TornProgram(gcb, e.size, e.key, e.val, NextVer(e.ver))
    BY <1>8 DEF Survives
  <2>2. QED
    BY <2>1, <1>1, <1>4, <1>8
<1>9. CASE pc = "set"
  <2>1. \/ flash' = flash
        \/ /\ CanAlloc(bid, ValSize[op.val])
           /\ flash' \in TornProgram(bid, ValSize[op.val], op.key, op.val, ver)
    BY <1>9 DEF Survives
  <2>2. QED
    BY <2>1, <1>1, <1>3, <1>9
<1>10. CASE pc \notin {"set", "setrm", "delrm", "gccopy", "gcrm", "reset", "verify"}
  <2>1. flash' = flash
    BY <1>10 DEF Survives
  <2>2. QED
    BY <2>1, <1>1
<1>11. QED
  BY <1>5, <1>6, <1>7, <1>8, <1>9, <1>10

(* Right after power-up nothing is known of the blocks. *)
LEMMA PowerUp ==
    ASSUME Readable(flash'), CopiesOrdered',
           wo' = Zero, kvsz' = Zero, cnt' = Zero, roc' = Zero,
           bid' = 0, gcb' = -1, pc' = "init", idx' = 0,
           old' = {}, ver' = 0, start' = 0, gcd' = FALSE,
           src' = 0, newgc' = -1, todo' = {}, res' = "none"
    PROVE  StoreInv'
<1>1. 0 \in Blocks /\ 0 \in 0 .. MaxVer /\ 0 \in 0 .. N /\ 0 \in 0 .. BlockSize
  BY ConstantsAssumption DEF Blocks
<1>2. Zero \in [Blocks -> 0 .. BlockSize] /\ Zero \in [Blocks -> Int] /\ Zero \in [Blocks -> Nat]
  BY <1>1 DEF Zero
<1>3. TypeOK'
  BY <1>1, <1>2 DEF TypeOK, Readable
<1>4. FlashSound'
  BY DEF FlashSound, Readable, IsNode
<1>5. \A b \in Blocks : ~Scanned(b)'
  BY DEF Scanned, Blocks
<1>6. CountsSound'
  BY <1>5 DEF CountsSound
<1>7. OffsetsSound'
  BY <1>5, EntryFields DEF OffsetsSound, Readable
<1>8. CallSound' /\ OneLeft' /\ VersionsSound'
  BY DEF CallSound, OneLeft, VersionsSound, SetCall, GcCall
<1>9. QED
  BY <1>3, <1>4, <1>6, <1>7, <1>8 DEF StoreInv

LEMMA PowerLossInv ==
    ASSUME ~LossOverRemains, StoreInv, PowerLoss
    PROVE  StoreInv'
<1>1. Readable(flash') /\ CopiesOrdered'
  BY SurvivesSound DEF PowerLoss
<1>2. QED
  BY <1>1, PowerUp DEF PowerLoss

-----------------------------------------------------------------------------
(* The invariant.                                                          *)

LEMMA StoreInit ==
    ASSUME Init
    PROVE  StoreInv
<1>1. 0 \in Blocks /\ 0 \in 0 .. MaxVer /\ 0 \in 0 .. N /\ 0 \in 0 .. BlockSize
  BY ConstantsAssumption DEF Blocks
<1>2. Zero \in [Blocks -> 0 .. BlockSize] /\ Zero \in [Blocks -> Int] /\ Zero \in [Blocks -> Nat]
  BY <1>1 DEF Zero
<1>3. TypeOK
  BY <1>1, <1>2, RoAssumption DEF Init, TypeOK
<1>4. FlashSound
  <2>1. Apart(flash)
    BY RoAssumption DEF Init, Apart
  <2>2. \A e \in flash : e.off + e.size <= BlockSize
    <3>1. ASSUME NEW e \in RoNodes PROVE e.off + e.size <= BlockSize
      <4>1. e.off + e.size < BlockSize /\ e.off \in Int /\ e.size \in Int /\ BlockSize \in Int
        BY RoAssumption, ConstantsAssumption, EntryFields
      <4>2. QED
        BY <4>1
    <3>2. QED
      BY <3>1 DEF Init
  <2>3. QED
    BY <2>1, <2>2, RoAssumption DEF Init, FlashSound, IsNode
<1>5. \A b \in Blocks : ~Scanned(b)
  BY DEF Init, Scanned, Blocks
<1>6. CountsSound
  BY <1>5 DEF CountsSound
<1>7. OffsetsSound
  BY <1>3, <1>5, EntryFields DEF OffsetsSound, TypeOK
<1>8. CallSound /\ OneLeft /\ VersionsSound
  BY DEF Init, CallSound, OneLeft, VersionsSound, SetCall, GcCall
<1>9. CopiesOrdered
  <2>1. \A k \in Keys : Copies(k) = {}
    BY RoAssumption DEF Init, Copies
  <2>2. QED
    BY <2>1 DEF CopiesOrdered
<1>10. QED
  BY <1>3, <1>4, <1>6, <1>7, <1>8, <1>9 DEF StoreInv

LEMMA StoreStutters ==
    ASSUME StoreInv, UNCHANGED vars
    PROVE  StoreInv'
<1>1. UNCHANGED <<flash, wo, kvsz, cnt, roc, bid, gcb, pc, idx, op, old, ver, start, gcd, src, newgc, todo, res>>
  BY DEF vars
<1>2. TypeOK'
  BY <1>1 DEF StoreInv, TypeOK
<1>3. FlashSound' /\ OffsetsSound'
  BY <1>1 DEF StoreInv, FlashSound, OffsetsSound, Scanned, IsNode
<1>4. CountsSound'
  BY <1>1 DEF StoreInv, CountsSound, Scanned, Live, In
<1>5. CallSound'
  BY <1>1 DEF StoreInv, CallSound, SetCall, GcCall, IsNode, Live, In
<1>6. SameLive
  BY <1>1 DEF SameLive
<1>7. CopiesOrdered'
  BY <1>6, SameOrdered DEF StoreInv
<1>8. Doomed' = Doomed
  BY <1>1 DEF Doomed
<1>9. OneLeft'
  BY <1>1, <1>6, <1>8, SameCopies DEF StoreInv, OneLeft
<1>10. VersionsSound'
  BY <1>1, <1>6, SameCopies DEF StoreInv, VersionsSound, SetCall, NextVer
<1>11. QED
  BY <1>2, <1>3, <1>4, <1>5, <1>7, <1>9, <1>10 DEF StoreInv

LEMMA StoreNext ==
    ASSUME ~LossOverRemains, StoreInv, [Next]_vars
    PROVE  StoreInv'
<1>1. CASE Step
  BY <1>1, InitBlockInv, InitVerifyInv, VerifyInv, VerifyEndInv, SetSkipInv, SetProgramInv,
     SetRmInv, GcPickInv, GcCopyInv, GcRmInv, GcBlockDoneInv, GcEndInv, GcWildInv,
     ResetRmInv, ResetEndInv DEF Step
<1>2. CASE Request
  BY <1>2, SetInv, DelInv, ResetInv DEF Request
<1>3. CASE PowerLoss
  BY <1>3, PowerLossInv
<1>4. CASE UNCHANGED vars
  BY <1>4, StoreStutters
<1>5. QED
  BY <1>1, <1>2, <1>3, <1>4 DEF Next

(* The invariant of the store holds through every call, every start of      *)
(* kv_init and every power loss, but for one that cuts a program over the    *)
(* remains of a torn one; for any number and size of blocks, any keys and    *)
(* values, any factory image and with programs that fail.                    *)
THEOREM StoreHolds == ~LossOverRemains => (Spec => []StoreInv)
<1>1. ASSUME ~LossOverRemains PROVE Spec => []StoreInv
  <2>1. StoreInv /\ [Next]_vars => StoreInv'
    BY <1>1, StoreNext
  <2>2. QED
    BY <2>1, StoreInit, PTL DEF Spec
<1>2. QED
  BY <1>1

(* The variables of kv keep to their types: in particular write_offset     *)
(* stays inside the block and a version inside one byte.                   *)
THEOREM StoreTypes == ~LossOverRemains => (Spec => []TypeOK)
<1>1. StoreInv => TypeOK
  BY DEF StoreInv
<1>2. QED
  BY <1>1, StoreHolds, PTL

(* There are never more than two copies of a key, and their versions tell   *)
(* which one kv_verify has to keep, whenever the power fails.               *)
THEOREM CopiesStayOrdered == ~LossOverRemains => (Spec => []CopiesOrdered)
<1>1. StoreInv => CopiesOrdered
  BY DEF StoreInv
<1>2. QED
  BY <1>1, StoreHolds, PTL

(* Between calls there is one copy of a key and kv_find reaches it: the     *)
(* early stop of kvblock_find at count nodes hides none.                    *)
THEOREM LookupsComplete == ~LossOverRemains => (Spec => []LookupComplete)
<1>1. ASSUME StoreInv PROVE LookupComplete
  <2>1. SUFFICES ASSUME pc \in {"idle", "set", "gc"}, NEW k \in Keys
                 PROVE  /\ \A e, f \in Copies(k) : e = f
                        /\ \A e \in Copies(k) : Found(e, k)
    BY DEF LookupComplete
  <2>2. AllSound /\ Lone
    BY <1>1, <2>1, Running, LoneNow
  <2>3. \A e, f \in Copies(k) : e = f
    BY <2>2 DEF Lone
  <2>4. QED
    BY <2>2, <2>3, OnlyFound
<1>2. QED
  BY <1>1, StoreHolds, PTL

(* The counters that kvnode_rm and kv_gc decide by, kept up by every         *)
(* operation, are what kvblock_calc would compute from flash, and no node    *)
(* lies beyond write_offset.                                                 *)
THEOREM CountersRight == ~LossOverRemains => (Spec => []CountersAgree)
<1>1. ASSUME StoreInv PROVE CountersAgree
  <2>1. SUFFICES ASSUME pc \notin {"init", "wild"}, NEW b \in Blocks
                 PROVE  /\ cnt[b] = Cardinality(Live(b))
                        /\ kvsz[b] = TotalSize(Live(b))
                        /\ EndOfNodes(b) <= wo[b]
    BY DEF CountersAgree
  <2>2. AllSound
    BY <1>1, <2>1, Running
  <2>3. QED
    BY <2>2, EndBelow DEF AllSound, Tallied
<1>2. QED
  BY <1>1, StoreHolds, PTL

-----------------------------------------------------------------------------
(* Nothing is programmed over.                                             *)

(* What NeverOverwritten says of one step. *)
Spares ==
    \A e \in flash : (e.st # "torn" /\ e \notin flash') =>
        \/ Space(e.blk, e.off, e.size, "dead") \in flash'
        \/ \A f \in flash' : f.blk = e.blk => f.st = "torn"

LEMMA RmSpares ==
    ASSUME NEW e, kvnode_rm(e)
    PROVE  Spares
<1>1. CASE UNCHANGED <<flash, wo, kvsz, cnt, roc>>
  BY <1>1 DEF Spares
<1>2. CASE flash' = (flash \ {e}) \cup {Space(e.blk, e.off, e.size, "dead")}
  BY <1>2 DEF Spares
<1>3. CASE EraseBlock(e.blk)
  BY <1>3 DEF Spares, EraseBlock, Erased, In
<1>4. QED
  BY <1>1, <1>2, <1>3 DEF kvnode_rm

LEMMA SetProgramSpares ==
    ASSUME StoreInv, SetProgram
    PROVE  Spares
<1>1. pc = "set" /\ CanAlloc(bid, ValSize[op.val])
  BY DEF SetProgram
<1>2. AllSound
  BY <1>1, Running
<1>3. op.key \in Keys /\ op.val \in Vals /\ bid \in Blocks /\ ver \in 0 .. MaxVer
  BY <1>1 DEF StoreInv, CallSound, SetCall, TypeOK
<1>4. ValSize[op.val] \in 1 .. BlockSize
  BY <1>3, ConstantsAssumption
<1>5. CASE Programmed(bid, ValSize[op.val], op.key, op.val, ver)
  BY <1>1, <1>2, <1>3, <1>4, <1>5, ProgrammedSound DEF Spares
<1>6. CASE VerifyFailed(bid, ValSize[op.val])
  BY <1>1, <1>2, <1>3, <1>4, <1>6, FailedSound DEF Spares
<1>7. QED
  BY <1>5, <1>6 DEF SetProgram

LEMMA GcCopySpares ==
    ASSUME StoreInv, NEW e \in todo, GcCopy(e)
    PROVE  Spares
<1>1. pc = "gccopy"
  BY DEF GcCopy
<1>2. AllSound
  BY <1>1, Running
<1>3. gcb \in Blocks /\ e \in flash /\ IsNode(e) /\ e \in Entry
  BY <1>1 DEF StoreInv, CallSound, GcCall, TypeOK
<1>4. e.size \in 1 .. BlockSize /\ NextVer(e.ver) \in 0 .. MaxVer /\ e.key \in Keys /\ e.val \in Vals
  BY <1>3, EntryFields, NextVerOther DEF IsNode
<1>5. CASE CanAlloc(gcb, e.size) /\ Programmed(gcb, e.size, e.key, e.val, NextVer(e.ver))
  BY <1>2, <1>3, <1>4, <1>5, ProgrammedSound DEF Spares
<1>6. CASE CanAlloc(gcb, e.size) /\ VerifyFailed(gcb, e.size)
  BY <1>2, <1>3, <1>4, <1>6, FailedSound DEF Spares
<1>7. CASE flash' = flash
  BY <1>7 DEF Spares
<1>8. QED
  BY <1>5, <1>6, <1>7 DEF GcCopy

LEMMA InitBlockSpares ==
    ASSUME InitBlock
    PROVE  Spares
<1>1. flash' = IF Blank(idx) THEN Erased(idx) ELSE flash
  BY DEF InitBlock
<1>2. QED
  BY <1>1 DEF Spares, Erased, In

LEMMA StepSpares ==
    ASSUME ~LossOverRemains, StoreInv, [Next]_vars
    PROVE  Spares
<1>1. CASE flash' = flash
  BY <1>1 DEF Spares
<1>2. CASE Step
  <2>1. CASE InitBlock \/ SetProgram \/ \E e \in todo : GcCopy(e)
    BY <2>1, InitBlockSpares, SetProgramSpares, GcCopySpares
  <2>2. CASE SetRm \/ DelRm \/ \E e \in todo : GcRm(e) \/ ResetRm(e)
    BY <2>2, RmSpares DEF SetRm, DelRm, GcRm, ResetRm
  <2>3. CASE \E e, f \in flash : Verify(e, f)
    BY <2>3, <1>1, RmSpares DEF Verify
  <2>4. CASE \/ InitVerify \/ VerifyEnd \/ SetSkip \/ GcBlockDone \/ GcEnd \/ GcWild \/ ResetEnd
             \/ \E b \in Blocks : GcPick(b)
    BY <2>4, <1>1 DEF InitVerify, VerifyEnd, SetSkip, GcBlockDone, GcEnd, GcWild, ResetEnd, GcPick
  <2>5. QED
    BY <1>2, <2>1, <2>2, <2>3, <2>4 DEF Step
<1>3. CASE Request
  BY <1>1, <1>3 DEF Request, Set, Del, Reset
<1>4. CASE PowerLoss
  BY <1>4, SurvivesSound DEF PowerLoss, Spares
<1>5. CASE UNCHANGED vars
  BY <1>1, <1>5 DEF vars
<1>6. QED
  BY <1>2, <1>3, <1>4, <1>5 DEF Next

(* kvblock_alloc_node, kvblock_calc after a power loss, and kv_gc never     *)
(* make a program land on something that is or was a node.                  *)
THEOREM NodesNotOverwritten == ~LossOverRemains => (Spec => NeverOverwritten)
<1>1. ASSUME ~LossOverRemains PROVE Spec => NeverOverwritten
  <2>1. StoreInv /\ [Next]_vars =>
          [\A e \in flash : (e.st # "torn" /\ e \notin flash') =>
              \/ Space(e.blk, e.off, e.size, "dead") \in flash'
              \/ \A f \in flash' : f.blk = e.blk => f.st = "torn"]_vars
    BY <1>1, StepSpares DEF Spares
  <2>2. Spec => []StoreInv
    BY <1>1, StoreHolds
  <2>3. QED
    BY <2>1, <2>2, PTL DEF Spec, NeverOverwritten
<1>2. QED
  BY <1>1

=============================================================================
