---------------------------- MODULE KVNode_proofs ----------------------------
(***************************************************************************)
(* The search of a block finds the nodes that were programmed whole, and a *)
(* key has its old or its new value, for every Plain key, blocks of any    *)
(* size and any number of power losses, as long as those that cut a        *)
(* program short do so where kvblock_calc searches for torn writes.        *)
(***************************************************************************)
EXTENDS KVNodeInv, SequenceTheorems, WellFoundedInduction, NaturalsInduction, TLAPS

-----------------------------------------------------------------------------
(* Numbers.                                                                *)

(* Induction on a set of numbers instead of a predicate. *)
LEMMA NatSetInduction ==
    ASSUME NEW S \in SUBSET Nat, 0 \in S, \A n \in S : n + 1 \in S
    PROVE  S = Nat
<1>1. SUFFICES ASSUME Nat \ S # {} PROVE FALSE
  OBVIOUS
<1>2. PICK x \in Nat \ S : \A y \in Nat \ S : ~ (<<y, x>> \in OpToRel(<, Nat))
  BY <1>1, NatLessThanWellFounded, WFMin
<1>3. \A y \in Nat \ S : ~ (y < x)
  BY <1>2 DEF OpToRel
<1>n. x \in Nat /\ x \notin S
  BY <1>2
<1>z. x # 0
  BY <1>n
<1>4. x - 1 \in Nat
  BY <1>n, <1>z
<1>5. x - 1 \in S
  BY <1>3, <1>4
<1>6. x - 1 + 1 \in S /\ x - 1 + 1 = x
  BY <1>5, <1>4
<1>7. QED
  BY <1>6, <1>n

LEMMA MaxOf ==
    ASSUME NEW S \in SUBSET Nat, S # {}, NEW n \in Nat, \A x \in S : x <= n
    PROVE  Max(S) \in S /\ \A x \in S : x <= Max(S)
<1>1. \E m \in S : \A x \in S : m >= x
  <2>1. SUFFICES ASSUME \A m \in S : \E x \in S : x > m PROVE FALSE
    OBVIOUS
  <2> DEFINE R == {m \in Nat : \E x \in S : x >= m}
  <2>2. 0 \in R
    <3>1. PICK x \in S : x \in Nat
      OBVIOUS
    <3>2. x >= 0
      BY <3>1
    <3>3. QED
      BY <3>2
  <2>3. ASSUME NEW m \in R PROVE m + 1 \in R
    <3>1. PICK x \in S : x >= m
      OBVIOUS
    <3>2. PICK y \in S : y > x
      BY <2>1
    <3>3. y >= m + 1
      BY <3>1, <3>2
    <3>4. QED
      BY <3>3
  <2>4. R = Nat
    <3> HIDE DEF R
    <3>1. R \in SUBSET Nat
      BY DEF R
    <3>2. QED
      BY <2>2, <2>3, <3>1, NatSetInduction
  <2>5. n + 1 \in R
    <3> HIDE DEF R
    <3>1. QED
      BY <2>4
  <2>6. PICK x \in S : x >= n + 1
    BY <2>5
  <2>7. x \in Nat /\ x <= n
    BY <2>6
  <2>8. QED
    BY <2>6, <2>7
<1>2. Max(S) \in S /\ \A x \in S : Max(S) >= x
  BY <1>1 DEF Max
<1>3. QED
  BY <1>2

LEMMA MinOf ==
    ASSUME NEW S \in SUBSET Nat, S # {}
    PROVE  Min(S) \in S /\ \A x \in S : Min(S) <= x
<1>1. PICK m \in S : \A x \in S : ~ (<<x, m>> \in OpToRel(<, Nat))
  BY NatLessThanWellFounded, WFMin
<1>2. \A x \in S : m <= x
  <2>1. \A x \in S : ~ (x < m)
    BY <1>1 DEF OpToRel
  <2>2. QED
    BY <2>1
<1>3. \E x \in S : \A y \in S : x =< y
  BY <1>2
<1>4. QED
  BY <1>3 DEF Min

LEMMA Aligned ==
    ASSUME NEW x \in Nat
    PROVE  /\ align4(x) \in Nat /\ align4(x) % 4 = 0
           /\ x <= align4(x) /\ align4(x) <= x + 3
  BY DEF align4

LEMMA AlignedUpTo ==
    ASSUME NEW x \in Nat, NEW y \in Nat, y % 4 = 0, x <= y
    PROVE  align4(x) <= y
  BY DEF align4

LEMMA AlignedSum ==
    ASSUME NEW x \in Nat, NEW y \in Nat, x % 4 = 0, y % 4 = 0
    PROVE  (x + y) % 4 = 0
  OBVIOUS

-----------------------------------------------------------------------------
(* The bytes of a node.                                                    *)

LEMMA Sizes ==
    ASSUME NEW k \in Seq(1 .. 254), NEW v \in Seq(0 .. 255)
    PROVE  /\ Len(k) \in Nat /\ Len(v) \in Nat
           /\ MallocSize(k, v) \in Nat /\ MallocSize(k, v) % 4 = 0
           /\ Len(k) + Len(v) + 6 <= MallocSize(k, v)
           /\ MallocSize(k, v) <= Len(k) + Len(v) + 9
<1>1. Len(k) \in Nat /\ Len(v) \in Nat
  OBVIOUS
<1>2. Len(k) + Len(v) + RW_FLAG_SIZE + 1 \in Nat
  BY <1>1 DEF RW_FLAG_SIZE
<1>3. QED
  BY <1>1, <1>2, Aligned DEF MallocSize, RW_FLAG_SIZE

LEMMA BytesAre ==
    ASSUME NEW k \in Seq(1 .. 254), NEW v \in Seq(0 .. 255), NEW r
    PROVE  LET b == Bytes(k, v, r) L == Len(k) V == Len(v)
           IN  /\ b = [i \in 0 .. MallocSize(k, v) - 1 |-> b[i]]
               /\ \A i \in 0 .. L - 1 : b[i] = k[i + 1]
               /\ b[L] = 0 /\ b[L + 1] = V % 256 /\ b[L + 2] = SizeHi(k, v)
               /\ b[L + 3] = r /\ b[L + 4] = EQ
               /\ \A i \in 1 .. V : b[L + 4 + i] = v[i]
               /\ b[L + V + 5] = SizeHi(k, v)
               /\ \A i \in L + V + 6 .. MallocSize(k, v) - 1 : b[i] = 0
<1> DEFINE L == Len(k)
           V == Len(v)
           h == SizeHi(k, v)
           hd == <<0, V % 256, h, r, EQ>>
           body == k \o hd \o v \o <<h>>
           M == MallocSize(k, v)
<1>1. L \in Nat /\ V \in Nat /\ M \in Nat /\ L + V + 6 <= M
  BY Sizes
<1>2. k \o hd = [i \in 1 .. L + 5 |-> IF i <= L THEN k[i] ELSE hd[i - L]]
  OBVIOUS
<1>3. k \o hd \o v = [i \in 1 .. L + 5 + V |->
          IF i <= L THEN k[i] ELSE IF i <= L + 5 THEN hd[i - L] ELSE v[i - L - 5]]
  BY <1>1, <1>2
<1>4. /\ Len(body) = L + V + 6 /\ body[L + V + 6] = h
      /\ \A i \in 1 .. L + 5 + V :
            body[i] = IF i <= L THEN k[i] ELSE IF i <= L + 5 THEN hd[i - L] ELSE v[i - L - 5]
  BY <1>1, <1>3
<1>5. Bytes(k, v, r) = [i \in 0 .. M - 1 |-> IF i < Len(body) THEN body[i + 1] ELSE 0]
  BY DEF Bytes
<1>6. hd[1] = 0 /\ hd[2] = V % 256 /\ hd[3] = h /\ hd[4] = r /\ hd[5] = EQ
  OBVIOUS
<1> HIDE DEF body, hd, M, L, V, h
<1> DEFINE b == Bytes(k, v, r)
<1>7. \A i \in 0 .. L + V + 5 : b[i] = body[i + 1]
  BY <1>1, <1>4, <1>5
<1>8. \A i \in L + V + 6 .. M - 1 : b[i] = 0
  BY <1>1, <1>4, <1>5
<1>9. \A i \in 0 .. L - 1 : b[i] = k[i + 1]
  BY <1>1, <1>4, <1>7
<1>10. b[L] = 0 /\ b[L + 1] = V % 256 /\ b[L + 2] = h /\ b[L + 3] = r /\ b[L + 4] = EQ
  <2>1. ASSUME NEW j \in 1 .. 5 PROVE b[L + j - 1] = hd[j]
    <3>1. L + j - 1 \in 0 .. L + V + 5 /\ L + j \in 1 .. L + 5 + V /\ L + j - 1 + 1 = L + j
      BY <1>1
    <3>2. body[L + j] = hd[j]
      <4>1. ~(L + j <= L) /\ L + j <= L + 5 /\ L + j - L = j
        BY <1>1
      <4>2. body[L + j] = IF L + j <= L THEN k[L + j]
                          ELSE IF L + j <= L + 5 THEN hd[L + j - L] ELSE v[L + j - L - 5]
        BY <1>1, <1>4, <3>1
      <4>3. QED
        BY <4>1, <4>2
    <3>3. QED
      BY <1>7, <3>1, <3>2
  <2>2. /\ L + 1 - 1 = L /\ L + 2 - 1 = L + 1 /\ L + 3 - 1 = L + 2
        /\ L + 4 - 1 = L + 3 /\ L + 5 - 1 = L + 4
    BY <1>1
  <2>3. /\ b[L + 1 - 1] = hd[1] /\ b[L + 2 - 1] = hd[2] /\ b[L + 3 - 1] = hd[3]
        /\ b[L + 4 - 1] = hd[4] /\ b[L + 5 - 1] = hd[5]
    BY <2>1
  <2>4. QED
    BY <2>2, <2>3, <1>6
<1>11. \A i \in 1 .. V : b[L + 4 + i] = v[i]
  <2>1. ASSUME NEW i \in 1 .. V PROVE b[L + 4 + i] = v[i]
    <3>1. L + 4 + i \in 0 .. L + V + 5 /\ L + 5 + i \in 1 .. L + 5 + V /\ L + 4 + i + 1 = L + 5 + i
      BY <1>1
    <3>2. body[L + 5 + i] = v[L + 5 + i - L - 5]
      BY <1>1, <1>4, <3>1
    <3>3. QED
      BY <1>1, <1>7, <3>1, <3>2
  <2>2. QED
    BY <2>1
<1>12. b[L + V + 5] = h
  <2>1. L + V + 5 \in 0 .. L + V + 5 /\ L + V + 5 + 1 = L + V + 6
    BY <1>1
  <2>2. body[L + V + 6] = h
    BY <1>4
  <2> HIDE DEF b
  <2>3. b[L + V + 5] = body[L + V + 5 + 1]
    BY <1>7, <2>1
  <2>4. QED
    BY <2>1, <2>2, <2>3
<1>13. b = [i \in 0 .. M - 1 |-> b[i]]
  BY <1>5
<1>14. QED
  BY <1>8, <1>9, <1>10, <1>11, <1>12, <1>13 DEF L, V, h, M

-----------------------------------------------------------------------------
(* The programs in the block.                                              *)

K       == Len(Key)
KLen(e) == Len(e.key)
VLen(e) == Len(e.val)
Area(e) == MallocSize(e.key, e.val)
Word(e) == Bytes(e.key, e.val, e.ver)

LEMMA Constants ==
    ASSUME Plain
    PROVE  /\ Size \in Nat /\ Size % 4 = 0 /\ Size >= 19 /\ Scan \in Nat /\ Scan <= Size
           /\ Key \in Seq(1 .. 254) /\ K \in 3 .. 63
           /\ \A i \in 1 .. K : Key[i] \in 1 .. 254 /\ Key[i] \notin {NL, EQ, 4 * K}
           /\ Other \in Seq(1 .. 254) /\ Len(Other) \in 1 .. 63 /\ Other # Key
           /\ \A i \in 1 .. Len(Other) : Other[i] \in 1 .. 254 /\ Other[i] # NL
           /\ Other \in Seq(0 .. 255)
<1>1. /\ Size \in Nat /\ Size % 4 = 0 /\ Scan \in Nat /\ Scan <= Size
      /\ Key \in Seq(1 .. 254) /\ K \in 3 .. 63
      /\ Other \in Seq(1 .. 254) /\ Len(Other) \in 1 .. 63 /\ Other # Key
  BY KVNodeAssumption DEF Plain, K
<1>2. \A i \in 1 .. K : Key[i] \in 1 .. 254 /\ Key[i] \notin {NL, EQ, 4 * K}
  BY <1>1, ElementOfSeq DEF Plain, K
<1>3. \A i \in 1 .. Len(Other) : Other[i] \in 1 .. 254 /\ Other[i] # NL
  BY <1>1, ElementOfSeq DEF Plain
<1>4. Other \in Seq(0 .. 255)
  <2>1. \A i \in 1 .. Len(Other) : Other[i] \in 0 .. 255
    BY <1>3
  <2>2. QED
    BY <1>1, <2>1
<1>5. Size >= 19
  <2> DEFINE n == Len(Other)
  <2>1. n \in 1 .. 63 /\ Size \in Nat /\ 2 * n + 17 <= Size
    BY KVNodeAssumption
  <2> HIDE DEF n
  <2>2. QED
    BY <2>1
<1>6. QED
  BY <1>1, <1>2, <1>3, <1>4, <1>5

LEMMA ValueOf ==
    ASSUME Plain, NEW v \in Values
    PROVE  /\ v \in Seq(0 .. 255) /\ Len(v) \in 1 .. 63
           /\ Len(v) <= K \/ Len(v) <= 4
           /\ (\E i \in 1 .. Len(v) : v[i] = 0) => Len(v) <= 4
<1>1. v \in Seq(0 .. 255) /\ Len(v) >= 1
  BY KVNodeAssumption
<1>2. \/ Len(v) <= 4
      \/ Len(v) <= K /\ \A i \in 1 .. Len(v) : v[i] # 0
  BY DEF Plain, K
<1>3. Len(v) \in 1 .. 63
  <2>1. Len(v) \in Nat
    BY <1>1
  <2> DEFINE n == Len(v)
  <2> HIDE DEF n
  <2>2. n \in Nat /\ n >= 1 /\ (n <= K \/ n <= 4)
    BY <1>1, <1>2, <2>1 DEF n
  <2>3. K \in 3 .. 63
    BY Constants
  <2>4. n \in 1 .. 63
    BY <2>2, <2>3
  <2>5. QED
    BY <2>4 DEF n
<1>4. QED
  BY <1>1, <1>2, <1>3

(* What is known of every program. *)
LEMMA Shape ==
    ASSUME Plain, NEW e, Sound(e)
    PROVE  /\ e.key \in Seq(1 .. 254) /\ e.val \in Seq(0 .. 255)
           /\ KLen(e) \in 1 .. 63 /\ VLen(e) \in 1 .. 63 /\ SizeHi(e.key, e.val) = 4 * KLen(e)
           /\ Area(e) \in Nat /\ Area(e) % 4 = 0
           /\ KLen(e) + VLen(e) + 6 <= Area(e) /\ Area(e) <= KLen(e) + VLen(e) + 9
           /\ e.at \in Nat /\ e.at % 4 = 0 /\ e.len \in 1 .. Area(e) /\ e.ver \in 1 .. 255
           /\ e.rm \in BOOLEAN
           /\ Nul(e) = e.at + KLen(e) /\ Trailer(e) = e.at + KLen(e) + VLen(e) + 5
           /\ \A i \in 1 .. KLen(e) : e.key[i] \in 1 .. 254 /\ e.key[i] # NL
           /\ \/ e.key = Key /\ KLen(e) = K /\ e.val \in Values
              \/ e.at = 0 /\ Whole(e) /\ e.key = Other
<1>1. /\ e.key \in Seq(1 .. 254) /\ e.val \in Seq(0 .. 255)
      /\ KLen(e) \in 1 .. 63 /\ VLen(e) \in 1 .. 63
  <2>1. CASE e.key = Key /\ e.val \in Values
    BY <2>1, Constants, ValueOf DEF KLen, VLen, K
  <2>2. CASE e.key = Other /\ e.val = Other
    BY <2>2, Constants DEF KLen, VLen
  <2>3. QED
    BY <2>1, <2>2 DEF Sound
<1>0. KLen(e) \in 1 .. 63 /\ VLen(e) \in 1 .. 63
  BY <1>1
<1>2. SizeHi(e.key, e.val) = 4 * KLen(e)
  <2>1. SizeHi(e.key, e.val) = KLen(e) * 4 + VLen(e) \div 256
    BY DEF SizeHi, KLen, VLen
  <2>2. QED
    BY <1>0, <2>1
<1>3. /\ Area(e) \in Nat /\ Area(e) % 4 = 0
      /\ KLen(e) + VLen(e) + 6 <= Area(e) /\ Area(e) <= KLen(e) + VLen(e) + 9
  BY <1>1, Sizes DEF KLen, VLen, Area
<1>4. e.at \in Nat /\ e.at % 4 = 0 /\ e.len \in 1 .. Area(e) /\ e.ver \in 1 .. 255 /\ e.rm \in BOOLEAN
  BY DEF Sound, Area
<1>5. Nul(e) = e.at + KLen(e)
  BY DEF Nul, KLen
<1>6. Trailer(e) = e.at + KLen(e) + VLen(e) + 5
  <2> DEFINE a == e.at
             k == KLen(e)
             v == VLen(e)
  <2>1. Trailer(e) = a + k + 5 + v
    BY DEF Trailer, Nul, RW_FLAG_SIZE, VLen, KLen
  <2>2. a \in Nat /\ k \in Nat /\ v \in Nat
    BY <1>0, <1>4
  <2> HIDE DEF a, k, v
  <2>3. a + k + 5 + v = a + k + v + 5
    BY <2>2
  <2>4. Trailer(e) = a + k + v + 5
    BY <2>1, <2>3
  <2>5. QED
    BY <2>4 DEF a, k, v
<1>7. \A i \in 1 .. KLen(e) : e.key[i] \in 1 .. 254 /\ e.key[i] # NL
  <2>1. CASE e.key = Key
    BY <2>1, Constants DEF KLen, K
  <2>2. CASE e.key = Other
    BY <2>2, Constants DEF KLen
  <2>3. QED
    BY <2>1, <2>2 DEF Sound
<1>8. \/ e.key = Key /\ KLen(e) = K /\ e.val \in Values
      \/ e.at = 0 /\ Whole(e) /\ e.key = Other
  BY DEF Sound, KLen, K
<1>9. QED
  BY <1>1, <1>2, <1>3, <1>4, <1>5, <1>6, <1>7, <1>8

LEMMA Ends ==
    ASSUME Plain, NEW e, Sound(e)
    PROVE  /\ End(e) \in Nat /\ End(e) % 4 = 0 /\ e.at + e.len <= End(e) /\ End(e) <= Size - 4
           /\ Whole(e) => End(e) = e.at + Area(e) + 4 /\ Trailer(e) < e.at + e.len
           /\ ~Whole(e) => /\ End(e) = e.at + align4(e.len) /\ e.at + e.len <= Trailer(e)
                           /\ e.rm = FALSE /\ e.key = Key /\ e.val \in Values /\ KLen(e) = K
<1>1. /\ e.at \in Nat /\ e.at % 4 = 0 /\ e.len \in 1 .. Area(e)
      /\ Area(e) \in Nat /\ Area(e) % 4 = 0 /\ Trailer(e) \in Nat
  <2>1. Trailer(e) = e.at + KLen(e) + VLen(e) + 5 /\ KLen(e) \in 1 .. 63 /\ VLen(e) \in 1 .. 63
    BY Shape
  <2>2. /\ e.at \in Nat /\ e.at % 4 = 0 /\ e.len \in 1 .. Area(e)
        /\ Area(e) \in Nat /\ Area(e) % 4 = 0
    BY Shape
  <2> DEFINE a == e.at
             k == KLen(e)
             v == VLen(e)
  <2>3. Trailer(e) = a + k + v + 5 /\ a \in Nat /\ k \in Nat /\ v \in Nat
    BY <2>1, <2>2
  <2> HIDE DEF a, k, v
  <2>4. Trailer(e) \in Nat
    BY <2>3
  <2>5. QED
    BY <2>2, <2>4
<1>2. End(e) <= Size - 4
  BY DEF Sound
<1>3. CASE Whole(e)
  <2>1. End(e) = e.at + Area(e) + 4
    BY <1>3 DEF End, Area
  <2>2. Trailer(e) < e.at + e.len
    BY <1>3 DEF Whole
  <2>3. QED
    BY <1>1, <1>2, <1>3, <2>1, <2>2
<1>4. CASE ~Whole(e)
  <2>1. End(e) = e.at + align4(e.len)
    BY <1>4 DEF End
  <2>2. align4(e.len) \in Nat /\ align4(e.len) % 4 = 0 /\ e.len <= align4(e.len)
    <3>1. e.len \in Nat
      BY <1>1
    <3>2. QED
      BY <3>1, Aligned
  <2>3. e.at + e.len <= Trailer(e)
    BY <1>1, <1>4 DEF Whole
  <2>4. (e.at + align4(e.len)) % 4 = 0
    BY <1>1, <2>2, AlignedSum
  <2>5. e.rm = FALSE /\ e.key = Key /\ e.val \in Values /\ KLen(e) = K
    BY <1>4, Shape DEF Sound
  <2>6. QED
    BY <1>1, <1>2, <1>4, <2>1, <2>2, <2>3, <2>4, <2>5
<1>5. QED
  BY <1>3, <1>4

LEMMA Place ==
    ASSUME Plain, NEW e, Sound(e)
    PROVE  /\ e.at \in Nat /\ e.len \in Nat /\ e.len >= 1 /\ End(e) \in Nat
           /\ e.at + e.len <= End(e) /\ End(e) <= Size - 4
<1>1. e.at \in Nat /\ Area(e) \in Nat /\ e.len \in 1 .. Area(e)
  BY Shape
<1>2. e.len \in Nat /\ e.len >= 1
  BY <1>1
<1>3. End(e) \in Nat /\ e.at + e.len <= End(e) /\ End(e) <= Size - 4
  BY Ends
<1>4. QED
  BY <1>1, <1>2, <1>3

LEMMA WordIs ==
    ASSUME Plain, NEW e, Sound(e)
    PROVE  /\ \A q \in 0 .. KLen(e) - 1 : Word(e)[q] = e.key[q + 1]
           /\ Word(e)[KLen(e)] = 0 /\ Word(e)[KLen(e) + 1] = VLen(e)
           /\ Word(e)[KLen(e) + 2] = 4 * KLen(e) /\ Word(e)[KLen(e) + 3] = e.ver
           /\ Word(e)[KLen(e) + 4] = EQ
           /\ \A i \in 1 .. VLen(e) : Word(e)[KLen(e) + 4 + i] = e.val[i]
           /\ Word(e)[KLen(e) + VLen(e) + 5] = 4 * KLen(e)
           /\ \A q \in KLen(e) + VLen(e) + 6 .. Area(e) - 1 : Word(e)[q] = 0
<1>1. e.key \in Seq(1 .. 254) /\ e.val \in Seq(0 .. 255) /\ SizeHi(e.key, e.val) = 4 * KLen(e)
  BY Shape
<1>2. VLen(e) % 256 = VLen(e)
  <2>1. VLen(e) \in 1 .. 63
    BY Shape
  <2>2. QED
    BY <2>1
<1>3. /\ \A q \in 0 .. KLen(e) - 1 : Word(e)[q] = e.key[q + 1]
      /\ Word(e)[KLen(e)] = 0 /\ Word(e)[KLen(e) + 1] = VLen(e) % 256
      /\ Word(e)[KLen(e) + 2] = SizeHi(e.key, e.val) /\ Word(e)[KLen(e) + 3] = e.ver
      /\ Word(e)[KLen(e) + 4] = EQ
      /\ \A i \in 1 .. VLen(e) : Word(e)[KLen(e) + 4 + i] = e.val[i]
      /\ Word(e)[KLen(e) + VLen(e) + 5] = SizeHi(e.key, e.val)
      /\ \A q \in KLen(e) + VLen(e) + 6 .. Area(e) - 1 : Word(e)[q] = 0
  <2> DEFINE B(k, v, r) ==
        LET b == Bytes(k, v, r) L == Len(k) V == Len(v)
        IN  /\ b = [i \in 0 .. MallocSize(k, v) - 1 |-> b[i]]
            /\ \A i \in 0 .. L - 1 : b[i] = k[i + 1]
            /\ b[L] = 0 /\ b[L + 1] = V % 256 /\ b[L + 2] = SizeHi(k, v)
            /\ b[L + 3] = r /\ b[L + 4] = EQ
            /\ \A i \in 1 .. V : b[L + 4 + i] = v[i]
            /\ b[L + V + 5] = SizeHi(k, v)
            /\ \A i \in L + V + 6 .. MallocSize(k, v) - 1 : b[i] = 0
  <2>1. \A k \in Seq(1 .. 254), v \in Seq(0 .. 255) : \A r : B(k, v, r)
    BY BytesAre
  <2> HIDE DEF B
  <2>2. B(e.key, e.val, e.ver)
    BY <1>1, <2>1
  <2>3. QED
    BY <2>2, Zenon DEF B, Word, KLen, VLen, Area
<1> DEFINE s == SizeHi(e.key, e.val)
           l == VLen(e) % 256
<1>4. s = 4 * KLen(e) /\ l = VLen(e)
  BY <1>1, <1>2
<1>5. /\ \A q \in 0 .. KLen(e) - 1 : Word(e)[q] = e.key[q + 1]
      /\ Word(e)[KLen(e)] = 0 /\ Word(e)[KLen(e) + 1] = l
      /\ Word(e)[KLen(e) + 2] = s /\ Word(e)[KLen(e) + 3] = e.ver
      /\ Word(e)[KLen(e) + 4] = EQ
      /\ \A i \in 1 .. VLen(e) : Word(e)[KLen(e) + 4 + i] = e.val[i]
      /\ Word(e)[KLen(e) + VLen(e) + 5] = s
      /\ \A q \in KLen(e) + VLen(e) + 6 .. Area(e) - 1 : Word(e)[q] = 0
  BY <1>3
<1> HIDE DEF s, l
<1>6. QED
  BY <1>4, <1>5, Zenon

(* A byte of a program, by its place in it. *)
LEMMA WordCases ==
    ASSUME Plain, NEW e, Sound(e), NEW q \in 0 .. Area(e) - 1
    PROVE  /\ Word(e)[q] \in 0 .. 255
           /\ q < KLen(e) => Word(e)[q] \in 1 .. 254 /\ Word(e)[q] # NL
           /\ Word(e)[q] = 0 => \/ q = KLen(e)
                                \/ q >= KLen(e) + VLen(e) + 6
                                \/ q >= KLen(e) + 5 /\ (e.val \in Values => VLen(e) <= 4)
<1> DEFINE k == KLen(e)
           v == VLen(e)
           A == Area(e)
           b == Word(e)[q]
<1>1. k \in 1 .. 63 /\ v \in 1 .. 63 /\ A \in Nat /\ k + v + 6 <= A /\ e.ver \in 1 .. 255
  BY Shape
<1>2. CASE q < k
  <2>1. b = e.key[q + 1] /\ q + 1 \in 1 .. k
    <3>1. q \in 0 .. k - 1 /\ q + 1 \in 1 .. k
      <4> HIDE DEF k
      <4>1. QED
        BY <1>1, <1>2
    <3>2. QED
      BY <3>1, WordIs
  <2>2. b \in 1 .. 254 /\ b # NL
    <3>1. \A i \in 1 .. k : e.key[i] \in 1 .. 254 /\ e.key[i] # NL
      BY Shape
    <3>2. QED
      BY <2>1, <3>1
  <2> HIDE DEF b, k
  <2>3. QED
    BY <2>2, <1>2 DEF b, k
<1>3. CASE q >= k + 5 /\ q <= k + v + 4
  <2>1. q - k - 4 \in 1 .. v /\ k + 4 + (q - k - 4) = q
    <3> HIDE DEF k, v
    <3>1. QED
      BY <1>1, <1>3
  <2>2. b = e.val[q - k - 4]
    BY <2>1, WordIs
  <2>3. e.val \in Seq(0 .. 255) /\ q - k - 4 \in 1 .. Len(e.val)
    BY <2>1, Shape DEF VLen
  <2>4. b \in 0 .. 255
    BY <2>2, <2>3, ElementOfSeq
  <2>5. b = 0 => (e.val \in Values => v <= 4)
    BY <2>2, <2>3, ValueOf DEF VLen
  <2>6. ~(q < k)
    <3> HIDE DEF k, v
    <3>1. QED
      BY <1>1, <1>3
  <2> HIDE DEF b, k, v
  <2>7. QED
    BY <2>4, <2>5, <2>6, <1>3 DEF b, k, v
<1>4. CASE q >= k /\ ~(q >= k + 5 /\ q <= k + v + 4)
  <2>1. \/ q = k \/ q = k + 1 \/ q = k + 2 \/ q = k + 3 \/ q = k + 4
        \/ q = k + v + 5 \/ q \in k + v + 6 .. A - 1
    <3> HIDE DEF k, v, A
    <3>1. QED
      BY <1>1, <1>4 DEF A
  <2>2. /\ q = k => b = 0
        /\ q = k + 1 => b = v
        /\ q = k + 2 => b = 4 * k
        /\ q = k + 3 => b = e.ver
        /\ q = k + 4 => b = EQ
        /\ q = k + v + 5 => b = 4 * k
        /\ q \in k + v + 6 .. A - 1 => b = 0
    BY WordIs
  <2>3. e.ver \in 1 .. 255 /\ v \in 1 .. 63 /\ 4 * k \in 1 .. 255 /\ EQ \in 1 .. 255
    <3> HIDE DEF k, v, A
    <3>1. QED
      BY <1>1 DEF EQ
  <2> HIDE DEF b, k, v, A
  <2>4. b \in 0 .. 255 /\ (b = 0 => q = k \/ q \in k + v + 6 .. A - 1)
    BY <2>1, <2>2, <2>3
  <2>5. q \in k + v + 6 .. A - 1 => q >= k + v + 6
    BY <1>1
  <2>6. ~(q < k)
    BY <1>1, <1>4
  <2>7. QED
    BY <2>4, <2>5, <2>6 DEF b, k, v
<1>5. QED
  <2>1. q < k \/ q >= k
    <3> HIDE DEF k
    <3>1. QED
      BY <1>1
  <2>2. QED
    BY <1>2, <1>3, <1>4, <2>1

-----------------------------------------------------------------------------
(* The bytes of the block.                                                 *)

LEMMA ByteAt ==
    ASSUME Plain, LogSound, Image, NEW e \in log, NEW i \in Int, e.at <= i, i < End(e)
    PROVE  /\ i \in 0 .. Size - 5 /\ At(i) = mem[i]
           /\ i < e.at + e.len => At(i) = Word(e)[i - e.at] /\ i - e.at \in 0 .. Area(e) - 1
           /\ i >= e.at + e.len => At(i) = IF e.rm /\ i >= End(e) - 4 THEN 0 ELSE Blank
<1>1. Sound(e)
  BY DEF LogSound
<1>2. e.at \in Nat /\ End(e) \in Nat /\ End(e) <= Size - 4 /\ Size \in Nat
  BY <1>1, Shape, Ends, Constants
<1>3. i \in 0 .. Size - 5 /\ i \in 0 .. Size - 1 /\ i \in e.at .. End(e) - 1
  BY <1>2
<1>4. At(i) = mem[i] /\ mem[i] = ByteOf(e, i)
  BY <1>3 DEF At, Image
<1>5. i < e.at + e.len => i - e.at \in 0 .. Area(e) - 1
  <2>1. e.len \in 1 .. Area(e) /\ Area(e) \in Nat
    BY <1>1, Shape
  <2>2. QED
    BY <1>2, <2>1
<1>6. i < e.at + e.len => At(i) = Word(e)[i - e.at]
  BY <1>4 DEF ByteOf, Word
<1>7. i >= e.at + e.len => At(i) = IF e.rm /\ i >= End(e) - 4 THEN 0 ELSE Blank
  <2>1. e.len \in Nat
    BY <1>1, Shape
  <2>2. i >= e.at + e.len => ~(i < e.at + e.len)
    BY <1>2, <2>1
  <2>3. QED
    BY <1>4, <2>2 DEF ByteOf
<1>8. QED
  BY <1>3, <1>4, <1>5, <1>6, <1>7

LEMMA AtBlank ==
    ASSUME Image, NEW i \in Int, \A e \in log : i < e.at \/ End(e) <= i
    PROVE  At(i) = Blank
  BY DEF At, Image

LEMMA Covered ==
    ASSUME Plain, LogSound, Image, NEW i \in Int, At(i) # Blank
    PROVE  \E e \in log : e.at <= i /\ i < End(e)
<1>1. PICK e \in log : ~(i < e.at) /\ ~(End(e) <= i)
  BY AtBlank
<1>2. Sound(e)
  BY DEF LogSound
<1>3. e.at \in Nat /\ End(e) \in Nat
  BY <1>2, Shape, Ends
<1>4. QED
  BY <1>1, <1>3

LEMMA AtByte ==
    ASSUME Image, NEW i
    PROVE  At(i) \in 0 .. 255
<1>1. CASE i \in 0 .. Size - 1
  <2>1. mem[i] \in 0 .. 255
    BY <1>1 DEF Image
  <2>2. QED
    BY <1>1, <2>1 DEF At
<1>2. CASE i \notin 0 .. Size - 1
  BY <1>2 DEF At, Blank
<1>3. QED
  BY <1>1, <1>2

(* Behind what is left of a torn write there is no '=' and no trailer as   *)
(* far as its own would have been.                                         *)
LEMMA Beyond ==
    ASSUME Plain, LogSound, Image, NEW e \in log, ~Whole(e), NEW p \in Int,
           e.at + e.len <= p, p <= End(e) + K \/ p <= End(e) + 4
    PROVE  At(p) \notin {EQ, 4 * K}
<1>1. Sound(e)
  BY DEF LogSound
<1>2. K \in 3 .. 63
  BY Constants
<1>3. 0 \notin {EQ, 4 * K} /\ Blank \notin {EQ, 4 * K}
  BY <1>2 DEF EQ, Blank
<1>4. e.at \in Nat /\ e.len \in Nat /\ e.len >= 1 /\ End(e) \in Nat /\ e.at + e.len <= End(e)
  BY <1>1, Place
<1>5. CASE p < End(e)
  <2>1. e.at <= p
    BY <1>4
  <2>2. At(p) = 0 \/ At(p) = Blank
    BY <1>4, <1>5, <2>1, ByteAt
  <2>3. QED
    BY <1>3, <2>2
<1>6. CASE p >= End(e) /\ At(p) # Blank
  <2>1. PICK f \in log : f.at <= p /\ p < End(f)
    BY <1>6, Covered
  <2>2. Sound(f)
    BY DEF LogSound
  <2>3. f.at \in Nat /\ f.len \in Nat /\ End(f) \in Nat
    BY <2>2, Place
  <2>4. End(e) <= f.at
    <3>1. e # f
      BY <1>4, <1>6, <2>1, <2>3
    <3>2. End(e) <= f.at \/ End(f) <= e.at
      BY <3>1 DEF LogSound
    <3>3. ~(End(f) <= e.at)
      BY <1>4, <1>6, <2>1, <2>3
    <3>4. QED
      BY <3>2, <3>3
  <2>5. f.at # 0
    BY <1>4, <2>3, <2>4
  <2>6. f.key = Key /\ KLen(f) = K /\ f.val \in Values
    BY <2>2, <2>5, Shape
  <2>7. CASE p >= f.at + f.len
    <3>1. At(p) = 0 \/ At(p) = Blank
      BY <2>1, <2>7, ByteAt
    <3>2. QED
      BY <1>3, <3>1
  <2>8. CASE p < f.at + f.len
    <3> DEFINE q == p - f.at
    <3>1. At(p) = Word(f)[q] /\ q \in 0 .. Area(f) - 1
      BY <2>1, <2>8, ByteAt
    <3>2. q \in Nat /\ (q <= K \/ q <= 4)
      BY <1>2, <1>4, <2>1, <2>3, <2>4
    <3> HIDE DEF q
    <3>3. q < K \/ q = K \/ (q = K + 1 /\ K = 3)
      BY <1>2, <3>2
    <3>4. CASE q < K
      <4>1. q \in 0 .. KLen(f) - 1 /\ q + 1 \in 1 .. K
        BY <1>2, <3>2, <3>4, <2>6
      <4>2. Word(f)[q] = f.key[q + 1]
        BY <2>2, <4>1, WordIs
      <4>3. Key[q + 1] \notin {NL, EQ, 4 * K}
        BY <4>1, Constants
      <4>4. QED
        BY <2>6, <3>1, <4>2, <4>3
    <3>5. CASE q = K
      <4>1. Word(f)[q] = 0
        BY <2>2, <2>6, <3>5, WordIs
      <4>2. QED
        BY <1>3, <3>1, <4>1
    <3>6. CASE q = K + 1 /\ K = 3
      <4>1. Word(f)[q] = VLen(f)
        BY <2>2, <2>6, <3>6, WordIs
      <4>2. VLen(f) \in 1 .. 63 /\ (VLen(f) <= K \/ VLen(f) <= 4)
        BY <2>6, ValueOf DEF VLen
      <4> DEFINE v == VLen(f)
      <4> HIDE DEF v
      <4>3. v \in 1 .. 63 /\ (v <= K \/ v <= 4)
        BY <4>2 DEF v
      <4>4. v # EQ /\ v # 4 * K
        BY <4>3, <3>6 DEF EQ
      <4>5. QED
        BY <3>1, <4>1, <4>4 DEF v
    <3>7. QED
      BY <3>3, <3>4, <3>5, <3>6
  <2>9. QED
    BY <2>3, <2>7, <2>8
<1>7. CASE At(p) = Blank
  BY <1>3, <1>7
<1>8. QED
  BY <1>4, <1>5, <1>6, <1>7

(* A torn write holds no node. *)
LEMMA TornIsNoNode ==
    ASSUME Plain, LogSound, Image, NEW e \in log, ~Whole(e), NEW c \in Int,
           e.at <= c, c < End(e)
    PROVE  ~IsNode(c)
<1>1. SUFFICES ASSUME IsNode(c) PROVE FALSE
  OBVIOUS
<1>2. Sound(e)
  BY DEF LogSound
<1> DEFINE a == e.at
           n == e.len
           q == c - e.at
           v == VLen(e)
<1>3. KLen(e) = K /\ e.val \in Values /\ e.key = Key /\ e.rm = FALSE
  BY <1>2, Ends
<1>4. /\ a \in Nat /\ n \in Nat /\ n >= 1 /\ v \in 1 .. 63 /\ K \in 3 .. 63
      /\ a + n <= a + K + v + 5
  <2>1. a \in Nat /\ n \in Nat /\ n >= 1 /\ v \in 1 .. 63 /\ K \in 3 .. 63
    <3>1. a \in Nat /\ n \in Nat /\ n >= 1
      BY <1>2, Place
    <3>2. v \in 1 .. 63
      BY <1>2, Shape
    <3>3. K \in 3 .. 63
      BY Constants
    <3> HIDE DEF a, n, v
    <3>4. QED
      BY <3>1, <3>2, <3>3
  <2>2. Trailer(e) = a + KLen(e) + v + 5 /\ a + n <= Trailer(e)
    BY <1>2, Shape, Ends
  <2>3. QED
    BY <1>3, <2>2, <2>1
<1>5. End(e) \in Nat /\ a + n <= End(e)
  BY <1>2, Ends
<1>6. At(c) = 0 /\ At(c + 4) = EQ /\ At(c + 2) = At(c + ValSizeAt(c) + 5)
  BY <1>1 DEF IsNode, RW_FLAG_SIZE
<1>7. c < a + n
  <2>1. SUFFICES ASSUME c >= a + n PROVE FALSE
    BY <1>4
  <2>2. At(c) = Blank
    BY <2>1, <1>3, ByteAt
  <2>3. QED
    BY <1>6, <2>2 DEF Blank
<1>8. At(c) = Word(e)[q] /\ q \in 0 .. Area(e) - 1
  BY <1>7, ByteAt
<1>9. q = K \/ q >= K + v + 6 \/ (q >= K + 5 /\ v <= 4)
  <2>1. \/ q = KLen(e) \/ q >= KLen(e) + v + 6
        \/ q >= KLen(e) + 5 /\ (e.val \in Values => v <= 4)
    <3>1. \A x \in 0 .. Area(e) - 1 :
             Word(e)[x] = 0 => \/ x = KLen(e)
                               \/ x >= KLen(e) + VLen(e) + 6
                               \/ x >= KLen(e) + 5 /\ (e.val \in Values => VLen(e) <= 4)
      BY <1>2, WordCases
    <3>2. Word(e)[q] = 0
      BY <1>6, <1>8
    <3> HIDE DEF q
    <3>3. QED
      BY <3>1, <3>2, <1>8
  <2> HIDE DEF q, v
  <2>2. QED
    BY <2>1, <1>3
<1>10. c = a + q /\ q \in Nat /\ q < n
  <2>1. c \in Int /\ a <= c
    OBVIOUS
  <2> HIDE DEF a, n
  <2>2. c = a + (c - a) /\ c - a \in Nat /\ c - a < n
    BY <2>1, <1>4, <1>7
  <2>3. QED
    BY <2>2 DEF a
<1> DEFINE E == End(e)
<1>11. c + 4 < a + n
  <2>1. SUFFICES ASSUME c + 4 >= a + n PROVE FALSE
    <3> HIDE DEF a, n, q, v
    <3>1. QED
      BY <1>4
  <2>2. c + 4 \in Int /\ c + 4 <= E + 4
    <3> HIDE DEF a, n, q, v, E
    <3>1. QED
      BY <1>4, <1>5, <1>7 DEF E
  <2>3. At(c + 4) \notin {EQ, 4 * K}
    <3>1. e.at + e.len <= c + 4
      <4>1. a + n <= c + 4
        <5> HIDE DEF a, n
        <5>1. QED
          BY <1>4, <2>1
      <4>2. QED
        BY <4>1
    <3>2. QED
      BY <2>2, <3>1, Beyond
  <2>4. QED
    BY <1>6, <2>3
<1>12. q = K
  <2> HIDE DEF a, n, q, v, E
  <2>1. QED
    BY <1>4, <1>9, <1>10, <1>11
<1>13. ValSizeAt(c) = v /\ At(c + 2) = 4 * K
  <2>1. At(c + 1) = Word(e)[K + 1] /\ At(c + 2) = Word(e)[K + 2]
    <3> DEFINE x == c + 1
               y == c + 2
    <3>1. E \in Nat /\ a + n <= E
      BY <1>5
    <3>2. \A i \in Int : a <= i /\ i < E => (i < a + n => At(i) = Word(e)[i - a])
      BY ByteAt
    <3>3. /\ x \in Int /\ y \in Int /\ a <= x /\ a <= y /\ x < E /\ y < E
          /\ x < a + n /\ y < a + n /\ x - a = K + 1 /\ y - a = K + 2
      <4> HIDE DEF a, n, q, v, E
      <4>1. QED
        BY <1>4, <3>1, <1>10, <1>11, <1>12
    <3> HIDE DEF a, n, E, x, y
    <3>4. At(x) = Word(e)[K + 1] /\ At(y) = Word(e)[K + 2]
      BY <3>2, <3>3
    <3>5. QED
      BY <3>4 DEF x, y
  <2>2. Word(e)[K + 1] = v /\ Word(e)[K + 2] = 4 * K
    BY <1>2, <1>3, WordIs
  <2>3. At(c + 1) = v /\ At(c + 2) = 4 * K
    BY <2>1, <2>2
  <2>4. v + 256 * ((4 * K) % 4) = v
    <3> HIDE DEF v
    <3>1. QED
      BY <1>4
  <2>5. QED
    BY <2>3, <2>4 DEF ValSizeAt
<1>14. At(c + v + 5) = 4 * K
  BY <1>6, <1>13
<1>15. c + v + 5 \in Int /\ a + n <= c + v + 5 /\ c + v + 5 <= E + v
  <2> HIDE DEF a, n, q, v
  <2>1. QED
    BY <1>4, <1>5, <1>10, <1>11, <1>12
<1>16. v <= K \/ v <= 4
  BY <1>3, ValueOf DEF VLen
<1>17. c + v + 5 <= E + K \/ c + v + 5 <= E + 4
  <2> HIDE DEF a, n, q, v
  <2>1. E \in Nat
    BY <1>5
  <2> HIDE DEF E
  <2>2. QED
    BY <1>4, <1>15, <1>16, <2>1
<1>18. At(c + v + 5) \notin {EQ, 4 * K}
  <2>1. e.at + e.len <= c + v + 5
    BY <1>15
  <2> DEFINE p == c + v + 5
  <2>2. p \in Int /\ e.at + e.len <= p /\ (p <= End(e) + K \/ p <= End(e) + 4)
    BY <1>15, <2>1, <1>17
  <2> HIDE DEF p
  <2>3. At(p) \notin {EQ, 4 * K}
    BY <2>2, Beyond
  <2>4. QED
    BY <2>3 DEF p
<1>19. QED
  BY <1>14, <1>18

(* Every node the search can meet lies in a program that is whole, behind   *)
(* its key.                                                                *)
LEMMA NoFake ==
    ASSUME Plain, LogSound, Image, NEW c \in Int, IsNode(c)
    PROVE  \E e \in log : Whole(e) /\ Nul(e) <= c /\ c < End(e)
<1>1. At(c) = 0
  BY DEF IsNode
<1>2. PICK e \in log : e.at <= c /\ c < End(e)
  BY <1>1, Covered DEF Blank
<1>3. Sound(e)
  BY DEF LogSound
<1>4. Whole(e)
  BY <1>2, TornIsNoNode
<1>5. Nul(e) <= c
  <2> DEFINE k == KLen(e)
             a == e.at
  <2>1. Nul(e) = a + k /\ a \in Nat /\ k \in 1 .. 63 /\ e.len \in Nat
    BY <1>3, Shape
  <2>2. a + k <= a + e.len
    <3>1. Trailer(e) < a + e.len /\ Trailer(e) = a + k + VLen(e) + 5 /\ VLen(e) \in 1 .. 63
      BY <1>3, <1>4, Ends, Shape
    <3> HIDE DEF a, k
    <3>2. QED
      BY <2>1, <3>1
  <2>3. SUFFICES ASSUME c < a + k PROVE FALSE
    <3> HIDE DEF a, k
    <3>1. QED
      BY <2>1
  <2>4. c < a + e.len /\ c - a \in Nat /\ c - a < k
    <3>1. a <= c
      BY <1>2
    <3> HIDE DEF a, k
    <3>2. QED
      BY <2>1, <2>2, <2>3, <3>1
  <2>5. At(c) = Word(e)[c - a] /\ c - a \in 0 .. Area(e) - 1
    BY <1>2, <2>4, ByteAt
  <2>6. Word(e)[c - a] \in 1 .. 254
    BY <1>3, <2>4, <2>5, WordCases
  <2>7. QED
    BY <1>1, <2>5, <2>6
<1>6. QED
  BY <1>2, <1>4, <1>5

-----------------------------------------------------------------------------
(* The search.                                                             *)

(* What a whole program looks like in the block, from the zero behind its   *)
(* key on.                                                                 *)
LEMMA WholeBytes ==
    ASSUME Plain, LogSound, Image, NEW e \in log, Whole(e)
    PROVE  /\ \A i \in 1 .. KLen(e) : At(e.at + i - 1) = e.key[i]
           /\ At(Nul(e)) = 0 /\ At(Nul(e) + 1) = VLen(e) /\ At(Nul(e) + 2) = 4 * KLen(e)
           /\ At(Nul(e) + 3) = e.ver /\ At(Nul(e) + 4) = EQ
           /\ \A i \in 1 .. VLen(e) : At(Nul(e) + RW_FLAG_SIZE + i - 1) = e.val[i]
           /\ At(Nul(e) + VLen(e) + RW_FLAG_SIZE) = 4 * KLen(e)
           /\ \A i \in 1 .. 4 : At(End(e) - i) = IF e.rm THEN 0 ELSE Blank
<1> DEFINE a == e.at
           n == e.len
           k == KLen(e)
           v == VLen(e)
           A == Area(e)
           E == End(e)
           N == Nul(e)
<1>1. Sound(e)
  BY DEF LogSound
<1>2. /\ a \in Nat /\ n \in Nat /\ k \in 1 .. 63 /\ v \in 1 .. 63 /\ A \in Nat /\ k + v + 6 <= A
      /\ E = a + A + 4 /\ N = a + k /\ a + k + v + 5 < a + n /\ n <= A
  <2>1. a \in Nat /\ k \in 1 .. 63 /\ v \in 1 .. 63 /\ A \in Nat /\ k + v + 6 <= A /\ N = a + k
    BY <1>1, Shape
  <2>2. n \in Nat
    BY <1>1, Place
  <2>3. E = a + A + 4 /\ Trailer(e) < a + n /\ Trailer(e) = a + k + v + 5
    BY <1>1, Shape, Ends
  <2>4. n <= A
    <3>1. n \in 1 .. A
      BY <1>1, Shape
    <3> HIDE DEF n, A
    <3>2. QED
      BY <3>1, <2>1
  <2>5. QED
    BY <2>1, <2>2, <2>3, <2>4
<1>3. \A i \in Int : a <= i /\ i < E => (i < a + n => At(i) = Word(e)[i - a])
  BY ByteAt
<1>0. \A i \in Int : a <= i /\ i < E =>
         (i >= a + n => At(i) = IF e.rm /\ i >= E - 4 THEN 0 ELSE Blank)
  BY ByteAt
<1>4. \A x \in 0 .. k + v + 5 : At(a + x) = Word(e)[x]
  <2> HIDE DEF a, n, k, v, A, E
  <2>1. SUFFICES ASSUME NEW x \in 0 .. k + v + 5 PROVE At(a + x) = Word(e)[x]
    OBVIOUS
  <2> DEFINE y == a + x
  <2>2. y \in Int /\ a <= y /\ y < E /\ y < a + n /\ y - a = x
    BY <1>2
  <2> HIDE DEF y
  <2>3. At(y) = Word(e)[x]
    BY <1>3, <2>2
  <2>4. QED
    BY <2>3 DEF y
<1>5. \A i \in 1 .. 4 : At(E - i) = IF e.rm THEN 0 ELSE Blank
  <2> HIDE DEF a, n, k, v, A, E
  <2>1. SUFFICES ASSUME NEW i \in 1 .. 4 PROVE At(E - i) = IF e.rm THEN 0 ELSE Blank
    OBVIOUS
  <2> DEFINE y == E - i
  <2>2. y \in Int /\ a <= y /\ y < E /\ y >= a + n /\ y >= E - 4
    BY <1>2
  <2> HIDE DEF y
  <2>3. At(y) = IF e.rm THEN 0 ELSE Blank
    <3>1. At(y) = IF e.rm /\ y >= E - 4 THEN 0 ELSE Blank
      BY <1>0, <2>2
    <3>2. QED
      BY <2>2, <3>1
  <2>4. QED
    BY <2>3 DEF y
<1>6. /\ \A q \in 0 .. k - 1 : Word(e)[q] = e.key[q + 1]
      /\ Word(e)[k] = 0 /\ Word(e)[k + 1] = v
      /\ Word(e)[k + 2] = 4 * k /\ Word(e)[k + 3] = e.ver
      /\ Word(e)[k + 4] = EQ
      /\ \A i \in 1 .. v : Word(e)[k + 4 + i] = e.val[i]
      /\ Word(e)[k + v + 5] = 4 * k
  BY <1>1, WordIs
<1>7. \A i \in 1 .. k : At(a + i - 1) = e.key[i]
  <2> HIDE DEF a, n, k, v, A, E
  <2>1. SUFFICES ASSUME NEW i \in 1 .. k PROVE At(a + i - 1) = e.key[i]
    OBVIOUS
  <2> DEFINE x == i - 1
  <2>2. x \in 0 .. k + v + 5 /\ x \in 0 .. k - 1 /\ a + i - 1 = a + x /\ x + 1 = i
    BY <1>2
  <2> HIDE DEF x
  <2>3. At(a + x) = Word(e)[x] /\ Word(e)[x] = e.key[x + 1]
    BY <1>4, <1>6, <2>2
  <2>4. QED
    BY <2>2, <2>3
<1>8. /\ At(N) = 0 /\ At(N + 1) = v /\ At(N + 2) = 4 * k
      /\ At(N + 3) = e.ver /\ At(N + 4) = EQ
      /\ At(N + v + 5) = 4 * k
  <2> HIDE DEF a, n, k, v, A, E, N
  <2>1. /\ N = a + k /\ N + 1 = a + (k + 1) /\ N + 2 = a + (k + 2) /\ N + 3 = a + (k + 3)
        /\ N + 4 = a + (k + 4) /\ N + v + 5 = a + (k + v + 5)
    BY <1>2
  <2>2. /\ k \in 0 .. k + v + 5 /\ k + 1 \in 0 .. k + v + 5 /\ k + 2 \in 0 .. k + v + 5
        /\ k + 3 \in 0 .. k + v + 5 /\ k + 4 \in 0 .. k + v + 5 /\ k + v + 5 \in 0 .. k + v + 5
    BY <1>2
  <2>3. At(N) = 0 /\ At(N + 1) = v /\ At(N + 2) = 4 * k
    BY <2>1, <2>2, <1>4, <1>6
  <2>4. At(N + 3) = e.ver /\ At(N + 4) = EQ /\ At(N + v + 5) = 4 * k
    BY <2>1, <2>2, <1>4, <1>6
  <2>5. QED
    BY <2>3, <2>4
<1>9. \A i \in 1 .. v : At(N + 5 + i - 1) = e.val[i]
  <2> HIDE DEF a, n, k, v, A, E, N
  <2>1. SUFFICES ASSUME NEW i \in 1 .. v PROVE At(N + 5 + i - 1) = e.val[i]
    OBVIOUS
  <2> DEFINE x == k + 4 + i
  <2>2. x \in 0 .. k + v + 5 /\ N + 5 + i - 1 = a + x
    BY <1>2
  <2>3. Word(e)[x] = e.val[i]
    BY <1>6
  <2> HIDE DEF x
  <2>4. At(a + x) = Word(e)[x]
    BY <1>4, <2>2
  <2>5. QED
    BY <2>2, <2>3, <2>4
<1> HIDE DEF a, n, k, v, A, E, N
<1>10. QED
  BY <1>5, <1>7, <1>8, <1>9 DEF a, k, v, E, N, RW_FLAG_SIZE

LEMMA WholeIsNode ==
    ASSUME Plain, LogSound, Image, NEW e \in log, Whole(e)
    PROVE  /\ Nul(e) \in e.at + 1 .. End(e) - 1 /\ Nul(e) \in 0 .. Size - 2
           /\ IsNode(Nul(e)) /\ NodeAt(Nul(e)) = NodeOf(e)
<1> DEFINE a == e.at
           k == KLen(e)
           v == VLen(e)
           A == Area(e)
           E == End(e)
           N == Nul(e)
<1>1. Sound(e)
  BY DEF LogSound
<1>2. /\ a \in Nat /\ k \in 1 .. 63 /\ v \in 1 .. 63 /\ A \in Nat /\ k + v + 6 <= A
      /\ E = a + A + 4 /\ N = a + k /\ Size \in Nat /\ E <= Size - 4
  <2>1. a \in Nat /\ k \in 1 .. 63 /\ v \in 1 .. 63 /\ A \in Nat /\ k + v + 6 <= A /\ N = a + k
    BY <1>1, Shape
  <2>2. E = a + A + 4 /\ E <= Size - 4
    BY <1>1, Ends
  <2>3. Size \in Nat
    BY Constants
  <2> HIDE DEF a, k, v, A, E, N
  <2>4. QED
    BY <2>1, <2>2, <2>3
<1>3. /\ At(N) = 0 /\ At(N + 1) = v /\ At(N + 2) = 4 * k
      /\ At(N + 3) = e.ver /\ At(N + 4) = EQ /\ At(N + v + RW_FLAG_SIZE) = 4 * k
  BY WholeBytes
<1>4. ValSizeAt(N) = v /\ KeySizeAt(N) = k
  <2> HIDE DEF a, k, v, A, E, N
  <2>1. v + 256 * ((4 * k) % 4) = v /\ (4 * k) \div 4 = k
    BY <1>2
  <2>2. QED
    BY <1>3, <2>1 DEF ValSizeAt, KeySizeAt
<1>5. N - k = a /\ N + v < Size /\ N - k >= 0 /\ N \in a + 1 .. E - 1 /\ N \in 0 .. Size - 2
  <2> HIDE DEF a, k, v, A, E, N
  <2>1. QED
    BY <1>2
<1>6. IsNode(N)
  <2>1. At(N + 2) = At(N + v + RW_FLAG_SIZE)
    BY <1>3
  <2>2. QED
    BY <1>3, <1>4, <1>5, <2>1 DEF IsNode
<1>7. NodeAt(N) = NodeOf(e)
  <2>1. e.key = [i \in 1 .. k |-> At(a + i - 1)]
    <3>1. e.key = [i \in 1 .. k |-> e.key[i]]
      <4>1. e.key \in Seq(1 .. 254)
        BY <1>1, Shape
      <4>2. QED
        BY <4>1 DEF KLen
    <3>2. \A i \in 1 .. k : At(a + i - 1) = e.key[i]
      BY WholeBytes
    <3> HIDE DEF a, k
    <3>3. QED
      BY <3>1, <3>2
  <2>2. e.val = [i \in 1 .. v |-> At(N + RW_FLAG_SIZE + i - 1)]
    <3>1. e.val = [i \in 1 .. v |-> e.val[i]]
      <4>1. e.val \in Seq(0 .. 255)
        BY <1>1, Shape
      <4>2. QED
        BY <4>1 DEF VLen
    <3>2. \A i \in 1 .. v : At(N + RW_FLAG_SIZE + i - 1) = e.val[i]
      BY WholeBytes
    <3> HIDE DEF a, k, N, v
    <3>3. QED
      BY <3>1, <3>2
  <2> DEFINE ns == align4(k + v + RW_FLAG_SIZE + 1) + 4
  <2>3. a + ns = E /\ ns \in Nat
    <3>1. ns = A + 4
      BY DEF Area, MallocSize, KLen, VLen
    <3> HIDE DEF a, k, v, A, E, N, ns
    <3>2. QED
      BY <1>2, <3>1
  <2>4. (\E i \in 1 .. 4 : At(E - i) # 0) = ~e.rm
    <3>1. \A i \in 1 .. 4 : At(E - i) = IF e.rm THEN 0 ELSE Blank
      BY WholeBytes
    <3>2. CASE e.rm
      BY <3>1, <3>2
    <3>3. CASE ~e.rm
      <4>1. At(E - 1) # 0
        BY <3>1, <3>3 DEF Blank
      <4>2. \E i \in 1 .. 4 : At(E - i) # 0
        BY <4>1
      <4>3. QED
        BY <4>2, <3>3, Zenon
    <3>5. QED
      BY <3>2, <3>3, Zenon
  <2> DEFINE R(h, r) ==
        [head |-> h, key |-> [i \in 1 .. k |-> At(h + i - 1)],
         val |-> [i \in 1 .. v |-> At(N + RW_FLAG_SIZE + i - 1)],
         ver |-> r, next |-> h + ns, rw |-> TRUE, live |-> \E i \in 1 .. 4 : At(h + ns - i) # 0]
  <2>5. NodeAt(N) = R(N - k, At(N + 3))
    <3> DEFINE w(ks, vs) == align4(ks + vs + RW_FLAG_SIZE + 1) + 4
               G(ks, vs) ==
                 [head |-> N - ks, key |-> [i \in 1 .. ks |-> At(N - ks + i - 1)],
                  val |-> [i \in 1 .. vs |-> At(N + RW_FLAG_SIZE + i - 1)],
                  ver |-> At(N + 3), next |-> N - ks + w(ks, vs), rw |-> TRUE,
                  live |-> \E i \in 1 .. 4 : At(N - ks + w(ks, vs) - i) # 0]
    <3>1. NodeAt(N) = G(KeySizeAt(N), ValSizeAt(N))
      BY DEF NodeAt
    <3>2. G(k, v) = R(N - k, At(N + 3))
      OBVIOUS
    <3> HIDE DEF G, a, k, v, A, E, N, ns, R
    <3>3. QED
      BY <1>4, <3>1, <3>2
  <2>6. NodeAt(N) = R(a, e.ver)
    <3> HIDE DEF a, k, v, A, E, N, ns, R
    <3>1. QED
      BY <1>3, <1>5, <2>3, <2>5
  <2>8. R(a, e.ver) = [head |-> a, key |-> e.key, val |-> e.val,
                          ver |-> e.ver, next |-> E, rw |-> TRUE, live |-> ~e.rm]
    <3> HIDE DEF a, k, v, A, E, N, ns
    <3>2. \A i \in 1 .. 4 : a + ns - i = E - i
      BY <1>2, <2>3
    <3>3. (\E i \in 1 .. 4 : At(a + ns - i) # 0) = (\E i \in 1 .. 4 : At(E - i) # 0)
      BY <3>2
    <3>4. QED
      BY <2>1, <2>2, <2>3, <2>4, <3>3
  <2>7. QED
    BY <2>6, <2>8 DEF NodeOf
<1>8. QED
  BY <1>5, <1>6, <1>7

Found(o) ==
    {c \in FirstByte(o) .. Size - 2 :
        IsNode(c) \/ (At(c) = NL /\ \E d \in FirstByte(o) .. c : IsText(d, c))}

LEMMA FirstByteIs ==
    ASSUME Plain, NEW o \in Nat
    PROVE  /\ FirstByte(o) \in Nat /\ FirstByte(o) <= Size
           /\ o <= FirstByte(o) \/ FirstByte(o) = Size
           /\ \A i \in o .. Size - 1 : At(i) # 0 => FirstByte(o) <= i
<1> DEFINE S == {Size} \cup {i \in o .. Size - 1 : At(i) # 0}
<1>1. Size \in Nat
  BY Constants
<1>2. S \in SUBSET Nat /\ S # {} /\ Size \in S
  BY <1>1
<1>3. FirstByte(o) = Min(S)
  BY DEF FirstByte
<1>4. \A x \in S : o <= x \/ x = Size
  BY <1>1
<1>5. \A i \in o .. Size - 1 : At(i) # 0 => i \in S
  OBVIOUS
<1> HIDE DEF S
<1>6. Min(S) \in S /\ \A x \in S : Min(S) <= x
  BY <1>2, MinOf
<1>7. QED
  BY <1>2, <1>3, <1>4, <1>5, <1>6

(* The search returns the first hit, if there is one. *)
LEMMA SearchIs ==
    ASSUME Plain, NEW o \in Nat
    PROVE  \/ Found(o) = {} /\ kvblock_search(o) = None
           \/ \E c \in Found(o) :
                /\ \A x \in Found(o) : c <= x
                /\ \/ IsNode(c) /\ kvblock_search(o) = NodeAt(c)
                   \/ /\ ~IsNode(c) /\ At(c) = NL
                      /\ \E d : kvblock_search(o) = TextAt(c, FirstByte(o), d)
<1> DEFINE S == Found(o)
           c == Min(S)
           s == FirstByte(o)
<1>1. kvblock_search(o) = IF S = {} THEN None
                          ELSE IF IsNode(c) THEN NodeAt(c)
                          ELSE TextAt(c, s, CHOOSE d \in s .. c : IsText(d, c))
  BY DEF kvblock_search, Found
<1>2. CASE S = {}
  BY <1>1, <1>2
<1>3. CASE S # {}
  <2>1. S \in SUBSET Nat
    <3>1. s \in Nat /\ Size \in Nat
      BY FirstByteIs, Constants
    <3>2. QED
      BY <3>1 DEF Found
  <2>2. c \in S /\ \A x \in S : c <= x
    <3> HIDE DEF S
    <3>1. QED
      BY <2>1, <1>3, MinOf
  <2>3. ~IsNode(c) => At(c) = NL
    BY <2>2 DEF Found
  <2> HIDE DEF S, c, s
  <2>4. CASE IsNode(c)
    BY <1>1, <1>3, <2>2, <2>4 DEF S
  <2>5. CASE ~IsNode(c)
    <3>1. kvblock_search(o) = TextAt(c, s, CHOOSE d \in s .. c : IsText(d, c))
      BY <1>1, <1>3, <2>5
    <3>2. \E d : kvblock_search(o) = TextAt(c, s, d)
      BY <3>1
    <3>3. QED
      BY <2>2, <2>3, <2>5, <3>2 DEF S, s
  <2>6. QED
    BY <2>4, <2>5
<1>4. QED
  BY <1>2, <1>3

(* It goes forward, and no node ends far behind the block. *)
LEMMA SearchForward ==
    ASSUME Plain, Image, NEW o \in Nat, o <= Size + 12, kvblock_search(o) # None
    PROVE  kvblock_search(o).next \in o + 1 .. Size + 12
<1> DEFINE s == FirstByte(o)
<1>1. PICK c \in Found(o) :
        \/ IsNode(c) /\ kvblock_search(o) = NodeAt(c)
        \/ \E d : kvblock_search(o) = TextAt(c, s, d)
  BY SearchIs
<1>2. Size \in Nat /\ s \in Nat /\ s <= Size /\ (o <= s \/ s = Size)
  BY Constants, FirstByteIs
<1>3. c \in s .. Size - 2
  BY DEF Found
<1>4. c \in Nat /\ o <= c /\ c <= Size - 2
  <2> HIDE DEF s
  <2>1. QED
    BY <1>2, <1>3
<1>5. CASE \E d : kvblock_search(o) = TextAt(c, s, d)
  <2>1. kvblock_search(o).next = c + 1
    <3>1. PICK d : kvblock_search(o) = TextAt(c, s, d)
      BY <1>5
    <3> HIDE DEF s
    <3>2. TextAt(c, s, d).next = c + 1
      BY DEF TextAt
    <3>3. QED
      BY <3>1, <3>2, Zenon
  <2>2. QED
    BY <1>2, <1>4, <2>1
<1>6. CASE IsNode(c) /\ kvblock_search(o) = NodeAt(c)
  <2> DEFINE ks == KeySizeAt(c)
             vs == ValSizeAt(c)
             m == align4(ks + vs + 5 + 1)
             x == kvblock_search(o).next
  <2>1. x = c - ks + (m + 4)
    BY <1>6 DEF NodeAt, RW_FLAG_SIZE
  <2>2. c + vs < Size /\ c - ks >= 0
    BY <1>6 DEF IsNode
  <2>3. ks \in Nat /\ vs \in Nat
    <3>1. At(c + 1) \in 0 .. 255 /\ At(c + 2) \in 0 .. 255
      BY AtByte
    <3>2. QED
      BY <3>1 DEF KeySizeAt, ValSizeAt
  <2>4. m \in Nat /\ ks + vs + 6 <= m /\ m <= ks + vs + 9
    <3> HIDE DEF ks, vs
    <3>1. ks + vs + 5 + 1 \in Nat
      BY <2>3
    <3>2. m \in Nat /\ ks + vs + 5 + 1 <= m /\ m <= ks + vs + 5 + 1 + 3
      BY <3>1, Aligned
    <3> HIDE DEF m
    <3>3. QED
      BY <2>3, <3>2
  <2> HIDE DEF ks, vs, m, x
  <2>5. x \in o + 1 .. Size + 12
    BY <1>2, <1>4, <2>1, <2>2, <2>3, <2>4
  <2>6. QED
    BY <2>5 DEF x
<1>7. QED
  BY <1>1, <1>5, <1>6

-----------------------------------------------------------------------------
(* kvblock_iter: the recursion over the searches has a solution.           *)

Steps(f, D) ==
    f = [o \in D |-> IF kvblock_search(o) = None THEN {}
                     ELSE {kvblock_search(o)} \cup f[kvblock_search(o).next]]

Suffix(n) == {o \in 0 .. Size + 12 : o + n > Size + 12}

LEMMA StepsStep ==
    ASSUME Plain, Image, NEW n \in Nat, NEW f, Steps(f, Suffix(n))
    PROVE  \E g : Steps(g, Suffix(n + 1))
<1> DEFINE D == Suffix(n + 1)
           g == [o \in D |-> IF kvblock_search(o) = None THEN {}
                             ELSE {kvblock_search(o)} \cup f[kvblock_search(o).next]]
<1>1. Size \in Nat
  BY Constants
<1>2. Suffix(n) \subseteq D
  BY <1>1 DEF Suffix
<1>3. \A x \in Suffix(n) : g[x] = f[x]
  <2>1. SUFFICES ASSUME NEW x \in Suffix(n) PROVE g[x] = f[x]
    OBVIOUS
  <2>2. f[x] = IF kvblock_search(x) = None THEN {}
               ELSE {kvblock_search(x)} \cup f[kvblock_search(x).next]
    BY DEF Steps
  <2>3. x \in D
    BY <1>2
  <2> HIDE DEF D
  <2>4. QED
    BY <2>2, <2>3
<1>4. \A o \in D : kvblock_search(o) # None => kvblock_search(o).next \in Suffix(n)
  <2>1. SUFFICES ASSUME NEW o \in D, kvblock_search(o) # None
                 PROVE  kvblock_search(o).next \in Suffix(n)
    OBVIOUS
  <2>2. o \in Nat /\ o <= Size + 12 /\ o + (n + 1) > Size + 12
    BY <1>1 DEF Suffix
  <2> DEFINE x == kvblock_search(o).next
  <2>3. x \in o + 1 .. Size + 12
    BY <2>1, <2>2, SearchForward
  <2> HIDE DEF x, D
  <2>4. x \in 0 .. Size + 12 /\ x + n > Size + 12
    BY <1>1, <2>2, <2>3
  <2>5. QED
    BY <2>4 DEF x, Suffix
<1>5. \A o \in D : kvblock_search(o) # None => g[kvblock_search(o).next] = f[kvblock_search(o).next]
  <2> HIDE DEF g, D
  <2>1. QED
    BY <1>3, <1>4
<1>6. g = [o \in D |-> IF kvblock_search(o) = None THEN {}
                       ELSE {kvblock_search(o)} \cup g[kvblock_search(o).next]]
  <2>1. \A o \in D : (IF kvblock_search(o) = None THEN {}
                      ELSE {kvblock_search(o)} \cup f[kvblock_search(o).next])
                   = (IF kvblock_search(o) = None THEN {}
                      ELSE {kvblock_search(o)} \cup g[kvblock_search(o).next])
    <3> HIDE DEF g, D
    <3>1. QED
      BY <1>5
  <2>2. g = [o \in D |-> IF kvblock_search(o) = None THEN {}
                         ELSE {kvblock_search(o)} \cup f[kvblock_search(o).next]]
    OBVIOUS
  <2> HIDE DEF g, D
  <2>3. QED
    BY <2>1, <2>2
<1>7. Steps(g, D)
  <2> HIDE DEF g, D
  <2>1. QED
    BY <1>6 DEF Steps
<1>8. QED
  <2> HIDE DEF g
  <2>1. QED
    BY <1>7

LEMMA StepsExist ==
    ASSUME Plain, Image
    PROVE  \E f : Steps(f, 0 .. Size + 12)
<1> DEFINE S == {n \in Nat : \E f : Steps(f, Suffix(n))}
<1>1. Size \in Nat
  BY Constants
<1>2. 0 \in S
  <2>1. Suffix(0) = {}
    BY <1>1 DEF Suffix
  <2> DEFINE z == [o \in {} |-> {}]
  <2>2. z = [o \in {} |-> IF kvblock_search(o) = None THEN {}
                          ELSE {kvblock_search(o)} \cup z[kvblock_search(o).next]]
    OBVIOUS
  <2>3. Steps(z, Suffix(0))
    <3> HIDE DEF z
    <3>1. QED
      BY <2>1, <2>2 DEF Steps
  <2>4. QED
    BY <2>3
<1>3. \A n \in S : n + 1 \in S
  BY StepsStep
<1>4. S = Nat
  <2>1. S \in SUBSET Nat
    OBVIOUS
  <2> HIDE DEF S
  <2>2. QED
    BY <1>2, <1>3, <2>1, NatSetInduction
<1>5. Size + 13 \in S
  <2> HIDE DEF S
  <2>1. QED
    BY <1>1, <1>4
<1>6. Suffix(Size + 13) = 0 .. Size + 12
  BY <1>1 DEF Suffix
<1>7. QED
  BY <1>5, <1>6

LEMMA NodesFromIs ==
    ASSUME Plain, Image, NEW o \in Nat, o <= Size + 12
    PROVE  NodesFrom[o] = IF kvblock_search(o) = None THEN {}
                          ELSE {kvblock_search(o)} \cup NodesFrom[kvblock_search(o).next]
<1>1. NodesFrom = CHOOSE f : Steps(f, 0 .. Size + 12)
  BY DEF NodesFrom, Steps
<1>2. Steps(NodesFrom, 0 .. Size + 12)
  BY <1>1, StepsExist
<1>3. o \in 0 .. Size + 12
  BY Constants
<1> DEFINE D == 0 .. Size + 12
<1>4. NodesFrom = [x \in D |-> IF kvblock_search(x) = None THEN {}
                     ELSE {kvblock_search(x)} \cup NodesFrom[kvblock_search(x).next]]
  BY <1>2 DEF Steps
<1>5. o \in D
  BY <1>3
<1> HIDE DEF D
<1>6. QED
  BY <1>4, <1>5

-----------------------------------------------------------------------------
(* From an offset that is not inside a whole program the search finds the   *)
(* next one.                                                               *)

Boundary(o) == \A e \in log : Whole(e) => o <= e.at \/ End(e) <= o

Rest(o) == {e \in log : Whole(e) /\ o <= e.at}

LEMMA NulFound ==
    ASSUME Plain, LogSound, Image, NEW o \in Nat, NEW e \in Rest(o)
    PROVE  Nul(e) \in Found(o)
<1>1. e \in log /\ Whole(e) /\ o <= e.at
  BY DEF Rest
<1>2. Sound(e)
  BY <1>1 DEF LogSound
<1>3. /\ e.at \in Nat /\ End(e) \in Nat /\ End(e) <= Size - 4 /\ e.at < End(e) /\ Size \in Nat
      /\ Nul(e) \in e.at + 1 .. End(e) - 1 /\ Nul(e) \in 0 .. Size - 2 /\ IsNode(Nul(e))
  <2>1. e.at \in Nat /\ e.len \in Nat /\ e.len >= 1 /\ End(e) \in Nat /\ e.at + e.len <= End(e) /\ End(e) <= Size - 4
    BY <1>2, Place
  <2>2. e.at < End(e)
    BY <2>1
  <2>3. QED
    BY <1>1, <2>1, <2>2, WholeIsNode, Constants
<1>4. At(e.at) # 0
  <2>1. \A i \in 1 .. KLen(e) : At(e.at + i - 1) = e.key[i]
    BY <1>1, WholeBytes
  <2>2. KLen(e) \in 1 .. 63 /\ \A i \in 1 .. KLen(e) : e.key[i] \in 1 .. 254 /\ e.key[i] # NL
    BY <1>2, Shape
  <2>3. 1 \in 1 .. KLen(e)
    BY <2>2
  <2>4. At(e.at + 1 - 1) = e.key[1] /\ e.key[1] \in 1 .. 254
    BY <2>1, <2>2, <2>3
  <2>5. e.at + 1 - 1 = e.at
    BY <1>3
  <2>6. QED
    BY <2>4, <2>5
<1>5. FirstByte(o) \in Nat /\ FirstByte(o) <= e.at
  <2>1. e.at \in o .. Size - 1
    BY <1>1, <1>3
  <2>2. QED
    BY <1>4, <2>1, FirstByteIs
<1>6. Nul(e) \in FirstByte(o) .. Size - 2
  BY <1>3, <1>5
<1>7. QED
  BY <1>3, <1>6 DEF Found

LEMMA SearchCases ==
    ASSUME Plain, LogSound, Image, NEW o \in Nat, o <= Size, Boundary(o)
    PROVE  LET n == kvblock_search(o)
           IN  \/ n = None /\ Rest(o) = {}
               \/ \E e \in Rest(o) : /\ n = NodeOf(e) /\ o < End(e)
                                     /\ Rest(o) = {e} \cup Rest(End(e)) /\ Boundary(End(e))
               \/ /\ n.rw = FALSE /\ n.head # -1 /\ n.next \in o + 1 .. Size
                  /\ Rest(o) = Rest(n.next) /\ Boundary(n.next)
                  /\ \E f \in log : n.next <= End(f)
<1> DEFINE n == kvblock_search(o)
           s == FirstByte(o)
<1>1. CASE Found(o) = {} /\ n = None
  BY <1>1, NulFound
<1>2. ASSUME NEW c \in Found(o), \A x \in Found(o) : c <= x, IsNode(c), n = NodeAt(c)
      PROVE  \E e \in Rest(o) : /\ n = NodeOf(e) /\ o < End(e)
                                /\ Rest(o) = {e} \cup Rest(End(e)) /\ Boundary(End(e))
  <2>1. c \in Nat /\ o <= c
    <3>1. c \in s .. Size - 2
      BY DEF Found
    <3>2. s \in Nat /\ (o <= s \/ s = Size) /\ Size \in Nat
      BY FirstByteIs, Constants
    <3> HIDE DEF s
    <3>3. QED
      BY <3>1, <3>2
  <2>2. PICK e \in log : Whole(e) /\ Nul(e) <= c /\ c < End(e)
    BY <1>2, <2>1, NoFake
  <2>3. Sound(e)
    BY DEF LogSound
  <2>4. e.at \in Nat /\ End(e) \in Nat /\ Nul(e) \in e.at + 1 .. End(e) - 1
    BY <2>2, <2>3, Place, WholeIsNode
  <2>5. o <= e.at
    <3>1. o <= e.at \/ End(e) <= o
      BY <2>2 DEF Boundary
    <3>2. QED
      BY <2>1, <2>2, <2>4, <3>1
  <2>6. e \in Rest(o)
    BY <2>2, <2>5 DEF Rest
  <2>7. c = Nul(e)
    <3>1. c <= Nul(e)
      BY <1>2, <2>6, NulFound
    <3>2. QED
      BY <2>1, <2>2, <2>4, <3>1
  <2>8. n = NodeOf(e)
    BY <1>2, <2>2, <2>7, WholeIsNode
  <2>9. \A f \in log : Whole(f) => f = e \/ End(e) <= f.at \/ End(f) <= e.at
    BY DEF LogSound
  <2>10. \A f \in Rest(o) : f = e \/ End(e) <= f.at
    <3>1. SUFFICES ASSUME NEW f \in Rest(o), f # e, End(f) <= e.at PROVE FALSE
      BY <2>9 DEF Rest
    <3>2. c <= Nul(f)
      BY <1>2, NulFound
    <3>3. f \in log /\ Whole(f)
      BY DEF Rest
    <3>4. f.at \in Nat /\ End(f) \in Nat /\ Nul(f) \in f.at + 1 .. End(f) - 1
      BY <3>3, Place, WholeIsNode DEF LogSound
    <3>5. QED
      BY <2>1, <2>4, <2>7, <3>1, <3>2, <3>4
  <2>11. \A f \in log : Whole(f) /\ End(e) <= f.at => o <= f.at
    <3>1. SUFFICES ASSUME NEW f \in log, Whole(f), End(e) <= f.at PROVE o <= f.at
      OBVIOUS
    <3>2. f.at \in Nat
      BY Place DEF LogSound
    <3>3. QED
      BY <2>4, <2>5, <3>1, <3>2
  <2>12. Rest(o) = {e} \cup Rest(End(e))
    BY <2>6, <2>10, <2>11 DEF Rest
  <2>13. Boundary(End(e))
    <3>1. SUFFICES ASSUME NEW f \in log, Whole(f), ~(End(e) <= f.at) PROVE End(f) <= End(e)
      BY DEF Boundary
    <3>2. f = e \/ End(f) <= e.at
      BY <2>9, <3>1
    <3>3. End(f) \in Nat
      BY Place DEF LogSound
    <3>4. QED
      BY <2>4, <3>2, <3>3
  <2>14. o < End(e)
    BY <2>1, <2>2, <2>4
  <2>15. QED
    BY <2>6, <2>8, <2>12, <2>13, <2>14
<1>3. ASSUME NEW c \in Found(o), \A x \in Found(o) : c <= x, ~IsNode(c), At(c) = NL,
             NEW d, n = TextAt(c, s, d)
      PROVE  /\ n.rw = FALSE /\ n.head # -1 /\ n.next \in o + 1 .. Size
             /\ Rest(o) = Rest(n.next) /\ Boundary(n.next)
             /\ \E f \in log : n.next <= End(f)
  <2>1. n.rw = FALSE /\ n.head = s /\ n.next = c + 1
    <3> HIDE DEF n, s
    <3>1. /\ TextAt(c, s, d).rw = FALSE /\ TextAt(c, s, d).head = s
          /\ TextAt(c, s, d).next = c + 1
      BY DEF TextAt
    <3>2. QED
      BY <1>3, <3>1, Zenon
  <2>2. c \in Nat /\ o <= c /\ c + 1 \in o + 1 .. Size /\ s # -1
    <3>1. c \in s .. Size - 2
      BY DEF Found
    <3>2. s \in Nat /\ (o <= s \/ s = Size) /\ Size \in Nat
      BY FirstByteIs, Constants
    <3> HIDE DEF s
    <3>3. QED
      BY <3>1, <3>2
  <2>3. \A e \in log : Whole(e) => c + 1 <= e.at \/ (End(e) <= c + 1 /\ ~(o <= e.at))
    <3>1. SUFFICES ASSUME NEW e \in log, Whole(e), ~(c + 1 <= e.at)
                   PROVE  End(e) <= c + 1 /\ ~(o <= e.at)
      OBVIOUS
    <3>2. Sound(e)
      BY DEF LogSound
    <3>3. /\ e.at \in Nat /\ e.len \in Nat /\ End(e) \in Nat /\ e.at + e.len <= End(e)
          /\ Nul(e) \in e.at + 1 .. End(e) - 1
      BY <3>1, <3>2, Place, WholeIsNode
    <3>4. ~(o <= e.at)
      <4>1. SUFFICES ASSUME o <= e.at PROVE FALSE
        OBVIOUS
      <4>2. c <= Nul(e)
        BY <1>3, <3>1, <4>1, NulFound DEF Rest
      <4>3. c < Nul(e)
        <5>1. c # Nul(e)
          BY <1>3, <3>1, WholeIsNode
        <5>2. QED
          BY <2>2, <3>3, <4>2, <5>1
      <4> DEFINE a == e.at
                 k == KLen(e)
                 q == c - a
      <4>4. Nul(e) = a + k /\ k \in 1 .. 63 /\ a \in Nat
        BY <3>2, Shape
      <4>5. At(c) = e.key[q + 1] /\ q + 1 \in 1 .. k
        <5>1. \A i \in 1 .. k : At(a + i - 1) = e.key[i]
          BY <3>1, WholeBytes
        <5>2. c >= a
          BY <2>2, <3>1, <3>3
        <5> HIDE DEF a, k
        <5>3. q + 1 \in 1 .. k /\ a + (q + 1) - 1 = c
          BY <2>2, <4>3, <4>4, <5>2
        <5> HIDE DEF q
        <5>4. At(a + (q + 1) - 1) = e.key[q + 1]
          BY <5>1, <5>3
        <5>5. QED
          BY <5>3, <5>4
      <4>6. e.key[q + 1] # NL
        <5>1. \A i \in 1 .. k : e.key[i] # NL
          BY <3>2, Shape
        <5> HIDE DEF k, q
        <5>2. QED
          BY <4>5, <5>1
      <4>7. QED
        BY <1>3, <4>5, <4>6
    <3>5. End(e) <= o
      BY <3>1, <3>4 DEF Boundary
    <3>6. QED
      BY <2>2, <3>3, <3>4, <3>5
  <2>4. \A e \in log : Whole(e) /\ c + 1 <= e.at => o <= e.at
    <3>1. SUFFICES ASSUME NEW e \in log, c + 1 <= e.at PROVE o <= e.at
      OBVIOUS
    <3>2. e.at \in Nat
      BY Place DEF LogSound
    <3>3. QED
      BY <2>2, <3>1, <3>2
  <2>5. Rest(o) = Rest(c + 1)
    BY <2>3, <2>4 DEF Rest
  <2>6. Boundary(c + 1)
    BY <2>3 DEF Boundary
  <2>7. \E f \in log : c + 1 <= End(f)
    <3>1. PICK f \in log : c < End(f)
      BY <1>3, <2>2, Covered DEF NL, Blank
    <3>2. End(f) \in Nat
      BY Place DEF LogSound
    <3>3. QED
      BY <2>2, <3>1, <3>2
  <2>8. QED
    BY <2>1, <2>2, <2>5, <2>6, <2>7
<1>4. QED
  BY <1>1, <1>2, <1>3, SearchIs

(* kvblock_iter returns the writable nodes that were programmed whole, and  *)
(* nothing it returns ends behind the last program.                        *)
LEMMA NodesAre ==
    ASSUME Plain, LogSound, Image
    PROVE  /\ {n \in Nodes : n.rw} = {NodeOf(e) : e \in Rest(0)}
           /\ \A n \in Nodes : n.next \in Nat /\ \E f \in log : n.next <= End(f)
           /\ \A e \in Rest(0) : NodeOf(e) \in Nodes
<1> DEFINE P(o) == /\ {n \in NodesFrom[o] : n.rw} = {NodeOf(e) : e \in Rest(o)}
                   /\ \A n \in NodesFrom[o] : n.next \in Nat /\ \E f \in log : n.next <= End(f)
           B == {o \in 0 .. Size : Boundary(o) /\ ~P(o)}
<1>1. Size \in Nat
  BY Constants
<1>2. ASSUME NEW o \in 0 .. Size, Boundary(o),
             \A x \in 0 .. Size : o < x /\ Boundary(x) => P(x)
      PROVE  P(o)
  <2> DEFINE n == kvblock_search(o)
  <2>1. NodesFrom[o] = IF n = None THEN {} ELSE {n} \cup NodesFrom[n.next]
    <3>1. o \in Nat /\ o <= Size + 12
      BY <1>1
    <3>2. QED
      BY <3>1, NodesFromIs
  <2>2. CASE n = None /\ Rest(o) = {}
    <3>1. NodesFrom[o] = {}
      BY <2>1, <2>2
    <3>2. QED
      BY <2>2, <3>1
  <2>3. ASSUME NEW e \in Rest(o), n = NodeOf(e), o < End(e),
               Rest(o) = {e} \cup Rest(End(e)), Boundary(End(e))
        PROVE  P(o)
    <3>1. Sound(e) /\ e \in log
      BY DEF Rest, LogSound
    <3>2. e.at \in Nat /\ End(e) \in 0 .. Size /\ End(e) \in Nat
      <4>1. e.at \in Nat /\ End(e) \in Nat /\ End(e) <= Size - 4
        BY <3>1, Place
      <4>2. QED
        BY <1>1, <4>1
    <3>3. n.head = e.at /\ n.next = End(e) /\ n.rw = TRUE
      <4>1. NodeOf(e).head = e.at /\ NodeOf(e).next = End(e) /\ NodeOf(e).rw = TRUE
        BY DEF NodeOf
      <4> HIDE DEF n
      <4>2. QED
        BY <2>3, <4>1
    <3>4. n # None
      <4>1. None.head = -1
        BY DEF None
      <4>2. e.at # -1
        BY <3>2
      <4>3. QED
        BY <3>3, <4>1, <4>2
    <3>5. NodesFrom[o] = {n} \cup NodesFrom[End(e)]
      BY <2>1, <3>3, <3>4
    <3>6. P(End(e))
      BY <1>2, <2>3, <3>2
    <3>7. {m \in NodesFrom[o] : m.rw} = {n} \cup {m \in NodesFrom[End(e)] : m.rw}
      <4> HIDE DEF n
      <4>1. QED
        BY <3>3, <3>5
    <3>8. {NodeOf(x) : x \in Rest(o)} = {NodeOf(e)} \cup {NodeOf(x) : x \in Rest(End(e))}
      BY <2>3
    <3>9. End(e) <= End(e)
      BY <3>2
    <3> HIDE DEF n
    <3>10. {m \in NodesFrom[o] : m.rw} = {NodeOf(x) : x \in Rest(o)}
      BY <2>3, <3>6, <3>7, <3>8
    <3>11. \A m \in NodesFrom[o] : m.next \in Nat /\ \E f \in log : m.next <= End(f)
      BY <3>1, <3>2, <3>3, <3>5, <3>6, <3>9
    <3>12. QED
      BY <3>10, <3>11
  <2>4. CASE /\ n.rw = FALSE /\ n.head # -1 /\ n.next \in o + 1 .. Size
             /\ Rest(o) = Rest(n.next) /\ Boundary(n.next)
             /\ \E f \in log : n.next <= End(f)
    <3>1. n # None
      BY <2>4 DEF None
    <3>2. NodesFrom[o] = {n} \cup NodesFrom[n.next]
      BY <2>1, <3>1
    <3> HIDE DEF n
    <3>3. n.next \in 0 .. Size /\ o < n.next /\ n.next \in Nat
      BY <1>1, <2>4
    <3>4. P(n.next)
      BY <1>2, <2>4, <3>3
    <3>5. {m \in NodesFrom[o] : m.rw} = {m \in NodesFrom[n.next] : m.rw}
      BY <2>4, <3>2
    <3>6. \A m \in NodesFrom[o] : m.next \in Nat /\ \E f \in log : m.next <= End(f)
      BY <2>4, <3>2, <3>3, <3>4
    <3>7. QED
      BY <2>4, <3>4, <3>5, <3>6
  <2>5. QED
    <3>1. o \in Nat /\ o <= Size
      BY <1>1
    <3> HIDE DEF P
    <3>2. QED
      BY <1>2, <2>2, <2>3, <2>4, <3>1, SearchCases
<1>3. B = {}
  <2>1. SUFFICES ASSUME B # {} PROVE FALSE
    OBVIOUS
  <2>2. B \in SUBSET Nat /\ \A x \in B : x <= Size
    BY <1>1
  <2> DEFINE o == Max(B)
  <2>3. o \in B /\ \A x \in B : x <= o
    <3> HIDE DEF B
    <3>1. QED
      BY <1>1, <2>1, <2>2, MaxOf
  <2>4. o \in 0 .. Size /\ Boundary(o) /\ ~P(o)
    BY <2>3
  <2>5. \A x \in 0 .. Size : o < x /\ Boundary(x) => P(x)
    <3>1. SUFFICES ASSUME NEW x \in 0 .. Size, o < x, Boundary(x), ~P(x) PROVE FALSE
      OBVIOUS
    <3>2. x \in B
      BY <3>1
    <3>3. x <= o /\ o \in Nat /\ x \in Nat
      BY <2>2, <2>3, <3>2
    <3> HIDE DEF o
    <3>4. QED
      BY <3>1, <3>3
  <2> HIDE DEF o, P
  <2>6. QED
    BY <1>2, <2>4, <2>5
<1>4. Boundary(0)
  <2>1. \A e \in log : e.at \in Nat
    BY Place DEF LogSound
  <2>2. \A e \in log : 0 <= e.at
    BY <2>1
  <2>3. QED
    BY <2>2 DEF Boundary
<1>5. P(0)
  <2>1. 0 \in 0 .. Size
    BY <1>1
  <2> HIDE DEF P
  <2>2. QED
    BY <1>3, <1>4, <2>1
<1>6. \A e \in Rest(0) : NodeOf(e) \in Nodes
  <2>1. {n \in NodesFrom[0] : n.rw} = {NodeOf(e) : e \in Rest(0)}
    BY <1>5
  <2>2. QED
    BY <2>1 DEF Nodes
<1>7. QED
  BY <1>5, <1>6 DEF Nodes

LEMMA RestIs ==
    ASSUME Plain, LogSound
    PROVE  Rest(0) = {f \in log : Whole(f)}
<1>1. \A e \in log : e.at \in Nat
  BY Place DEF LogSound
<1>2. \A e \in log : 0 <= e.at
  BY <1>1
<1>3. QED
  BY <1>2 DEF Rest

LEMMA NodeOfIs ==
    ASSUME NEW e
    PROVE  /\ NodeOf(e).head = e.at /\ NodeOf(e).key = e.key /\ NodeOf(e).val = e.val
           /\ NodeOf(e).ver = e.ver /\ NodeOf(e).next = End(e) /\ NodeOf(e).rw = TRUE
           /\ NodeOf(e).live = ~e.rm
  BY DEF NodeOf

(* kv_find sees the copies that are whole and not marked erased. *)
LEMMA HitsAre ==
    ASSUME Plain, LogSound, Image
    PROVE  Hits = {NodeOf(e) : e \in Copies}
<1>1. {n \in Nodes : n.rw} = {NodeOf(e) : e \in {f \in log : Whole(f)}}
  BY NodesAre, RestIs
<1>2. Hits = {n \in {m \in Nodes : m.rw} : n.live /\ n.key = Key}
  BY DEF Hits
<1>3. Hits = {n \in {NodeOf(e) : e \in {f \in log : Whole(f)}} : n.live /\ n.key = Key}
  BY <1>1, <1>2
<1>4. \A e : (NodeOf(e).live /\ NodeOf(e).key = Key) <=> (~e.rm /\ e.key = Key)
  BY NodeOfIs, Zenon
<1>5. ASSUME NEW n \in Hits PROVE \E e \in Copies : n = NodeOf(e)
  <2>1. PICK e \in log : Whole(e) /\ n = NodeOf(e) /\ n.live /\ n.key = Key
    BY <1>3, <1>5
  <2>2. e \in Copies
    BY <1>4, <2>1 DEF Copies
  <2>3. QED
    BY <2>1, <2>2
<1>6. ASSUME NEW e \in Copies PROVE NodeOf(e) \in Hits
  <2>1. e \in log /\ Whole(e) /\ ~e.rm /\ e.key = Key
    BY DEF Copies
  <2>2. NodeOf(e).live /\ NodeOf(e).key = Key
    BY <1>4, <2>1
  <2>3. QED
    BY <1>3, <2>1, <2>2
<1>7. QED
  BY <1>5, <1>6

LEMMA FindIs ==
    ASSUME Plain, LogSound, Image, \A e, f \in Copies : e = f
    PROVE  /\ Copies = {} => kv_find = None
           /\ \A e \in Copies : kv_find = NodeOf(e) /\ kv_find # None
<1>1. kv_find = IF Hits = {} THEN None ELSE CHOOSE n \in Hits : \A m \in Hits : n.head <= m.head
  BY DEF kv_find
<1>2. CASE Copies = {}
  BY <1>1, <1>2, HitsAre
<1>3. ASSUME NEW e \in Copies PROVE kv_find = NodeOf(e) /\ kv_find # None
  <2>1. Hits = {NodeOf(e)}
    <3>1. Copies = {e}
      BY <1>3
    <3>2. QED
      BY <3>1, HitsAre
  <2>2. e \in log
    BY DEF Copies
  <2>3. e.at \in Nat
    BY <2>2, Place DEF LogSound
  <2>0. NodeOf(e).head = e.at
    BY NodeOfIs, Zenon
  <2>4. NodeOf(e).head <= NodeOf(e).head
    BY <2>3, <2>0
  <2>5. kv_find = NodeOf(e)
    <3> DEFINE x == NodeOf(e)
    <3>1. Hits = {x} /\ x.head <= x.head
      BY <2>1, <2>4
    <3> HIDE DEF x
    <3>2. kv_find = x
      BY <1>1, <3>1
    <3>3. QED
      BY <3>2 DEF x
  <2>6. NodeOf(e) # None
    <3>1. NodeOf(e).head = e.at /\ e.at # -1
      BY <2>3, <2>0
    <3>2. None.head = -1
      BY DEF None
    <3>3. QED
      BY <3>1, <3>2
  <2>7. QED
    BY <2>5, <2>6
<1>4. QED
  BY <1>2, <1>3

(* kvblock_calc puts write_offset behind every program, torn ones too. *)
LEMMA CalcOffsetIs ==
    ASSUME Plain, LogSound, Image, Searched
    PROVE  /\ CalcOffset \in 0 .. Size - 4 /\ CalcOffset % 4 = 0
           /\ \A e \in log : End(e) <= CalcOffset
<1> DEFINE X == {0} \cup {align4(n.next) : n \in Nodes}
           x == Max(X)
           w == {u \in 0 .. (Scan \div 4) - 2 :
                   4 * u >= x /\ \E i \in 4 * u .. 4 * u + 3 : At(i) # At(Size - 4 + (i % 4))}
           Y == {x} \cup {4 * u + 4 : u \in w}
<1>0. Size \in Nat /\ Size % 4 = 0 /\ Size >= 19 /\ Scan \in Nat /\ Scan <= Size
  BY Constants
<1>1. CalcOffset = Max(Y)
  BY DEF CalcOffset
<1>2. \A y \in X : y \in Nat /\ y % 4 = 0 /\ y <= Size - 4
  <2>1. ASSUME NEW n \in Nodes
        PROVE  align4(n.next) \in Nat /\ align4(n.next) % 4 = 0 /\ align4(n.next) <= Size - 4
    <3>1. PICK f \in log : n.next \in Nat /\ n.next <= End(f)
      BY NodesAre
    <3>2. End(f) \in Nat /\ End(f) % 4 = 0 /\ End(f) <= Size - 4
      BY Ends DEF LogSound
    <3> DEFINE z == n.next
               E == End(f)
               y == align4(z)
    <3>3. y \in Nat /\ y % 4 = 0
      BY <3>1, Aligned
    <3>4. y <= E
      BY <3>1, <3>2, AlignedUpTo
    <3>5. E \in Nat /\ E <= Size - 4
      BY <3>2
    <3> HIDE DEF y, E
    <3>6. y <= Size - 4
      BY <1>0, <3>3, <3>4, <3>5
    <3>7. QED
      BY <3>3, <3>6 DEF y
  <2>2. 0 \in Nat /\ 0 % 4 = 0 /\ 0 <= Size - 4
    BY <1>0
  <2>3. QED
    BY <2>1, <2>2
<1>3. X \in SUBSET Nat /\ X # {} /\ \A y \in X : y <= Size
  <2>1. \A y \in X : y \in Nat /\ y <= Size
    <3> HIDE DEF X
    <3>1. QED
      BY <1>0, <1>2
  <2>2. 0 \in X
    OBVIOUS
  <2> HIDE DEF X
  <2>3. QED
    BY <2>1, <2>2
<1>4. x \in X /\ \A y \in X : y <= x
  <2> HIDE DEF X
  <2>1. QED
    BY <1>0, <1>3, MaxOf
<1>5. x \in Nat /\ x % 4 = 0 /\ x <= Size - 4
  BY <1>2, <1>4
<1>6. \A y \in Y : y \in Nat /\ y % 4 = 0 /\ y <= Size - 4
  <2> HIDE DEF x
  <2>1. ASSUME NEW u \in w PROVE 4 * u + 4 \in Nat /\ (4 * u + 4) % 4 = 0 /\ 4 * u + 4 <= Size - 4
    <3>1. u \in 0 .. (Scan \div 4) - 2
      BY <1>0
    <3>2. QED
      BY <1>0, <3>1
  <2>2. QED
    BY <1>5, <2>1
<1>7. Y \in SUBSET Nat /\ Y # {} /\ \A y \in Y : y <= Size
  <2>1. x \in Y
    OBVIOUS
  <2> HIDE DEF Y, x
  <2>2. QED
    BY <1>0, <1>6, <2>1
<1>8. Max(Y) \in Y /\ \A y \in Y : y <= Max(Y)
  <2> HIDE DEF Y
  <2>1. QED
    BY <1>0, <1>7, MaxOf
<1>9. Max(Y) \in Nat /\ Max(Y) % 4 = 0 /\ Max(Y) <= Size - 4 /\ x <= Max(Y)
  <2>1. x \in Y
    OBVIOUS
  <2> HIDE DEF Y, x
  <2>2. QED
    BY <1>6, <1>8, <2>1
<1>10. ASSUME NEW e \in log PROVE End(e) <= Max(Y)
  <2>1. Sound(e)
    BY DEF LogSound
  <2>2. CASE Whole(e)
    <3>1. NodeOf(e) \in Nodes /\ NodeOf(e).next = End(e)
      BY <2>2, NodesAre, RestIs, NodeOfIs
    <3>2. End(e) \in Nat
      BY <2>1, Place
    <3>3. align4(End(e)) \in X /\ End(e) <= align4(End(e)) /\ align4(End(e)) \in Nat
      BY <3>1, <3>2, Aligned
    <3> DEFINE E == End(e)
               A == align4(End(e))
    <3>4. E \in Nat /\ A \in Nat /\ E <= A /\ A <= x
      BY <3>2, <3>3, <1>4
    <3> HIDE DEF E, A, x, Y
    <3>5. E <= Max(Y)
      BY <1>5, <1>9, <3>4
    <3>6. QED
      BY <3>5 DEF E
  <2>3. CASE ~Whole(e)
    <3> DEFINE a == e.at
               n == e.len
               E == End(e)
               p == a + n - 1
               u == p \div 4
    <3>1. a \in Nat /\ n \in Nat /\ n >= 1 /\ a % 4 = 0 /\ E = a + align4(n)
          /\ E \in Nat /\ E <= Scan - 4 /\ a + n <= E
      <4>1. a \in Nat /\ n \in Nat /\ n >= 1 /\ E \in Nat /\ a + n <= E
        BY <2>1, Place
      <4>2. a % 4 = 0
        BY <2>1, Shape
      <4>3. E = a + align4(n)
        BY <2>1, <2>3, Ends
      <4>4. E <= Scan - 4
        BY <2>3 DEF Searched
      <4> HIDE DEF a, n, E
      <4>5. QED
        BY <4>1, <4>2, <4>3, <4>4
    <3>2. align4(n) \in Nat /\ align4(n) % 4 = 0 /\ n <= align4(n) /\ align4(n) <= n + 3
      BY <3>1, Aligned
    <3> DEFINE m == align4(n)
    <3>3. /\ p \in Int /\ u \in Int /\ a <= p /\ p < E /\ p < a + n /\ p - a = n - 1
          /\ E = 4 * u + 4 /\ p \in 4 * u .. 4 * u + 3 /\ 0 <= u /\ u <= (Scan \div 4) - 2
      <4> HIDE DEF a, n, E, m
      <4>1. p \in Nat /\ a + m \in Nat /\ p < a + m /\ a + m <= p + 4 /\ (a + m) % 4 = 0
        BY <3>1, <3>2, AlignedSum DEF m
      <4> DEFINE z == a + m
      <4>2. z \in Nat /\ p < z /\ z <= p + 4 /\ z % 4 = 0 /\ z = E
        BY <3>1, <4>1 DEF m
      <4>3. p \in Int /\ a <= p /\ p < E /\ p < a + n /\ p - a = n - 1
        BY <3>1
      <4> HIDE DEF z, p
      <4>4. z = 4 * u + 4 /\ u \in Int /\ 0 <= u /\ p \in 4 * u .. 4 * u + 3
        BY <4>1, <4>2
      <4>5. u <= (Scan \div 4) - 2
        BY <1>0, <3>1, <4>2, <4>4
      <4>6. QED
        BY <4>2, <4>3, <4>4, <4>5
    <3>4. At(p) # Blank
      <4>1. Word(e)[n - 1] # Blank
        BY <2>1, <2>3 DEF Sound, Word
      <4>2. At(p) = Word(e)[p - a]
        <5>1. \A i \in Int : a <= i /\ i < E => (i < a + n => At(i) = Word(e)[i - a])
          BY ByteAt
        <5> HIDE DEF a, n, E, p
        <5>2. QED
          BY <3>3, <5>1
      <4> HIDE DEF a, n, p
      <4>3. QED
        BY <3>3, <4>1, <4>2
    <3>5. At(Size - 4 + (p % 4)) = Blank
      <4> DEFINE i == Size - 4 + (p % 4)
      <4>1. i \in Int /\ i >= Size - 4
        <5> HIDE DEF p
        <5>1. QED
          BY <1>0, <3>3
      <4> HIDE DEF i
      <4>2. \A f \in log : End(f) <= i
        <5>1. ASSUME NEW f \in log PROVE End(f) <= i
          <6>1. End(f) \in Nat /\ End(f) <= Size - 4
            BY Place DEF LogSound
          <6>2. QED
            BY <1>0, <4>1, <6>1
        <5>2. QED
          BY <5>1
      <4>3. At(i) = Blank
        BY <4>1, <4>2, AtBlank
      <4>4. QED
        BY <4>3 DEF i
    <3>6. CASE 4 * u >= x
      <4>1. u \in 0 .. (Scan \div 4) - 2
        <5> HIDE DEF u
        <5>1. QED
          BY <1>0, <3>3
      <4>2. \E i \in 4 * u .. 4 * u + 3 : At(i) # At(Size - 4 + (i % 4))
        <5> HIDE DEF p
        <5>1. QED
          BY <3>3, <3>4, <3>5
      <4>3. u \in w
        <5> HIDE DEF u, x
        <5>1. QED
          BY <1>0, <3>6, <4>1, <4>2
      <4>4. 4 * u + 4 \in Y
        <5> HIDE DEF u, x, w
        <5>1. QED
          BY <4>3
      <4>5. 4 * u + 4 <= Max(Y)
        <5> HIDE DEF u, Y
        <5>1. QED
          BY <1>8, <4>4
      <4>6. E <= Max(Y)
        <5> HIDE DEF u, Y, E, p
        <5>1. QED
          BY <3>3, <4>5
      <4>7. QED
        BY <4>6
    <3>7. CASE ~(4 * u >= x)
      <4> HIDE DEF u, Y, E, p, x, a, n
      <4>1. 4 * u + 4 <= x
        BY <1>5, <3>3, <3>7
      <4>2. E <= Max(Y)
        BY <1>5, <1>9, <3>1, <3>3, <4>1
      <4>3. QED
        BY <4>2 DEF E
    <3>8. QED
      BY <3>6, <3>7
  <2>4. QED
    BY <2>2, <2>3
<1>11. Max(Y) \in 0 .. Size - 4
  <2> HIDE DEF Y, x
  <2>1. QED
    BY <1>0, <1>9
<1>12. QED
  BY <1>1, <1>9, <1>10, <1>11

-----------------------------------------------------------------------------
(* What a program adds to the block.                                       *)

LEMMA Appended ==
    ASSUME Plain, LogSound, Image, NEW x, Sound(x), x.rm = FALSE, \A e \in log : End(e) <= x.at,
           NEW n \in Nat, x.len <= n, n <= Area(x), x.at + Area(x) <= Size,
           \A i \in x.len .. n - 1 : Word(x)[i] = Blank,
           mem' = Program(mem, x.at, Word(x), n), log' = log \cup {x}
    PROVE  LogSound' /\ Image'
<1> DEFINE a == x.at
           l == x.len
           A == Area(x)
           E == End(x)
<1>1. /\ Size \in Nat /\ a \in Nat /\ l \in Nat /\ l >= 1 /\ A \in Nat
      /\ E \in Nat /\ a + l <= E /\ E <= Size - 4 /\ l <= n /\ n <= A /\ a + A <= Size
  BY Constants, Place, Shape
<1>2. mem \in [0 .. Size - 1 -> 0 .. 255]
  BY DEF Image
<1>3. \A i \in 0 .. Size - 1 : a <= i => mem[i] = Blank
  <2>1. SUFFICES ASSUME NEW i \in 0 .. Size - 1, a <= i PROVE mem[i] = Blank
    OBVIOUS
  <2>2. ASSUME NEW e \in log PROVE End(e) <= i
    <3>1. End(e) \in Nat /\ End(e) <= a
      BY Place DEF LogSound
    <3> HIDE DEF a
    <3>2. QED
      BY <1>1, <2>1, <3>1
  <2>3. QED
    BY <2>2 DEF Image
<1>4. \A i \in 0 .. Size - 1 : mem'[i] = IF a <= i /\ i < a + l THEN Word(x)[i - a] ELSE mem[i]
  <2>1. SUFFICES ASSUME NEW i \in 0 .. Size - 1
                 PROVE  mem'[i] = IF a <= i /\ i < a + l THEN Word(x)[i - a] ELSE mem[i]
    OBVIOUS
  <2>2. mem' = [j \in 0 .. Size - 1 |->
                  IF j \in a .. a + n - 1
                    THEN IF mem[j] = Blank THEN Word(x)[j - a] ELSE Both(mem[j], Word(x)[j - a])
                    ELSE mem[j]]
    BY <1>2 DEF Program
  <2> HIDE DEF a, l, A, E
  <2>3. mem'[i] = IF i \in a .. a + n - 1
                    THEN IF mem[i] = Blank THEN Word(x)[i - a] ELSE Both(mem[i], Word(x)[i - a])
                    ELSE mem[i]
    BY <2>2
  <2>4. i \in a .. a + n - 1 <=> a <= i /\ i < a + n
    BY <1>1
  <2>5. CASE a <= i /\ i < a + l
    <3>1. i < a + n
      BY <1>1, <2>5
    <3>2. QED
      BY <1>3, <2>3, <2>4, <2>5, <3>1
  <2>6. CASE a <= i /\ i >= a + l /\ i < a + n
    <3>1. i - a \in l .. n - 1
      BY <1>1, <2>6
    <3>2. Word(x)[i - a] = Blank
      BY <3>1 DEF l
    <3>3. ~(i < a + l)
      BY <1>1, <2>6
    <3>4. QED
      BY <1>3, <2>3, <2>4, <2>6, <3>2, <3>3
  <2>7. CASE ~(a <= i /\ i < a + n)
    <3>1. ~(a <= i /\ i < a + l)
      BY <1>1, <2>7
    <3>2. QED
      BY <2>3, <2>4, <2>7, <3>1
  <2>8. QED
    BY <1>1, <2>5, <2>6, <2>7
<1>5. \A i \in 0 .. Size - 1 : a <= i /\ i < a + l => Word(x)[i - a] \in 0 .. 255
  <2>1. SUFFICES ASSUME NEW i \in 0 .. Size - 1, a <= i, i < a + l PROVE Word(x)[i - a] \in 0 .. 255
    OBVIOUS
  <2>2. i - a \in 0 .. A - 1
    <3> HIDE DEF a, l, A, E
    <3>1. QED
      BY <1>1, <2>1
  <2>3. \A q \in 0 .. A - 1 : Word(x)[q] \in 0 .. 255
    BY WordCases
  <2> HIDE DEF a, A
  <2>4. QED
    BY <2>2, <2>3
<1>6. mem' \in [0 .. Size - 1 -> 0 .. 255]
  <2>1. mem' = [j \in 0 .. Size - 1 |-> mem'[j]]
    BY <1>2 DEF Program
  <2> HIDE DEF a, l
  <2>2. \A j \in 0 .. Size - 1 : mem'[j] \in 0 .. 255
    BY <1>2, <1>4, <1>5
  <2>3. QED
    BY <2>1, <2>2
<1>7. \A e \in log : \A i \in e.at .. End(e) - 1 : mem'[i] = ByteOf(e, i)
  <2>1. SUFFICES ASSUME NEW e \in log, NEW i \in e.at .. End(e) - 1 PROVE mem'[i] = ByteOf(e, i)
    OBVIOUS
  <2>2. e.at \in Nat /\ End(e) \in Nat /\ End(e) <= a
    BY Place DEF LogSound
  <2>3. i \in 0 .. Size - 1 /\ ~(a <= i)
    <3> HIDE DEF a
    <3>1. QED
      BY <1>1, <2>2
  <2>4. mem[i] = ByteOf(e, i)
    BY DEF Image
  <2> HIDE DEF a, l
  <2>5. QED
    BY <1>4, <2>3, <2>4
<1>8. \A i \in x.at .. End(x) - 1 : mem'[i] = ByteOf(x, i)
  <2>1. SUFFICES ASSUME NEW i \in a .. E - 1 PROVE mem'[i] = ByteOf(x, i)
    OBVIOUS
  <2>2. i \in 0 .. Size - 1 /\ a <= i /\ i \in Int
    <3> HIDE DEF a, E
    <3>1. QED
      BY <1>1
  <2>3. CASE i < a + l
    <3>1. ByteOf(x, i) = Word(x)[i - a]
      BY <2>3 DEF ByteOf, Word
    <3> HIDE DEF a, l
    <3>2. QED
      BY <1>4, <2>2, <2>3, <3>1
  <2>4. CASE ~(i < a + l)
    <3>1. ByteOf(x, i) = Blank
      BY <2>4 DEF ByteOf
    <3> HIDE DEF a, l
    <3>2. QED
      BY <1>3, <1>4, <2>2, <2>4, <3>1
  <2>5. QED
    BY <2>3, <2>4
<1>9. \A i \in 0 .. Size - 1 :
        (\A e \in log \cup {x} : i < e.at \/ End(e) <= i) => mem'[i] = Blank
  <2>1. SUFFICES ASSUME NEW i \in 0 .. Size - 1, \A e \in log \cup {x} : i < e.at \/ End(e) <= i
                 PROVE  mem'[i] = Blank
    OBVIOUS
  <2>2. mem[i] = Blank
    BY <2>1 DEF Image
  <2>3. i < a \/ E <= i
    BY <2>1
  <2> HIDE DEF a, l, E
  <2>4. ~(a <= i /\ i < a + l)
    BY <1>1, <2>3
  <2>5. QED
    BY <1>4, <2>2, <2>4
<1>10. Image'
  <2>1. \A e \in log' : \A i \in e.at .. End(e) - 1 : mem'[i] = ByteOf(e, i)
    BY <1>7, <1>8
  <2>2. \A i \in 0 .. Size - 1 : (\A e \in log' : i < e.at \/ End(e) <= i) => mem'[i] = Blank
    BY <1>9
  <2>3. QED
    BY <1>6, <2>1, <2>2, Zenon DEF Image
<1>11. LogSound'
  <2>1. \A e \in log' : Sound(e)
    BY DEF LogSound
  <2>2. \A e, f \in log' : e = f \/ End(e) <= f.at \/ End(f) <= e.at
    BY DEF LogSound
  <2>3. QED
    BY <2>1, <2>2, Zenon DEF LogSound
<1>12. QED
  BY <1>10, <1>11

-----------------------------------------------------------------------------
(* What kvnode_rm changes in the block.                                    *)

Erased(e) == [e EXCEPT !.rm = TRUE]

Record(e) ==
    e = [at |-> e.at, len |-> e.len, key |-> e.key, val |-> e.val, ver |-> e.ver, rm |-> e.rm]

(* The mark changes nothing else: the program is as whole as it was and ends *)
(* where it did.                                                            *)
LEMMA MarkKeeps ==
    ASSUME NEW e, Record(e)
    PROVE  LET x == Erased(e)
           IN  /\ x.at = e.at /\ x.len = e.len /\ x.key = e.key /\ x.val = e.val /\ x.ver = e.ver
               /\ x.rm = TRUE /\ Record(x) /\ (Whole(x) <=> Whole(e)) /\ End(x) = End(e)
<1> DEFINE x == Erased(e)
<1>1. e = [at |-> e.at, len |-> e.len, key |-> e.key, val |-> e.val, ver |-> e.ver, rm |-> e.rm]
  BY DEF Record
<1>2. x = [at |-> e.at, len |-> e.len, key |-> e.key, val |-> e.val, ver |-> e.ver, rm |-> TRUE]
  <2> DEFINE D == {"at", "len", "key", "val", "ver", "rm"}
             f == [i \in D |-> IF i = "rm" THEN TRUE ELSE e[i]]
  <2>1. DOMAIN e = D
    BY <1>1
  <2>2. x = f
    BY <2>1 DEF Erased
  <2>3. f = [at |-> e.at, len |-> e.len, key |-> e.key, val |-> e.val, ver |-> e.ver, rm |-> TRUE]
    <3>1. /\ f["at"] = e.at /\ f["len"] = e.len /\ f["key"] = e.key /\ f["val"] = e.val
          /\ f["ver"] = e.ver /\ f["rm"] = TRUE
      OBVIOUS
    <3>2. f = [i \in D |-> f[i]]
      OBVIOUS
    <3> HIDE DEF f
    <3>3. QED
      BY <3>1, <3>2
  <2>4. QED
    BY <2>2, <2>3
<1>3. x.at = e.at /\ x.len = e.len /\ x.key = e.key /\ x.val = e.val /\ x.ver = e.ver /\ x.rm = TRUE
  BY <1>2
<1>4. x = [at |-> x.at, len |-> x.len, key |-> x.key, val |-> x.val, ver |-> x.ver, rm |-> x.rm]
  BY <1>2
<1> HIDE DEF x
<1>5. Whole(x) <=> Whole(e)
  BY <1>3 DEF Whole, Trailer, Nul
<1>6. End(x) = End(e)
  BY <1>3, <1>5 DEF End
<1>7. Record(x)
  BY <1>4 DEF Record
<1>8. QED
  BY <1>3, <1>5, <1>6, <1>7 DEF x

LEMMA ErasedIs ==
    ASSUME Plain, NEW e, Sound(e), Whole(e)
    PROVE  /\ Erased(e).at = e.at /\ Erased(e).len = e.len /\ Erased(e).key = e.key
           /\ Erased(e).val = e.val /\ Erased(e).ver = e.ver /\ Erased(e).rm = TRUE
           /\ Whole(Erased(e)) /\ End(Erased(e)) = End(e) /\ Sound(Erased(e))
<1> DEFINE x == Erased(e)
<1>2. Record(e)
  BY DEF Sound, Record
<1>3. x.at = e.at /\ x.len = e.len /\ x.key = e.key /\ x.val = e.val /\ x.ver = e.ver /\ x.rm = TRUE
  BY <1>2, MarkKeeps
<1>4. x = [at |-> x.at, len |-> x.len, key |-> x.key, val |-> x.val, ver |-> x.ver, rm |-> x.rm]
  BY <1>2, MarkKeeps DEF Record
<1>5. Whole(x) /\ End(x) = End(e)
  BY <1>2, MarkKeeps
<1> HIDE DEF x
<1>6. Sound(x)
  <2>1. x.at \in Nat /\ x.at % 4 = 0 /\ x.ver \in 1 .. 255 /\ x.len \in 1 .. MallocSize(x.key, x.val)
        /\ End(x) <= Size - 4
    BY <1>3, <1>5 DEF Sound
  <2>2. x.rm \in BOOLEAN
    BY <1>3
  <2>3. \/ x.key = Key /\ x.val \in Values
        \/ x.key = Other /\ x.val = Other /\ x.at = 0 /\ Whole(x)
    BY <1>3, <1>5 DEF Sound
  <2>4. QED
    BY <1>4, <1>5, <2>1, <2>2, <2>3, Zenon DEF Sound
<1>7. QED
  BY <1>3, <1>5, <1>6 DEF x

LEMMA MarkedIs ==
    ASSUME Plain, LogSound, Image, NEW R \in SUBSET {f \in log : Whole(f)},
           mem' = Cleared({NodeOf(f) : f \in R}), log' = Marked({NodeOf(f) : f \in R})
    PROVE  /\ LogSound' /\ Image' /\ Copies' = Copies \ R
           /\ \A x \in log' : \E e \in log : End(x) = End(e)
<1> DEFINE S == {NodeOf(f) : f \in R}
           M(e) == IF e \in R THEN Erased(e) ELSE e
<1>1. \A e \in log : /\ Sound(e) /\ e.at \in Nat /\ e.len \in Nat /\ End(e) \in Nat
                     /\ e.at < End(e) /\ e.at + e.len <= End(e) /\ End(e) <= Size - 4
  <2>1. SUFFICES ASSUME NEW e \in log
                 PROVE  /\ Sound(e) /\ e.at \in Nat /\ e.len \in Nat /\ End(e) \in Nat
                        /\ e.at < End(e) /\ e.at + e.len <= End(e) /\ End(e) <= Size - 4
    OBVIOUS
  <2>2. Sound(e)
    BY DEF LogSound
  <2>3. /\ e.at \in Nat /\ e.len \in Nat /\ e.len >= 1 /\ End(e) \in Nat
        /\ e.at + e.len <= End(e) /\ End(e) <= Size - 4
    BY <2>2, Place
  <2>4. e.at < End(e)
    BY <2>3
  <2>5. QED
    BY <2>2, <2>3, <2>4
<1>2. \A e \in R : /\ e \in log /\ Whole(e) /\ e.at + e.len <= End(e) - 4
  <2>1. SUFFICES ASSUME NEW e \in R PROVE e.at + e.len <= End(e) - 4
    OBVIOUS
  <2>2. Sound(e) /\ Whole(e) /\ e.at \in Nat
    BY <1>1
  <2>3. End(e) = e.at + Area(e) + 4 /\ e.len \in 1 .. Area(e) /\ Area(e) \in Nat
    BY <2>2, Ends, Shape
  <2>4. QED
    BY <2>2, <2>3
<1>3. \A e, f \in log : e # f => e.at # f.at /\ (End(e) <= f.at \/ End(f) <= e.at)
  <2>1. SUFFICES ASSUME NEW e \in log, NEW f \in log, e # f
                 PROVE  e.at # f.at /\ (End(e) <= f.at \/ End(f) <= e.at)
    OBVIOUS
  <2>2. End(e) <= f.at \/ End(f) <= e.at
    BY <2>1 DEF LogSound
  <2>3. e.at \in Nat /\ f.at \in Nat /\ End(e) \in Nat /\ End(f) \in Nat /\ e.at < End(e) /\ f.at < End(f)
    BY <1>1
  <2>4. QED
    BY <2>2, <2>3
<1>4. \A e \in log : (\E n \in S : n.head = e.at) <=> e \in R
  <2>1. \A f \in R : NodeOf(f).head = f.at
    BY NodeOfIs, Zenon
  <2>2. QED
    BY <1>2, <1>3, <2>1
<1>5. log' = {M(e) : e \in log}
  <2>1. log' = {IF \E n \in S : n.head = e.at THEN Erased(e) ELSE e : e \in log}
    BY DEF Marked, Erased
  <2> HIDE DEF S
  <2>2. QED
    BY <1>4, <2>1
<1>6. \A e \in R : /\ Erased(e).at = e.at /\ Erased(e).len = e.len /\ Erased(e).key = e.key
                   /\ Erased(e).val = e.val /\ Erased(e).ver = e.ver /\ Erased(e).rm = TRUE
                   /\ Whole(Erased(e)) /\ End(Erased(e)) = End(e) /\ Sound(Erased(e))
  <2>1. \A e \in R : Sound(e) /\ Whole(e)
    BY <1>1, <1>2
  <2>2. QED
    BY <2>1, ErasedIs, Zenon
<1>7. \A e \in log : /\ Sound(M(e)) /\ M(e).at = e.at /\ End(M(e)) = End(e) /\ M(e).len = e.len
                     /\ M(e).key = e.key /\ M(e).val = e.val /\ M(e).ver = e.ver
  BY <1>1, <1>6
<1>8. mem \in [0 .. Size - 1 -> 0 .. 255] /\ Size \in Nat
  BY Constants DEF Image
<1>9. \A i \in 0 .. Size - 1 : mem'[i] = IF \E f \in R : End(f) - 4 <= i /\ i < End(f) THEN 0 ELSE mem[i]
  <2>1. SUFFICES ASSUME NEW i \in 0 .. Size - 1
                 PROVE  mem'[i] = IF \E f \in R : End(f) - 4 <= i /\ i < End(f) THEN 0 ELSE mem[i]
    OBVIOUS
  <2>2. mem'[i] = IF \E n \in S : i \in n.next - 4 .. n.next - 1 THEN 0 ELSE mem[i]
    BY <1>8 DEF Cleared
  <2>3. (\E n \in S : i \in n.next - 4 .. n.next - 1) <=> (\E f \in R : i \in End(f) - 4 .. End(f) - 1)
    <3>1. \A f \in R : NodeOf(f).next = End(f)
      BY NodeOfIs, Zenon
    <3>2. QED
      BY <3>1
  <2>4. \A f \in R : i \in End(f) - 4 .. End(f) - 1 <=> End(f) - 4 <= i /\ i < End(f)
    <3>1. SUFFICES ASSUME NEW f \in R PROVE i \in End(f) - 4 .. End(f) - 1 <=> End(f) - 4 <= i /\ i < End(f)
      OBVIOUS
    <3>2. End(f) \in Nat
      BY <1>1, <1>2
    <3>3. QED
      BY <3>2
  <2> HIDE DEF S
  <2>5. QED
    BY <2>2, <2>3, <2>4
<1>10. mem' \in [0 .. Size - 1 -> 0 .. 255]
  <2>1. mem' = [j \in 0 .. Size - 1 |-> mem'[j]]
    BY <1>8 DEF Cleared
  <2>2. \A j \in 0 .. Size - 1 : mem'[j] \in 0 .. 255
    <3>1. SUFFICES ASSUME NEW j \in 0 .. Size - 1 PROVE mem'[j] \in 0 .. 255
      OBVIOUS
    <3>2. mem'[j] = 0 \/ mem'[j] = mem[j]
      BY <1>9
    <3>3. mem[j] \in 0 .. 255
      BY <1>8
    <3>4. QED
      BY <3>2, <3>3
  <2>3. QED
    BY <2>1, <2>2
<1>11. \A e \in log : \A i \in Int : e.at <= i /\ i < End(e) =>
          /\ i \in 0 .. Size - 1
          /\ mem'[i] = IF e \in R /\ End(e) - 4 <= i THEN 0 ELSE mem[i]
  <2>1. SUFFICES ASSUME NEW e \in log, NEW i \in Int, e.at <= i, i < End(e)
                 PROVE  /\ i \in 0 .. Size - 1
                        /\ mem'[i] = IF e \in R /\ End(e) - 4 <= i THEN 0 ELSE mem[i]
    OBVIOUS
  <2>2. i \in 0 .. Size - 1
    <3>1. e.at \in Nat /\ End(e) \in Nat /\ End(e) <= Size - 4
      BY <1>1
    <3>2. QED
      BY <1>8, <2>1, <3>1
  <2>3. (\E f \in R : End(f) - 4 <= i /\ i < End(f)) <=> e \in R /\ End(e) - 4 <= i
    <3>1. ASSUME NEW f \in R, End(f) - 4 <= i, i < End(f) PROVE f = e
      <4>1. SUFFICES ASSUME f # e PROVE FALSE
        OBVIOUS
      <4>2. End(f) <= e.at \/ End(e) <= f.at
        BY <1>2, <1>3, <4>1
      <4>3. /\ f.at \in Nat /\ f.len \in Nat /\ End(f) \in Nat /\ f.at + f.len <= End(f) - 4
            /\ e.at \in Nat /\ End(e) \in Nat
        BY <1>1, <1>2
      <4>4. QED
        BY <2>1, <3>1, <4>2, <4>3
    <3>2. QED
      BY <2>1, <3>1
  <2>4. QED
    BY <1>9, <2>2, <2>3
<1>12. \A e \in log : \A i \in Int : e.at <= i /\ i < End(e) => mem'[i] = ByteOf(M(e), i)
  <2>1. SUFFICES ASSUME NEW e \in log, NEW i \in Int, e.at <= i, i < End(e)
                 PROVE  mem'[i] = ByteOf(M(e), i)
    OBVIOUS
  <2>2. mem'[i] = IF e \in R /\ End(e) - 4 <= i THEN 0 ELSE mem[i]
    BY <1>11, <2>1
  <2>3. mem[i] = ByteOf(e, i)
    <3>1. i \in e.at .. End(e) - 1
      <4>1. e.at \in Nat /\ End(e) \in Nat
        BY <1>1
      <4>2. QED
        BY <2>1, <4>1
    <3>2. QED
      BY <3>1 DEF Image
  <2>4. CASE e \notin R
    BY <2>2, <2>3, <2>4
  <2>5. CASE e \in R
    <3> DEFINE x == Erased(e)
    <3>1. x.at = e.at /\ x.len = e.len /\ x.key = e.key /\ x.val = e.val /\ x.ver = e.ver
          /\ x.rm = TRUE /\ End(x) = End(e)
      BY <1>6, <2>5
    <3> HIDE DEF x
    <3>2. ByteOf(x, i) = IF i < e.at + e.len THEN Bytes(e.key, e.val, e.ver)[i - e.at]
                         ELSE IF i >= End(e) - 4 THEN 0 ELSE Blank
      BY <3>1 DEF ByteOf
    <3>3. CASE End(e) - 4 <= i
      <4>1. ~(i < e.at + e.len) /\ i >= End(e) - 4
        <5>1. e.at \in Nat /\ e.len \in Nat /\ End(e) \in Nat /\ e.at + e.len <= End(e) - 4
          BY <1>1, <1>2, <2>5
        <5>2. QED
          BY <3>3, <5>1
      <4>2. ByteOf(x, i) = 0
        BY <3>2, <4>1
      <4>3. QED
        BY <2>2, <2>5, <3>3, <4>2 DEF x
    <3>4. CASE ~(End(e) - 4 <= i)
      <4>1. ~(i >= End(e) - 4)
        <5>1. End(e) \in Nat
          BY <1>1
        <5>2. QED
          BY <3>4, <5>1
      <4>2. ByteOf(e, i) = ByteOf(x, i)
        BY <3>2, <4>1 DEF ByteOf
      <4>3. QED
        BY <2>2, <2>3, <2>5, <3>4, <4>2 DEF x
    <3>5. QED
      BY <3>3, <3>4
  <2>6. QED
    BY <2>4, <2>5
<1>13. \A i \in 0 .. Size - 1 : (\A e \in log : i < e.at \/ End(e) <= i) => mem'[i] = Blank
  <2>1. SUFFICES ASSUME NEW i \in 0 .. Size - 1, \A e \in log : i < e.at \/ End(e) <= i
                 PROVE  mem'[i] = Blank
    OBVIOUS
  <2>2. mem[i] = Blank
    BY <2>1 DEF Image
  <2>3. ~(\E f \in R : End(f) - 4 <= i /\ i < End(f))
    <3>1. SUFFICES ASSUME NEW f \in R, End(f) - 4 <= i, i < End(f) PROVE FALSE
      OBVIOUS
    <3>2. f.at \in Nat /\ f.len \in Nat /\ End(f) \in Nat /\ f.at + f.len <= End(f) - 4
      BY <1>1, <1>2
    <3>3. i < f.at \/ End(f) <= i
      BY <1>2, <2>1
    <3>4. QED
      BY <3>1, <3>2, <3>3
  <2>4. QED
    BY <1>9, <2>2, <2>3
<1> HIDE DEF M
<1>14. Image'
  <2>1. \A x \in log' : \A i \in x.at .. End(x) - 1 : mem'[i] = ByteOf(x, i)
    <3>1. SUFFICES ASSUME NEW e \in log, NEW i \in e.at .. End(e) - 1
                   PROVE  mem'[i] = ByteOf(M(e), i)
      BY <1>5, <1>7
    <3>2. e.at \in Nat /\ End(e) \in Nat
      BY <1>1
    <3>3. i \in Int /\ e.at <= i /\ i < End(e)
      BY <3>2
    <3>4. QED
      BY <1>12, <3>3
  <2>2. \A i \in 0 .. Size - 1 : (\A x \in log' : i < x.at \/ End(x) <= i) => mem'[i] = Blank
    <3>1. SUFFICES ASSUME NEW i \in 0 .. Size - 1, \A x \in log' : i < x.at \/ End(x) <= i
                   PROVE  mem'[i] = Blank
      OBVIOUS
    <3>2. \A e \in log : i < M(e).at \/ End(M(e)) <= i
      BY <1>5, <3>1
    <3>3. \A e \in log : i < e.at \/ End(e) <= i
      BY <1>7, <3>2
    <3>4. QED
      BY <1>13, <3>3
  <2>3. QED
    BY <1>10, <2>1, <2>2, Zenon DEF Image
<1>15. LogSound'
  <2>1. \A x \in log' : Sound(x)
    BY <1>5, <1>7
  <2>2. \A x, y \in log' : x = y \/ End(x) <= y.at \/ End(y) <= x.at
    <3>1. SUFFICES ASSUME NEW e \in log, NEW f \in log
                   PROVE  M(e) = M(f) \/ End(M(e)) <= M(f).at \/ End(M(f)) <= M(e).at
      BY <1>5
    <3>2. e = f \/ End(e) <= f.at \/ End(f) <= e.at
      BY <1>3
    <3>3. QED
      BY <1>7, <3>2
  <2>3. QED
    BY <2>1, <2>2, Zenon DEF LogSound
<1>16. Copies' = Copies \ R
  <2>1. \A e \in log : e \in R => M(e).rm = TRUE
    BY <1>6 DEF M
  <2>2. \A e \in log : e \notin R => M(e) = e
    BY DEF M
  <2>3. Copies' = {x \in log' : Whole(x) /\ ~x.rm /\ x.key = Key}
    BY DEF Copies
  <2>4. \A x \in Copies' : x \in Copies \ R
    <3>1. SUFFICES ASSUME NEW e \in log, M(e) \in Copies' PROVE M(e) \in Copies \ R
      BY <1>5, <2>3
    <3>2. Whole(M(e)) /\ ~M(e).rm /\ M(e).key = Key
      BY <2>3, <3>1
    <3>3. e \notin R /\ M(e) = e
      BY <2>1, <2>2, <3>2
    <3>4. QED
      BY <3>2, <3>3 DEF Copies
  <2>5. \A e \in Copies \ R : e \in Copies'
    <3>1. SUFFICES ASSUME NEW e \in Copies, e \notin R PROVE e \in Copies'
      OBVIOUS
    <3>2. e \in log /\ Whole(e) /\ ~e.rm /\ e.key = Key
      BY DEF Copies
    <3>3. e \in log'
      BY <1>5, <2>2, <3>1, <3>2
    <3>4. QED
      BY <2>3, <3>2, <3>3
  <2>6. QED
    BY <2>4, <2>5
<1>17. \A x \in log' : \E e \in log : End(x) = End(e)
  BY <1>5, <1>7
<1>18. QED
  BY <1>14, <1>15, <1>16, <1>17

-----------------------------------------------------------------------------
(* The program of kv_set.                                                  *)

LEMMA NewBytesAre ==
    ASSUME Plain, NodeInv, pc = "program"
    PROVE  /\ new \in Values /\ new \in Seq(0 .. 255) /\ Key \in Seq(1 .. 254)
           /\ MallocSize(Key, new) \in Nat /\ MallocSize(Key, new) % 4 = 0
           /\ Len(Key) + Len(new) + 6 <= MallocSize(Key, new)
           /\ wo \in Nat /\ wo % 4 = 0 /\ wo + MallocSize(Key, new) + 4 <= Size - 4
           /\ \A e \in log : End(e) <= wo
           /\ NewBytes[0] # Blank
<1>1. new \in Values /\ Fits(Key, new)
  BY DEF NodeInv, CopiesSound
<1>2. new \in Seq(0 .. 255) /\ Key \in Seq(1 .. 254)
  BY <1>1, ValueOf, Constants
<1>3. /\ MallocSize(Key, new) \in Nat /\ MallocSize(Key, new) % 4 = 0
      /\ Len(Key) + Len(new) + 6 <= MallocSize(Key, new)
  BY <1>2, Sizes
<1>4. wo \in Nat /\ wo % 4 = 0 /\ \A e \in log : End(e) <= wo
  <2>1. wo \in 0 .. Size - 4
    BY DEF NodeInv, OffsetSound
  <2>2. wo \in Nat
    BY <2>1
  <2>3. QED
    BY <2>2 DEF NodeInv, OffsetSound
<1>5. NewBytes[0] # Blank
  <2>1. K \in 3 .. 63 /\ \A i \in 1 .. K : Key[i] \in 1 .. 254
    BY Constants
  <2>2. 1 \in 1 .. K /\ 0 \in 0 .. K - 1 /\ 0 + 1 = 1
    BY <2>1
  <2>3. \A i \in 0 .. K - 1 : Bytes(Key, new, NextVer(old))[i] = Key[i + 1]
    <3>1. \A k \in Seq(1 .. 254), v \in Seq(0 .. 255) : \A r :
            \A i \in 0 .. Len(k) - 1 : Bytes(k, v, r)[i] = k[i + 1]
      BY BytesAre
    <3>2. QED
      BY <1>2, <3>1, Zenon DEF K
  <2>4. NewBytes[0] = Key[0 + 1]
    BY <2>2, <2>3 DEF NewBytes
  <2>5. Key[1] \in 1 .. 254
    BY <2>1, <2>2
  <2>6. QED
    BY <2>2, <2>4, <2>5 DEF Blank
<1>6. wo + MallocSize(Key, new) + 4 <= Size - 4
  BY <1>1 DEF Fits
<1>7. QED
  BY <1>1, <1>2, <1>3, <1>4, <1>5, <1>6

LEMMA LeftIs ==
    ASSUME Plain, NodeInv, pc = "program", NEW n \in Nat, n >= 1
    PROVE  /\ Left(n) \in 1 .. n /\ NewBytes[Left(n) - 1] # Blank
           /\ \A i \in Left(n) .. n - 1 : NewBytes[i] = Blank
<1> DEFINE S == {i \in 1 .. n : NewBytes[i - 1] # Blank}
           l == Max(S)
<1>1. 1 \in S
  <2>1. NewBytes[1 - 1] # Blank
    <3>1. 1 - 1 = 0
      OBVIOUS
    <3>2. QED
      BY <3>1, NewBytesAre
  <2>2. QED
    BY <2>1
<1>2. S \in SUBSET Nat /\ \A x \in S : x <= n
  OBVIOUS
<1>3. l \in S /\ \A x \in S : x <= l
  <2> HIDE DEF S
  <2>1. QED
    BY <1>1, <1>2, MaxOf
<1>4. l \in 1 .. n /\ NewBytes[l - 1] # Blank
  <2> HIDE DEF l
  <2>1. QED
    BY <1>3
<1>5. \A i \in l .. n - 1 : NewBytes[i] = Blank
  <2>1. SUFFICES ASSUME NEW i \in l .. n - 1, NewBytes[i] # Blank PROVE FALSE
    OBVIOUS
  <2>2. l \in Nat
    BY <1>4
  <2> HIDE DEF l
  <2>3. i + 1 \in 1 .. n /\ i + 1 - 1 = i /\ ~(i + 1 <= l)
    BY <1>4, <2>2
  <2>4. i + 1 \in S
    BY <2>1, <2>3
  <2> HIDE DEF S
  <2>5. QED
    BY <1>3, <2>3, <2>4
<1>6. Left(n) = l
  BY DEF Left
<1> HIDE DEF l
<1>7. QED
  BY <1>4, <1>5, <1>6

LEMMA NextVersion ==
    ASSUME Plain, NodeInv, pc = "program"
    PROVE  /\ NextVer(old) \in 1 .. 255
           /\ \A e \in Copies : Follows(NextVer(old), e.ver) /\ old = NodeOf(e) /\ old # None
           /\ Copies = {} => old = None
<1>1. \A e, f \in Copies : e = f
  BY DEF NodeInv, CopiesSound
<1>2. \/ Copies = {} /\ old = None
      \/ \E e \in Copies : old = NodeOf(e)
  BY DEF NodeInv, CopiesSound
<1>3. CASE Copies = {} /\ old = None
  BY <1>3 DEF NextVer
<1>4. ASSUME NEW e \in Copies, old = NodeOf(e)
      PROVE  /\ NextVer(old) \in 1 .. 255
             /\ Follows(NextVer(old), e.ver) /\ old # None
  <2>1. old # None
    BY <1>1, <1>4, FindIs DEF NodeInv
  <2>2. e.ver \in 1 .. 255
    BY Shape DEF NodeInv, LogSound, Copies
  <2>3. old.ver = e.ver
    BY <1>4, NodeOfIs, Zenon
  <2>4. NextVer(old) = IF e.ver = 255 THEN 1 ELSE e.ver + 1
    BY <2>1, <2>3 DEF NextVer
  <2>5. QED
    BY <2>1, <2>2, <2>4 DEF Follows
<1>5. QED
  BY <1>1, <1>2, <1>3, <1>4

LEMMA NewEntry ==
    ASSUME Plain, NodeInv, pc = "program", NEW n \in Nat, n <= MallocSize(Key, new),
           NEW l \in 1 .. n, \A i \in l .. n - 1 : NewBytes[i] = Blank,
           l = MallocSize(Key, new) \/ NewBytes[l - 1] # Blank,
           mem' = Program(mem, wo, NewBytes, n), log' = log \cup {Entry(l, FALSE)}
    PROVE  LET x == Entry(l, FALSE)
           IN  /\ LogSound' /\ Image'
               /\ x.val = new /\ x.ver = NextVer(old)
               /\ Copies' = IF Whole(x) THEN Copies \cup {x} ELSE Copies
               /\ l = MallocSize(Key, new) => Whole(x) /\ End(x) = wo + MallocSize(Key, new) + 4
<1> DEFINE x == Entry(l, FALSE)
           M == MallocSize(Key, new)
           k == Len(Key)
           v == Len(new)
<1>1. /\ new \in Values /\ new \in Seq(0 .. 255) /\ Key \in Seq(1 .. 254)
      /\ M \in Nat /\ M % 4 = 0 /\ k + v + 6 <= M
      /\ wo \in Nat /\ wo % 4 = 0 /\ wo + M + 4 <= Size - 4
      /\ \A e \in log : End(e) <= wo
  BY NewBytesAre
<1>2. /\ x.at = wo /\ x.len = l /\ x.key = Key /\ x.val = new /\ x.ver = NextVer(old) /\ x.rm = FALSE
      /\ x = [at |-> x.at, len |-> x.len, key |-> x.key, val |-> x.val, ver |-> x.ver, rm |-> x.rm]
  BY DEF Entry
<1>3. k \in Nat /\ v \in Nat /\ Size \in Nat
  <2>1. Size \in Nat
    BY Constants
  <2>2. QED
    BY <1>1, <2>1
<1>4. Trailer(x) = wo + k + 5 + v
  <2> HIDE DEF x
  <2>1. QED
    BY <1>2 DEF Trailer, Nul, RW_FLAG_SIZE
<1>5. l = M => Whole(x)
  <2>1. l = M => Trailer(x) < wo + l
    <3> HIDE DEF M, k, v, x
    <3>1. QED
      BY <1>1, <1>3, <1>4
  <2> HIDE DEF x, M
  <2>2. QED
    BY <2>1, <1>2 DEF Whole
<1>6. Whole(x) => End(x) = wo + M + 4
  <2> HIDE DEF x
  <2>1. QED
    BY <1>2 DEF End
<1>7. End(x) <= Size - 4
  <2>1. CASE Whole(x)
    BY <1>1, <1>6, <2>1
  <2>2. CASE ~Whole(x)
    <3>1. End(x) = wo + align4(l)
      <4> HIDE DEF x
      <4>1. QED
        BY <1>2, <2>2 DEF End
    <3>2. l \in Nat /\ l <= M
      <4> HIDE DEF M
      <4>1. QED
        BY <1>1 DEF M
    <3>3. align4(l) <= M /\ align4(l) \in Nat
      <4> HIDE DEF M
      <4>1. QED
        BY <1>1, <3>2, AlignedUpTo, Aligned
    <3> DEFINE A == align4(l)
    <3>6. A <= M /\ A \in Nat
      BY <3>3
    <3> HIDE DEF M, A
    <3>4. wo + A <= Size - 4
      BY <1>1, <1>3, <3>6
    <3>5. QED
      BY <3>1, <3>4 DEF A
  <2>3. QED
    BY <2>1, <2>2
<1>8. Sound(x)
  <2>1. NextVer(old) \in 1 .. 255
    BY NextVersion
  <2>2. l \in 1 .. M
    <3> HIDE DEF M
    <3>1. QED
      BY <1>1 DEF M
  <2>3. ~Whole(x) => Bytes(x.key, x.val, x.ver)[x.len - 1] # Blank
    <3>1. ~Whole(x) => NewBytes[l - 1] # Blank
      BY <1>5
    <3> HIDE DEF x
    <3>2. QED
      BY <1>2, <3>1 DEF NewBytes
  <2>4. x.at \in Nat /\ x.at % 4 = 0 /\ x.ver \in 1 .. 255 /\ x.len \in 1 .. MallocSize(x.key, x.val)
    <3> HIDE DEF x
    <3>1. QED
      BY <1>1, <1>2, <2>1, <2>2
  <2>5. x.rm \in BOOLEAN /\ ~x.rm /\ x.key = Key /\ x.val \in Values
    <3> HIDE DEF x
    <3>1. QED
      BY <1>1, <1>2
  <2> HIDE DEF x
  <2>6. QED
    BY <1>2, <1>7, <2>3, <2>4, <2>5, Zenon DEF Sound
<1>9. LogSound' /\ Image'
  <2>1. Word(x) = NewBytes /\ Area(x) = M
    <3> HIDE DEF x
    <3>1. QED
      BY <1>2 DEF Word, NewBytes, Area
  <2>2. x.at + Area(x) <= Size
    <3> HIDE DEF M, x
    <3>1. QED
      BY <1>1, <1>2, <1>3, <2>1
  <2>3. x.len <= n /\ n <= Area(x) /\ \A i \in x.len .. n - 1 : Word(x)[i] = Blank
    <3> HIDE DEF x
    <3>1. QED
      BY <1>2, <2>1
  <2>4. mem' = Program(mem, x.at, Word(x), n) /\ \A e \in log : End(e) <= x.at
    <3> HIDE DEF x
    <3>1. QED
      BY <1>1, <1>2, <2>1
  <2>5. LogSound /\ Image /\ log' = log \cup {x}
    BY DEF NodeInv
  <2> HIDE DEF x
  <2>6. QED
    BY <1>2, <1>8, <2>2, <2>3, <2>4, <2>5, Appended
<1>10. Copies' = IF Whole(x) THEN Copies \cup {x} ELSE Copies
  <2>1. Copies' = {e \in log \cup {x} : Whole(e) /\ ~e.rm /\ e.key = Key}
    BY DEF Copies
  <2> HIDE DEF x
  <2>2. ~x.rm /\ x.key = Key
    BY <1>2
  <2>3. CASE Whole(x)
    BY <2>1, <2>2, <2>3 DEF Copies
  <2>4. CASE ~Whole(x)
    BY <2>1, <2>4 DEF Copies
  <2>5. QED
    BY <2>3, <2>4
<1>11. QED
  BY <1>2, <1>5, <1>6, <1>9, <1>10

-----------------------------------------------------------------------------
(* The steps.                                                              *)

LEMMA StartHolds ==
    ASSUME Plain, Init
    PROVE  NodeInv
<1> DEFINE x == [at |-> 0, len |-> MallocSize(Other, Other), key |-> Other, val |-> Other,
                 ver |-> 1, rm |-> FALSE]
           M == MallocSize(Other, Other)
           n == Len(Other)
           b == Bytes(Other, Other, 1)
<1>1. /\ Size \in Nat /\ Size >= 19 /\ Other \in Seq(1 .. 254) /\ Other \in Seq(0 .. 255)
      /\ n \in 1 .. 63 /\ Other # Key
  BY Constants
<1>2. 2 * n + 17 <= Size
  BY KVNodeAssumption
<1>3. M \in Nat /\ M % 4 = 0 /\ n + n + 6 <= M /\ M <= n + n + 9
  BY <1>1, Sizes
<1>4. /\ x.at = 0 /\ x.len = M /\ x.key = Other /\ x.val = Other /\ x.ver = 1 /\ x.rm = FALSE
      /\ x = [at |-> x.at, len |-> x.len, key |-> x.key, val |-> x.val, ver |-> x.ver, rm |-> x.rm]
  OBVIOUS
<1>5. log = {x}
  BY DEF Init
<1> HIDE DEF x
<1>6. Whole(x)
  <2>1. Trailer(x) = 0 + n + 5 + n
    BY <1>4 DEF Trailer, Nul, RW_FLAG_SIZE
  <2>2. Trailer(x) < 0 + M
    <3> HIDE DEF n, M
    <3>1. QED
      BY <1>1, <1>3, <2>1
  <2>3. QED
    BY <1>4, <2>2 DEF Whole
<1>7. End(x) = 0 + M + 4
  BY <1>4, <1>6 DEF End
<1>8. M + 4 <= Size - 4 /\ M \in Nat /\ M >= 1
  <2> HIDE DEF n, M
  <2>1. QED
    BY <1>1, <1>2, <1>3
<1>9. Sound(x)
  <2>1. x.at \in Nat /\ x.at % 4 = 0 /\ x.ver \in 1 .. 255 /\ x.len \in 1 .. MallocSize(x.key, x.val)
    <3>1. M \in 1 .. M
      <4> HIDE DEF M
      <4>1. QED
        BY <1>8
    <3>2. QED
      BY <1>4, <3>1
  <2>2. x.rm \in BOOLEAN
    BY <1>4
  <2>3. End(x) <= Size - 4
    <3> HIDE DEF M
    <3>1. QED
      BY <1>1, <1>7, <1>8
  <2>4. QED
    BY <1>4, <1>6, <2>1, <2>2, <2>3, Zenon DEF Sound
<1>10. LogSound
  BY <1>5, <1>9 DEF LogSound
<1>11. Word(x) = b
  BY <1>4 DEF Word
<1>12. mem = [i \in 0 .. Size - 1 |-> IF i \in 0 .. M - 1 THEN b[i] ELSE Blank]
  <2> DEFINE m0 == [i \in 0 .. Size - 1 |-> Blank]
  <2>1. mem = [i \in DOMAIN m0 |-> IF i \in 0 .. 0 + M - 1
                 THEN IF m0[i] = Blank THEN b[i - 0] ELSE Both(m0[i], b[i - 0]) ELSE m0[i]]
    BY DEF Init, Program
  <2>2. 0 + M - 1 = M - 1
    <3> HIDE DEF M
    <3>1. QED
      BY <1>8
  <2>3. \A i \in 0 .. Size - 1 : i - 0 = i /\ m0[i] = Blank
    BY <1>1
  <2>4. DOMAIN m0 = 0 .. Size - 1
    OBVIOUS
  <2> HIDE DEF m0, b, M
  <2>5. QED
    BY <2>1, <2>2, <2>3, <2>4
<1>13. Image
  <2>1. \A q \in 0 .. M - 1 : b[q] \in 0 .. 255
    BY <1>4, <1>9, <1>11, WordCases DEF Area
  <2> HIDE DEF b, M
  <2>2. \A i \in 0 .. Size - 1 : mem[i] \in 0 .. 255
    BY <1>12, <2>1 DEF Blank
  <2>3. mem \in [0 .. Size - 1 -> 0 .. 255]
    BY <1>12, <2>2
  <2>4. \A i \in x.at .. End(x) - 1 : mem[i] = ByteOf(x, i)
    <3>1. SUFFICES ASSUME NEW i \in 0 .. (0 + M + 4) - 1 PROVE mem[i] = ByteOf(x, i)
      BY <1>4, <1>7
    <3>2. i \in 0 .. Size - 1 /\ i - 0 = i /\ 0 + M = M /\ (i \in 0 .. M - 1 <=> i < M)
      BY <1>1, <1>8
    <3>3. ByteOf(x, i) = IF i < 0 + M THEN b[i - 0] ELSE Blank
      BY <1>4 DEF ByteOf, b
    <3>4. QED
      BY <1>12, <3>2, <3>3
  <2>5. \A i \in 0 .. Size - 1 : i < x.at \/ End(x) <= i => mem[i] = Blank
    <3>1. SUFFICES ASSUME NEW i \in 0 .. Size - 1, i < 0 \/ 0 + M + 4 <= i PROVE mem[i] = Blank
      BY <1>4, <1>7
    <3>2. ~(i \in 0 .. M - 1)
      BY <1>8, <3>1
    <3>3. QED
      BY <1>12, <3>2
  <2>6. QED
    BY <1>5, <2>3, <2>4, <2>5 DEF Image
<1>14. OffsetSound
  <2>1. wo = 0 /\ pc = "init"
    BY DEF Init
  <2>2. 0 \in 0 .. Size - 4 /\ 0 % 4 = 0
    BY <1>1
  <2>3. QED
    BY <2>1, <2>2 DEF OffsetSound
<1>15. CopiesSound
  <2>1. Copies = {}
    BY <1>1, <1>4, <1>5 DEF Copies
  <2>2. pc = "init" /\ expect = {<<>>}
    BY DEF Init
  <2>3. QED
    BY <2>1, <2>2 DEF CopiesSound
<1>16. pc = "init" /\ torn \in 0 .. MaxTorn
  BY KVNodeAssumption DEF Init
<1>17. QED
  BY <1>10, <1>13, <1>14, <1>15, <1>16 DEF NodeInv

LEMMA Versions ==
    ASSUME NEW r \in 1 .. 255, NEW s \in 1 .. 255
    PROVE  /\ ~Newer(r, r)
           /\ Follows(r, s) => Newer(r, s) /\ ~Newer(s, r)
  BY DEF Newer, Follows

LEMMA BootHolds ==
    ASSUME Plain, NodeInv, Searched, Boot
    PROVE  NodeInv'
<1> DEFINE R == {e \in Copies : \E f \in Copies : Newer(f.ver, e.ver)}
           stale == {n \in Hits : \E m \in Hits : Newer(m.ver, n.ver)}
<1>1. LogSound /\ Image /\ CopiesSound /\ torn \in 0 .. MaxTorn
  BY DEF NodeInv
<1>2. /\ wo' = CalcOffset /\ pc' = "idle" /\ UNCHANGED <<new, old, expect, torn>>
      /\ mem' = Cleared(stale) /\ log' = Marked(stale)
  BY DEF Boot
<1>3. stale = {NodeOf(e) : e \in R}
  <2>1. Hits = {NodeOf(e) : e \in Copies}
    BY <1>1, HitsAre
  <2>2. \A e : NodeOf(e).ver = e.ver
    BY NodeOfIs, Zenon
  <2>3. QED
    BY <2>1, <2>2
<1>4. R \in SUBSET {f \in log : Whole(f)}
  BY DEF Copies
<1>5. /\ LogSound' /\ Image' /\ Copies' = Copies \ R
      /\ \A x \in log' : \E e \in log : End(x) = End(e)
  <2> HIDE DEF R, stale
  <2>1. QED
    BY <1>1, <1>2, <1>3, <1>4, MarkedIs
<1>6. OffsetSound'
  <2>1. CalcOffset \in 0 .. Size - 4 /\ CalcOffset % 4 = 0 /\ \A e \in log : End(e) <= CalcOffset
    BY <1>1, CalcOffsetIs
  <2>2. \A x \in log' : End(x) <= wo'
    BY <1>2, <1>5, <2>1
  <2>3. QED
    BY <1>2, <2>1, <2>2 DEF OffsetSound
<1>7. \A e \in Copies : e.ver \in 1 .. 255
  BY <1>1, Shape DEF LogSound, Copies
<1>8. \A e, f \in Copies : e = f \/ Follows(e.ver, f.ver) \/ Follows(f.ver, e.ver)
  BY <1>1 DEF CopiesSound
<1>9. \A e, f \in Copies' : e = f
  <2>1. SUFFICES ASSUME NEW e \in Copies, NEW f \in Copies, e # f, e \notin R, f \notin R PROVE FALSE
    BY <1>5
  <2>2. Newer(e.ver, f.ver) \/ Newer(f.ver, e.ver)
    BY <1>7, <1>8, <2>1, Versions
  <2>3. QED
    BY <2>1, <2>2
<1>10. Copies' = {} => Copies = {}
  <2>1. SUFFICES ASSUME Copies' = {}, NEW e \in Copies PROVE FALSE
    OBVIOUS
  <2>2. Copies \subseteq R
    BY <1>5, <2>1
  <2>3. PICK f \in Copies : Newer(f.ver, e.ver)
    BY <2>2
  <2>4. PICK g \in Copies : Newer(g.ver, f.ver)
    BY <2>2
  <2>5. f # e /\ g # f
    <3>1. \A h \in Copies : ~Newer(h.ver, h.ver)
      BY <1>7, Versions
    <3>2. QED
      BY <2>3, <2>4, <3>1
  <2>6. g = e
    BY <1>1, <2>5 DEF CopiesSound
  <2>7. QED
    BY <1>7, <1>8, <2>3, <2>4, <2>5, <2>6, Versions
<1>11. CopiesSound'
  <2> HIDE DEF R
  <2>1. Copies' \subseteq Copies /\ expect' = expect
    BY <1>2, <1>5
  <2>2. (Copies = {} => <<>> \in expect) /\ \A e \in Copies : e.val \in expect
    BY <1>1 DEF CopiesSound
  <2>3. (Copies' = {} => <<>> \in expect') /\ \A e \in Copies' : e.val \in expect'
    BY <1>10, <2>1, <2>2
  <2>4. QED
    BY <1>2, <1>9, <2>3 DEF CopiesSound
<1>12. QED
  BY <1>1, <1>2, <1>5, <1>6, <1>11 DEF NodeInv

LEMMA SetHolds ==
    ASSUME Plain, NodeInv, NEW v \in Values, Set(v)
    PROVE  NodeInv'
<1>1. /\ pc = "idle" /\ Fits(Key, v) /\ old' = kv_find /\ new' = v /\ pc' = "program"
      /\ expect' = expect \cup {v} /\ UNCHANGED <<mem, wo, torn, log>>
  BY DEF Set
<1>2. LogSound /\ Image /\ OffsetSound /\ CopiesSound /\ torn \in 0 .. MaxTorn
  BY DEF NodeInv
<1>3. LogSound' /\ Image' /\ OffsetSound' /\ Copies' = Copies
  BY <1>1, <1>2 DEF LogSound, Image, OffsetSound, Copies
<1>4. \A e, f \in Copies : e = f
  BY <1>1, <1>2 DEF CopiesSound
<1>5. \/ Copies = {} /\ old' = None
      \/ \E e \in Copies : old' = NodeOf(e)
  <2>1. /\ Copies = {} => kv_find = None
        /\ \A e \in Copies : kv_find = NodeOf(e)
    BY <1>2, <1>4, FindIs
  <2>2. QED
    BY <1>1, <2>1
<1>6. Fits(Key, v)'
  BY <1>1 DEF Fits
<1>7. CopiesSound'
  <2>1. (Copies = {} => <<>> \in expect) /\ \A e \in Copies : e.val \in expect
    BY <1>2 DEF CopiesSound
  <2>2. Fits(Key, new)'
    BY <1>1 DEF Fits
  <2>3. (Copies' = {} => <<>> \in expect') /\ \A e \in Copies' : e.val \in expect'
    BY <1>1, <1>3, <2>1
  <2>4. new' \in Values /\ new' \in expect'
    BY <1>1
  <2>5. QED
    BY <1>1, <1>3, <1>4, <1>5, <2>2, <2>3, <2>4 DEF CopiesSound
<1>8. QED
  BY <1>1, <1>2, <1>3, <1>7 DEF NodeInv

(* The block is blank from write_offset on: the program reads back right. *)
LEMMA ReadsBack ==
    ASSUME Plain, NodeInv, pc = "program"
    PROVE  LET size == MallocSize(Key, new)
           IN  \A i \in 0 .. size - 1 : Program(mem, wo, NewBytes, size)[wo + i] = NewBytes[i]
<1> DEFINE M == MallocSize(Key, new)
<1>1. M \in Nat /\ wo \in Nat /\ wo + M + 4 <= Size - 4 /\ \A e \in log : End(e) <= wo
  BY NewBytesAre
<1>2. SUFFICES ASSUME NEW i \in 0 .. M - 1 PROVE Program(mem, wo, NewBytes, M)[wo + i] = NewBytes[i]
  OBVIOUS
<1>3. Size \in Nat
  BY Constants
<1> HIDE DEF M
<1> DEFINE j == wo + i
<1>4. j \in 0 .. Size - 1 /\ j \in wo .. wo + M - 1 /\ j - wo = i /\ wo <= j
  BY <1>1, <1>3
<1> HIDE DEF j
<1>5. mem[j] = Blank
  <2>1. \A e \in log : End(e) <= j
    <3>1. ASSUME NEW e \in log PROVE End(e) <= j
      <4>1. End(e) \in Nat /\ End(e) <= wo
        BY <1>1, Place DEF NodeInv, LogSound
      <4>2. QED
        BY <1>1, <1>4, <4>1
    <3>2. QED
      BY <3>1
  <2>2. QED
    BY <1>4, <2>1 DEF NodeInv, Image
<1>6. DOMAIN mem = 0 .. Size - 1
  BY DEF NodeInv, Image
<1>7. Program(mem, wo, NewBytes, M)[j] = NewBytes[j - wo]
  BY <1>4, <1>5, <1>6 DEF Program
<1>8. QED
  BY <1>4, <1>7 DEF j

LEMMA ProgramHolds ==
    ASSUME Plain, NodeInv, SetProgram
    PROVE  NodeInv'
<1> DEFINE M == MallocSize(Key, new)
           x == Entry(M, FALSE)
<1>1. pc = "program"
  BY DEF SetProgram
<1>2. \A i \in 0 .. M - 1 : Program(mem, wo, NewBytes, M)[wo + i] = NewBytes[i]
  BY <1>1, ReadsBack
<1>3. /\ wo' = wo + M + 4 /\ mem' = Program(mem, wo, NewBytes, M) /\ log' = log \cup {x}
      /\ IF old = None THEN Done(new) ELSE pc' = "rm" /\ UNCHANGED <<new, old, expect>>
      /\ UNCHANGED torn
  BY <1>2 DEF SetProgram
<1>4. /\ M \in Nat /\ M % 4 = 0 /\ wo \in Nat /\ wo % 4 = 0 /\ wo + M + 4 <= Size - 4
      /\ \A e \in log : End(e) <= wo
  BY <1>1, NewBytesAre
<1>5. M >= 1
  <2>1. Len(Key) + Len(new) + 6 <= M /\ new \in Seq(0 .. 255) /\ Key \in Seq(1 .. 254)
    BY <1>1, NewBytesAre
  <2> DEFINE k == Len(Key)
             v == Len(new)
  <2>2. k \in Nat /\ v \in Nat /\ k + v + 6 <= M
    BY <2>1
  <2> HIDE DEF M, k, v
  <2>3. QED
    BY <1>4, <2>2
<1>6. /\ LogSound' /\ Image' /\ x.val = new /\ x.ver = NextVer(old)
      /\ Copies' = Copies \cup {x} /\ End(x) = wo + M + 4
  <2>1. M \in 1 .. M /\ M <= M /\ \A i \in M .. M - 1 : NewBytes[i] = Blank
    <3> HIDE DEF M
    <3>1. QED
      BY <1>4, <1>5
  <2>2. LET y == Entry(M, FALSE)
        IN  /\ LogSound' /\ Image'
            /\ y.val = new /\ y.ver = NextVer(old)
            /\ Copies' = IF Whole(y) THEN Copies \cup {y} ELSE Copies
            /\ M = MallocSize(Key, new) => Whole(y) /\ End(y) = wo + MallocSize(Key, new) + 4
    BY <1>1, <1>3, <1>4, <2>1, NewEntry
  <2> HIDE DEF x
  <2>3. /\ LogSound' /\ Image' /\ x.val = new /\ x.ver = NextVer(old)
        /\ Copies' = (IF Whole(x) THEN Copies \cup {x} ELSE Copies)
        /\ Whole(x) /\ End(x) = wo + M + 4
    BY <2>2 DEF x
  <2>4. QED
    BY <2>3
<1>7. /\ \A e \in Copies : Follows(NextVer(old), e.ver) /\ old = NodeOf(e) /\ old # None
      /\ Copies = {} => old = None
  BY <1>1, NextVersion
<1>8. /\ torn \in 0 .. MaxTorn /\ new \in expect /\ \A e, f \in Copies : e = f
      /\ \A e \in Copies : e.val \in expect
  BY <1>1 DEF NodeInv, CopiesSound
<1>9. OffsetSound'
  <2>1. Size \in Nat
    BY Constants
  <2>2. \A e \in log' : End(e) <= wo'
    <3>1. ASSUME NEW e \in log PROVE End(e) <= wo + M + 4
      <4>1. End(e) \in Nat /\ End(e) <= wo
        BY <1>4, Place DEF NodeInv, LogSound
      <4> HIDE DEF M
      <4>2. QED
        BY <1>4, <4>1
    <3>2. End(x) <= wo + M + 4
      <4> HIDE DEF M, x
      <4>1. QED
        BY <1>4, <1>6
    <3> HIDE DEF M, x
    <3>3. QED
      BY <1>3, <3>1, <3>2
  <2>3. wo + M + 4 \in 0 .. Size - 4 /\ (wo + M + 4) % 4 = 0
    <3> HIDE DEF M
    <3>1. QED
      BY <1>4, <2>1
  <2> HIDE DEF M, x
  <2>4. QED
    BY <1>3, <2>2, <2>3 DEF OffsetSound
<1> HIDE DEF M, x
<1>10. CASE Copies = {}
  <2>1. /\ new' = <<>> /\ old' = None /\ expect' = {new} /\ pc' = "idle"
    BY <1>3, <1>7, <1>10 DEF Done
  <2>2. Copies' = {x}
    BY <1>6, <1>10
  <2>3. CopiesSound'
    BY <1>6, <2>1, <2>2 DEF CopiesSound
  <2>4. QED
    BY <1>3, <1>6, <1>8, <1>9, <2>1, <2>3 DEF NodeInv
<1>11. ASSUME NEW e \in Copies PROVE NodeInv'
  <2>1. pc' = "rm" /\ UNCHANGED <<new, old, expect>>
    BY <1>3, <1>7
  <2>2. Copies' = {e, x}
    BY <1>6, <1>8
  <2>3. e # x
    <3>1. e \in log /\ e.at \in Nat /\ End(e) \in Nat /\ e.at < End(e) /\ End(e) <= wo
      <4>1. e \in log
        BY DEF Copies
      <4>2. e.at \in Nat /\ e.len \in Nat /\ e.len >= 1 /\ End(e) \in Nat /\ e.at + e.len <= End(e)
        BY <4>1, Place DEF NodeInv, LogSound
      <4>3. QED
        BY <1>4, <4>1, <4>2
    <3>2. End(x) # End(e)
      BY <1>4, <1>6, <3>1
    <3>3. QED
      BY <3>2
  <2>4. Follows(x.ver, e.ver) /\ old' = NodeOf(e) /\ x.val = new'
    BY <1>6, <1>7, <2>1
  <2>5. e.val \in expect' /\ x.val \in expect'
    BY <1>6, <1>8, <2>1
  <2>6. CopiesSound'
    BY <2>1, <2>2, <2>3, <2>4, <2>5 DEF CopiesSound
  <2>7. QED
    BY <1>3, <1>6, <1>8, <1>9, <2>1, <2>6 DEF NodeInv
<1>12. QED
  BY <1>10, <1>11

LEMMA RmHolds ==
    ASSUME Plain, NodeInv, SetRm
    PROVE  NodeInv'
<1>1. /\ pc = "rm" /\ mem' = Cleared({old}) /\ log' = Marked({old}) /\ UNCHANGED <<wo, torn>>
      /\ new' = <<>> /\ old' = None /\ expect' = {new} /\ pc' = "idle"
  BY DEF SetRm, Done
<1>2. LogSound /\ Image /\ OffsetSound /\ torn \in 0 .. MaxTorn
  BY DEF NodeInv
<1>3. PICK e \in Copies, f \in Copies : e # f /\ old = NodeOf(e) /\ f.val = new
  BY <1>1 DEF NodeInv, CopiesSound
<1>4. Copies = {e, f}
  BY <1>3 DEF NodeInv, CopiesSound
<1>5. {e} \in SUBSET {g \in log : Whole(g)} /\ {old} = {NodeOf(g) : g \in {e}}
  BY <1>3 DEF Copies
<1>6. /\ LogSound' /\ Image' /\ Copies' = Copies \ {e}
      /\ \A x \in log' : \E g \in log : End(x) = End(g)
  BY <1>1, <1>2, <1>5, MarkedIs
<1>7. Copies' = {f}
  BY <1>3, <1>4, <1>6
<1>8. OffsetSound'
  <2>1. \A g \in log : End(g) <= wo
    BY <1>1, <1>2 DEF OffsetSound
  <2>2. \A x \in log' : End(x) <= wo'
    BY <1>1, <1>6, <2>1
  <2>3. QED
    BY <1>1, <1>2, <2>2 DEF OffsetSound
<1>9. CopiesSound'
  BY <1>1, <1>3, <1>7 DEF CopiesSound
<1>10. QED
  BY <1>1, <1>2, <1>6, <1>8, <1>9 DEF NodeInv

LEMMA LossHolds ==
    ASSUME Plain, NodeInv, NEW n \in 0 .. Size, n <= MallocSize(Key, new), PowerLoss(n)
    PROVE  NodeInv'
<1>1. wo' = 0 /\ pc' = "init" /\ new' = <<>> /\ old' = None /\ expect' = expect
  BY DEF PowerLoss
<1>2. Size \in Nat /\ Size >= 19 /\ n \in Nat /\ MaxTorn \in Nat
  BY Constants, KVNodeAssumption
<1>3. OffsetSound'
  <2>1. 0 \in 0 .. Size - 4 /\ 0 % 4 = 0
    BY <1>2
  <2>2. QED
    BY <1>1, <2>1 DEF OffsetSound
<1>4. /\ LogSound /\ Image /\ CopiesSound /\ torn \in 0 .. MaxTorn
  BY DEF NodeInv
<1>5. CASE ~(n > 0)
  <2>1. mem' = mem /\ log' = log /\ torn' = torn
    BY <1>5 DEF PowerLoss
  <2>2. LogSound' /\ Image' /\ Copies' = Copies
    BY <1>4, <2>1 DEF LogSound, Image, Copies
  <2>3. CopiesSound'
    BY <1>1, <1>4, <2>2 DEF CopiesSound
  <2>4. QED
    BY <1>1, <1>3, <1>4, <2>1, <2>2, <2>3 DEF NodeInv
<1>6. CASE n > 0
  <2> DEFINE l == Left(n)
             x == Entry(l, FALSE)
  <2>1. /\ pc = "program" /\ torn < MaxTorn /\ torn' = torn + 1
        /\ mem' = Program(mem, wo, NewBytes, n) /\ log' = log \cup {x}
    BY <1>6 DEF PowerLoss
  <2>2. /\ l \in 1 .. n /\ NewBytes[l - 1] # Blank /\ \A i \in l .. n - 1 : NewBytes[i] = Blank
    <3>1. n >= 1
      BY <1>2, <1>6
    <3>2. QED
      BY <1>2, <2>1, <3>1, LeftIs
  <2>3. /\ LogSound' /\ Image' /\ x.val = new /\ x.ver = NextVer(old)
        /\ Copies' = IF Whole(x) THEN Copies \cup {x} ELSE Copies
    <3> HIDE DEF l
    <3>1. QED
      BY <1>2, <2>1, <2>2, NewEntry
  <2>4. \A e \in Copies : Follows(NextVer(old), e.ver)
    BY <2>1, NextVersion
  <2>5. new \in expect /\ \A e, f \in Copies : e = f
    BY <1>4, <2>1 DEF CopiesSound
  <2>6. (Copies = {} => <<>> \in expect) /\ \A e \in Copies : e.val \in expect
    BY <1>4 DEF CopiesSound
  <2> HIDE DEF l, x
  <2>7. Copies' \subseteq Copies \cup {x} /\ Copies \subseteq Copies'
    BY <2>3
  <2>8. (Copies' = {} => <<>> \in expect') /\ \A e \in Copies' : e.val \in expect'
    BY <1>1, <2>3, <2>5, <2>6, <2>7
  <2>9. \A e, f \in Copies' : e = f \/ Follows(e.ver, f.ver) \/ Follows(f.ver, e.ver)
    BY <2>3, <2>4, <2>5, <2>7
  <2>10. \A e, f, g \in Copies' : e = f \/ f = g \/ e = g
    BY <2>5, <2>7
  <2>11. CopiesSound'
    BY <1>1, <2>8, <2>9, <2>10 DEF CopiesSound
  <2>12. torn' \in 0 .. MaxTorn
    BY <1>2, <1>4, <2>1
  <2>13. QED
    BY <1>1, <1>3, <2>3, <2>11, <2>12 DEF NodeInv
<1>7. QED
  BY <1>5, <1>6

-----------------------------------------------------------------------------
(* What a step leaves of the history.                                      *)

Records == \A e \in log : Record(e)

(* Programs are never taken back: remains that kvblock_calc does not see    *)
(* stay out of its sight.                                                  *)
LEMMA HistoryGrows ==
    ASSUME Records, [Next]_vars
    PROVE  Records' /\ (Searched' => Searched)
<1>1. ASSUME NEW S, log' = Marked(S) PROVE Records' /\ (Searched' => Searched)
  <2>1. ASSUME NEW e \in log
        PROVE  LET x == IF \E n \in S : n.head = e.at THEN [e EXCEPT !.rm = TRUE] ELSE e
               IN  x \in log' /\ Record(x) /\ (Whole(x) <=> Whole(e)) /\ End(x) = End(e)
    <3> DEFINE x == IF \E n \in S : n.head = e.at THEN [e EXCEPT !.rm = TRUE] ELSE e
    <3>1. x \in log'
      BY <1>1 DEF Marked
    <3>2. Record(e)
      BY DEF Records
    <3>3. Record(Erased(e)) /\ (Whole(Erased(e)) <=> Whole(e)) /\ End(Erased(e)) = End(e)
      BY <3>2, MarkKeeps
    <3>4. x = e \/ x = Erased(e)
      BY DEF Erased
    <3> HIDE DEF x
    <3>5. Record(x) /\ (Whole(x) <=> Whole(e)) /\ End(x) = End(e)
      BY <3>2, <3>3, <3>4
    <3>6. QED
      BY <3>1, <3>5 DEF x
  <2>2. Records'
    <3>1. \A y \in log' : Record(y)
      BY <1>1, <2>1 DEF Marked
    <3>2. QED
      BY <3>1 DEF Records
  <2>3. Searched' => Searched
    BY <2>1 DEF Searched
  <2>4. QED
    BY <2>2, <2>3
<1>2. ASSUME NEW x, Record(x), log' = log \cup {x} PROVE Records' /\ (Searched' => Searched)
  BY <1>2 DEF Records, Searched
<1>3. \A n, r : Record(Entry(n, r))
  BY DEF Record, Entry
<1>4. ASSUME log' = log PROVE Records' /\ (Searched' => Searched)
  BY <1>4 DEF Records, Searched
<1>5. CASE Boot
  BY <1>1, <1>5 DEF Boot
<1>6. ASSUME NEW v \in Values, Set(v) PROVE Records' /\ (Searched' => Searched)
  BY <1>4, <1>6 DEF Set
<1>7. CASE SetProgram
  <2>1. \E n, r : log' = log \cup {Entry(n, r)}
    BY <1>7 DEF SetProgram
  <2>2. QED
    BY <1>2, <1>3, <2>1
<1>8. CASE SetRm
  BY <1>1, <1>8 DEF SetRm
<1>9. ASSUME NEW n \in 0 .. Size, PowerLoss(n) PROVE Records' /\ (Searched' => Searched)
  <2>1. log' = log \/ log' = log \cup {Entry(Left(n), FALSE)}
    BY <1>9 DEF PowerLoss
  <2>2. QED
    BY <1>2, <1>3, <1>4, <2>1
<1>10. CASE UNCHANGED vars
  BY <1>4, <1>10 DEF vars
<1>11. QED
  BY <1>5, <1>6, <1>7, <1>8, <1>9, <1>10 DEF Next

(* One step keeps the invariant, whatever it does to the history. *)
LEMMA StepHolds ==
    ASSUME Plain, NodeInv, Searched, [Next]_vars
    PROVE  NodeInv'
<1>1. CASE Boot
  BY <1>1, BootHolds
<1>2. ASSUME NEW v \in Values, Set(v) PROVE NodeInv'
  BY <1>2, SetHolds
<1>3. CASE SetProgram
  BY <1>3, ProgramHolds
<1>4. CASE SetRm
  BY <1>4, RmHolds
<1>5. ASSUME NEW n \in 0 .. Size, n <= MallocSize(Key, new), PowerLoss(n) PROVE NodeInv'
  BY <1>5, LossHolds
<1>6. CASE UNCHANGED vars
  BY <1>6 DEF vars, NodeInv, LogSound, Image, OffsetSound, CopiesSound, Copies, Fits
<1>7. QED
  BY <1>1, <1>2, <1>3, <1>4, <1>5, <1>6 DEF Next

-----------------------------------------------------------------------------
(* The theorems.                                                           *)

(* As long as the programs that power losses cut short lie where            *)
(* kvblock_calc searches, the history of the programs describes the block  *)
(* byte by byte, write_offset is behind all of them once kvblock_calc is   *)
(* through, and there are at most two copies of the key, with consecutive  *)
(* versions.                                                               *)
THEOREM NodeHolds == Plain => (Spec => [](Searched => NodeInv))
<1>1. SUFFICES ASSUME Plain PROVE Spec => [](Searched => NodeInv)
  OBVIOUS
<1> DEFINE I == Records /\ (Searched => NodeInv)
<1>2. Init => I
  <2>1. Init => NodeInv
    BY <1>1, StartHolds
  <2>2. Init => Records
    BY DEF Init, Records, Record
  <2>3. QED
    BY <2>1, <2>2
<1>3. I /\ [Next]_vars => I'
  BY <1>1, HistoryGrows, StepHolds
<1>4. QED
  BY <1>2, <1>3, PTL DEF Spec

(* In a block that kvblock_calc searches to its end nothing escapes it: the *)
(* invariant holds, wherever power fails in the programs of kvblock_set.   *)
THEOREM AllSearched == Plain /\ Scan = Size => (Spec => [](Searched /\ NodeInv))
<1>1. SUFFICES ASSUME Plain, Scan = Size PROVE Spec => [](Searched /\ NodeInv)
  OBVIOUS
<1>2. NodeInv => Searched
  BY <1>1 DEF NodeInv, LogSound, Sound, Searched
<1>3. Init => NodeInv
  BY <1>1, StartHolds
<1>4. NodeInv /\ [Next]_vars => NodeInv'
  BY <1>1, <1>2, StepHolds
<1>5. QED
  BY <1>2, <1>3, <1>4, PTL DEF Spec

(* The block holds bytes and write_offset never leaves it, as long as       *)
(* kvblock_calc sees what is left of the programs cut short.               *)
THEOREM NodeTypes == Plain => (Spec => [](Searched => TypeOK))
<1>1. SUFFICES ASSUME Plain PROVE Spec => [](Searched => TypeOK)
  OBVIOUS
<1>2. NodeInv => TypeOK
  <2>1. SUFFICES ASSUME NodeInv PROVE TypeOK
    OBVIOUS
  <2>2. wo \in 0 .. Size - 4 /\ Size \in Nat
    BY <1>1, <2>1, Constants DEF NodeInv, OffsetSound
  <2>3. wo \in 0 .. Size
    BY <2>2
  <2>4. QED
    BY <2>1, <2>3 DEF NodeInv, Image, TypeOK
<1>3. QED
  BY <1>1, <1>2, NodeHolds, PTL

(* kvblock_iter finds every node that was programmed whole, and takes the   *)
(* remains of no torn program for a node, after any number of power losses *)
(* in programs within the bytes kvblock_calc searches.                     *)
THEOREM SearchFindsWhole == Plain => (Spec => [](Searched => FindsWhole))
<1>1. SUFFICES ASSUME Plain PROVE Spec => [](Searched => FindsWhole)
  OBVIOUS
<1>2. NodeInv => FindsWhole
  BY <1>1, NodesAre, RestIs DEF NodeInv, FindsWhole
<1>3. QED
  BY <1>1, <1>2, NodeHolds, PTL

(* kv_get returns the value last stored or, after a power loss in kv_set,   *)
(* the value before or after that call, under the same condition.          *)
THEOREM ReadsOldOrNew == Plain => (Spec => [](Searched => OldOrNew))
<1>1. SUFFICES ASSUME Plain PROVE Spec => [](Searched => OldOrNew)
  OBVIOUS
<1>2. NodeInv => OldOrNew
  <2>1. SUFFICES ASSUME NodeInv, pc = "idle"
                 PROVE  (IF kv_find = None THEN <<>> ELSE kv_find.val) \in expect
    BY DEF OldOrNew
  <2>2. /\ \A e, f \in Copies : e = f
        /\ Copies = {} => <<>> \in expect
        /\ \A e \in Copies : e.val \in expect
    BY <2>1 DEF NodeInv, CopiesSound
  <2>3. /\ Copies = {} => kv_find = None
        /\ \A e \in Copies : kv_find = NodeOf(e) /\ kv_find # None
    BY <1>1, <2>1, <2>2, FindIs DEF NodeInv
  <2>4. \A e : NodeOf(e).val = e.val
    BY NodeOfIs, Zenon
  <2>5. QED
    BY <2>2, <2>3, <2>4
<1>3. QED
  BY <1>1, <1>2, NodeHolds, PTL

(* What kvblock_calc computes lies behind the remains of the torn writes it *)
(* searches for: kvblock_set then programs blank flash.                    *)
THEOREM WritesOnBlank == Plain => (Spec => [](Searched => WritesBlank))
<1>1. SUFFICES ASSUME Plain PROVE Spec => [](Searched => WritesBlank)
  OBVIOUS
<1>2. NodeInv => WritesBlank
  <2>1. SUFFICES ASSUME NodeInv, pc = "idle", NEW i \in wo .. Scan - 5 PROVE mem[i] = Blank
    BY DEF WritesBlank
  <2>2. wo \in 0 .. Size - 4 /\ Size \in Nat /\ Scan \in Nat /\ Scan <= Size
    BY <1>1, <2>1, Constants DEF NodeInv, OffsetSound
  <2>3. i \in 0 .. Size - 1 /\ wo <= i
    BY <2>2
  <2>4. ASSUME NEW e \in log PROVE End(e) <= i
    <3>1. End(e) <= wo
      BY <2>1 DEF NodeInv, OffsetSound
    <3>2. End(e) \in Nat
      BY <1>1, <2>1, Place DEF NodeInv, LogSound
    <3>3. QED
      BY <2>2, <2>3, <3>1, <3>2
  <2>5. QED
    BY <2>1, <2>3, <2>4 DEF NodeInv, Image
<1>3. QED
  BY <1>1, <1>2, NodeHolds, PTL

=============================================================================
