------------------------------ MODULE SvmProofs ------------------------------
(***************************************************************************)
(* The safety of BpfExecutor, for every program, input and width.          *)
(***************************************************************************)
EXTENDS BpfExecutor, NaturalsInduction, FiniteSetTheorems, SequenceTheorems, TLAPS

-----------------------------------------------------------------------------
(* Numbers and folds                                                       *)

(* Induction, for the set of numbers that have a property.                 *)
LEMMA Induction ==
    ASSUME NEW S, 0 \in S, \A n \in Nat : n \in S => n + 1 \in S
    PROVE  Nat \subseteq S
<1>. SUFFICES ASSUME Nat \ S # {} PROVE FALSE
  OBVIOUS
<1>1. PICK m \in Nat \ S : \A x \in Nat \ S : ~ (<<x, m>> \in OpToRel(<, Nat))
  BY NatLessThanWellFounded, WFMin
<1>2. \A x \in Nat \ S : ~ (x < m)
  BY <1>1, Zenon DEF OpToRel
<1>3. m - 1 \in Nat /\ (m - 1) + 1 = m /\ m - 1 < m
  OBVIOUS
<1>. QED
  BY <1>2, <1>3

(* A finite set of numbers has a least and a greatest one.                 *)
LEMMA ExtremesExist ==
    ASSUME NEW n \in Nat, NEW T \in SUBSET (0..n), T # {}
    PROVE  /\ Min(T) \in T /\ \A y \in T : Min(T) <= y
           /\ Max(T) \in T /\ \A y \in T : y <= Max(T)
<1>. DEFINE Low == {k \in Nat : \A t \in SUBSET (0..n) : (\E x \in t : x <= k) => \E x \in t : \A y \in t : x <= y}
            High == {k \in Nat : \A t \in SUBSET (0..n) : (\E x \in t : n - x <= k) => \E x \in t : \A y \in t : y <= x}
<1>1. 0 \in Low /\ 0 \in High
  OBVIOUS
<1>2. ASSUME NEW k \in Nat, k \in Low PROVE k + 1 \in Low
  <2>. SUFFICES ASSUME NEW t \in SUBSET (0..n), NEW x \in t, x <= k + 1
                PROVE  \E z \in t : \A y \in t : z <= y
    OBVIOUS
  <2>1. CASE \E y \in t : y < x
    BY <1>2, <2>1
  <2>2. CASE \A y \in t : x <= y
    BY <2>2
  <2>. QED
    BY <2>1, <2>2
<1>3. ASSUME NEW k \in Nat, k \in High PROVE k + 1 \in High
  <2>. SUFFICES ASSUME NEW t \in SUBSET (0..n), NEW x \in t, n - x <= k + 1
                PROVE  \E z \in t : \A y \in t : y <= z
    OBVIOUS
  <2>1. CASE \E y \in t : x < y
    BY <1>3, <2>1
  <2>2. CASE \A y \in t : y <= x
    BY <2>2
  <2>. QED
    BY <2>1, <2>2
<1>4. n \in Low /\ n \in High
  <2>. HIDE DEF Low, High
  <2>. QED
    BY <1>1, <1>2, <1>3, Induction
<1>. PICK e \in T : TRUE
  OBVIOUS
<1>5. e <= n /\ n - e <= n
  OBVIOUS
<1>6. \E x \in T : \A y \in T : x <= y
  BY <1>4, <1>5
<1>7. \E x \in T : \A y \in T : x >= y
  <2>1. \E x \in T : \A y \in T : y <= x
    BY <1>4, <1>5
  <2>. QED
    BY <2>1
<1>. QED
  BY <1>6, <1>7 DEF Max, Min

(* The same, for numbers from 1.                                           *)
LEMMA Extremes ==
    ASSUME NEW n \in Nat, NEW T \in SUBSET (1..n), T # {}
    PROVE  /\ Min(T) \in T /\ \A y \in T : Min(T) <= y
           /\ Max(T) \in T /\ \A y \in T : y <= Max(T)
<1>. T \in SUBSET (0..n)
  OBVIOUS
<1>. QED
  BY ExtremesExist

(* A function that folds: F takes the value for what c leaves of a set to  *)
(* the value for the set.                                                  *)
Folds(iter, F, base, c, sets) ==
    iter = [T \in sets |-> IF T = {} THEN base ELSE F[<<iter[T \ {c[T]}], T>>]]

Chooses(c, K) == \A T \in SUBSET K : T # {} => c[T] \in T

(* There is such a function for all subsets of a finite set.               *)
LEMMA FoldExists ==
    ASSUME NEW K, IsFiniteSet(K), NEW U, NEW base \in U, NEW c, Chooses(c, K),
           NEW F \in [U \X (SUBSET K) -> U]
    PROVE  \E iter \in [SUBSET K -> U] : Folds(iter, F, base, c, SUBSET K)
<1>. DEFINE Small(n) == {T \in SUBSET K : Cardinality(T) <= n}
            S == {n \in Nat : \E iter \in [Small(n) -> U] : Folds(iter, F, base, c, Small(n))}
<1>1. \A T \in SUBSET K : IsFiniteSet(T) /\ Cardinality(T) \in Nat
  BY FS_Subset, FS_CardinalityType
<1>2. \A T \in SUBSET K : T # {} =>
         /\ c[T] \in T /\ T \ {c[T]} \in SUBSET K
         /\ Cardinality(T \ {c[T]}) = Cardinality(T) - 1
  <2>. SUFFICES ASSUME NEW T \in SUBSET K, T # {}
                PROVE  /\ c[T] \in T /\ T \ {c[T]} \in SUBSET K
                       /\ Cardinality(T \ {c[T]}) = Cardinality(T) - 1
    OBVIOUS
  <2>1. c[T] \in T
    BY DEF Chooses
  <2>. QED
    BY <1>1, <2>1, FS_RemoveElement
<1>3. 0 \in S
  <2>1. \A T \in Small(0) : T = {}
    BY <1>1, FS_EmptySet
  <2>2. Folds([T \in Small(0) |-> base], F, base, c, Small(0))
    BY <2>1 DEF Folds
  <2>. QED
    BY <2>2
<1>4. ASSUME NEW n \in Nat, n \in S PROVE n + 1 \in S
  <2>1. PICK iter \in [Small(n) -> U] : Folds(iter, F, base, c, Small(n))
    BY <1>4
  <2>. DEFINE next == [T \in Small(n + 1) |->
                          IF T = {} THEN base ELSE F[<<iter[T \ {c[T]}], T>>]]
  <2>2. \A T \in Small(n) : T \in Small(n + 1) /\ next[T] = iter[T]
    <3>1. \A T \in Small(n) : T \in Small(n + 1)
      BY <1>1
    <3>2. \A T \in Small(n) : iter[T] = IF T = {} THEN base ELSE F[<<iter[T \ {c[T]}], T>>]
      BY <2>1 DEF Folds
    <3>. QED
      BY <3>1, <3>2
  <2>3. next = [T \in Small(n + 1) |-> IF T = {} THEN base ELSE F[<<iter[T \ {c[T]}], T>>]]
    OBVIOUS
  <2>4. \A T \in Small(n + 1) : T # {} => T \ {c[T]} \in Small(n)
    <3>1. \A d \in Nat : d <= n + 1 => d - 1 <= n
      OBVIOUS
    <3>. QED
      BY <1>1, <1>2, <3>1
  <2>5. next \in [Small(n + 1) -> U]
    <3>1. \A T \in Small(n + 1) : T # {} => <<iter[T \ {c[T]}], T>> \in U \X (SUBSET K)
      BY <2>4
    <3>. QED
      BY <3>1
  <2>. HIDE DEF next, Small
  <2>6. \A T \in Small(n + 1) : T # {} => next[T \ {c[T]}] = iter[T \ {c[T]}]
    BY <2>2, <2>4
  <2>7. Folds(next, F, base, c, Small(n + 1))
    BY <2>3, <2>6 DEF Folds
  <2>. QED
    BY <2>5, <2>7
<1>5. Cardinality(K) \in Nat /\ Small(Cardinality(K)) = SUBSET K
  BY FS_Subset, FS_CardinalityType
<1>6. Cardinality(K) \in S
  <2>. HIDE DEF S
  <2>. QED
    BY <1>3, <1>4, <1>5, Induction
<1>. QED
  BY <1>5, <1>6

(* What holds of the empty set, and of each set if it does of what c       *)
(* leaves of it, holds of the whole.                                       *)
LEMMA SetInduction ==
    ASSUME NEW K, IsFiniteSet(K), NEW c, Chooses(c, K), NEW H, {} \in H,
           \A T \in SUBSET K : T # {} /\ T \ {c[T]} \in H => T \in H
    PROVE  K \in H
<1>. DEFINE S == {n \in Nat : \A T \in SUBSET K : Cardinality(T) <= n => T \in H}
<1>1. \A T \in SUBSET K : IsFiniteSet(T) /\ Cardinality(T) \in Nat
  BY FS_Subset, FS_CardinalityType
<1>2. 0 \in S
  <2>1. \A T \in SUBSET K : Cardinality(T) <= 0 => T = {}
    BY <1>1, FS_EmptySet
  <2>. QED
    BY <2>1
<1>3. ASSUME NEW n \in Nat, n \in S PROVE n + 1 \in S
  <2>1. ASSUME NEW T \in SUBSET K, Cardinality(T) <= n + 1, T # {}
        PROVE  T \in H
    <3>1. c[T] \in T
      BY <2>1 DEF Chooses
    <3>2. Cardinality(T \ {c[T]}) <= n
      <4>1. Cardinality(T \ {c[T]}) = Cardinality(T) - 1
        BY <1>1, <3>1, FS_RemoveElement
      <4>. QED
        BY <1>1, <2>1, <4>1
    <3>3. T \ {c[T]} \in SUBSET K
      OBVIOUS
    <3>4. T \ {c[T]} \in H
      BY <1>3, <3>2, <3>3
    <3>. QED
      BY <2>1, <3>4
  <2>2. \A T \in SUBSET K : Cardinality(T) <= n + 1 => T \in H
    BY <2>1
  <2>. QED
    BY <2>2
<1>4. Cardinality(K) \in S
  <2>. HIDE DEF S
  <2>. QED
    BY <1>1, <1>2, <1>3, Induction
<1>. QED
  BY <1>1, <1>4

(* The folds of sequences go by the last or the first of the places left.  *)
LastOf(n) == [T \in SUBSET (1..n) |-> Max(T)]
FirstOf(n) == [T \in SUBSET (1..n) |-> Min(T)]

(* Folds take the places of a sequence from its end, or from its beginning.*)
LEMMA PlacesChosen ==
    ASSUME NEW n \in Nat
    PROVE  /\ IsFiniteSet(1..n) /\ Chooses(LastOf(n), 1..n) /\ Chooses(FirstOf(n), 1..n)
           /\ \A k \in 1..n : Max(1..k) = k /\ (1..k) \ {k} = 1..k - 1
           /\ \A k \in 1..n : Min(k..n) = k /\ (k..n) \ {k} = k + 1..n
<1>1. IsFiniteSet(1..n)
  BY FS_Interval
<1>2. Chooses(LastOf(n), 1..n) /\ Chooses(FirstOf(n), 1..n)
  BY Extremes DEF Chooses, LastOf, FirstOf
<1>3. ASSUME NEW k \in 1..n
      PROVE  /\ Max(1..k) = k /\ (1..k) \ {k} = 1..k - 1
             /\ Min(k..n) = k /\ (k..n) \ {k} = k + 1..n
  <2>1. /\ 1..k \in SUBSET (1..n) /\ k..n \in SUBSET (1..n)
        /\ k \in 1..k /\ k \in k..n
    OBVIOUS
  <2>2. /\ Max(1..k) \in 1..k /\ k <= Max(1..k)
        /\ Min(k..n) \in k..n /\ Min(k..n) <= k
    BY <2>1, Extremes
  <2>. QED
    BY <2>2
<1>. QED
  BY <1>1, <1>2, <1>3

-----------------------------------------------------------------------------
(* The widths                                                              *)

(* How wide words, their halves and bytes are.                             *)
LEMMA Widths ==
    /\ WordBits \in Nat \ {0} /\ HalfBits \in 1..WordBits
    /\ Long \in Nat \ {0} /\ \A s \in DOMAIN Size : Size[s] \in 1..Long
    /\ ByteRange \in Nat \ {0} /\ Word \in Nat \ {0} /\ Half \in Nat \ {0}
    /\ 5 <= Half /\ 5 * Half <= Word
<1>1. Long \in Nat \ {0} /\ \A s \in DOMAIN Size : Size[s] \in 1..Long
  BY SbpfAssumption DEF Long
<1>2. WordBits \in Nat \ {0} /\ HalfBits \in 1..WordBits /\ ByteBits \in 1..WordBits
  <2>1. \A l, b \in Nat \ {0} : b * l \in Nat \ {0} /\ b <= b * l
    OBVIOUS
  <2>2. \A w, l, b \in Nat \ {0} : w <= l => b * w <= b * l
    OBVIOUS
  <2>3. Size["w"] \in Nat \ {0} /\ Size["w"] <= Long /\ ByteBits \in Nat \ {0}
    BY <1>1, SbpfAssumption
  <2>4. ByteBits * Long \in Nat \ {0} /\ ByteBits <= ByteBits * Long
        /\ ByteBits * Size["w"] \in Nat \ {0} /\ ByteBits * Size["w"] <= ByteBits * Long
    BY <1>1, <2>1, <2>2, <2>3
  <2>. QED
    BY <2>3, <2>4 DEF WordBits, HalfBits
<1>3. \A n \in 0..WordBits : 2 ^ n \in Nat \ {0}
  <2>1. \A n \in Nat : 2 ^ n \in Int
    OBVIOUS
  <2>. QED
    BY <1>2, <2>1, WidthAssumption
<1>4. ByteRange \in Nat \ {0} /\ Word \in Nat \ {0} /\ Half \in Nat \ {0}
  BY <1>2, <1>3 DEF ByteRange, Word, Half
<1>5. \A h \in Nat : 5 <= h => 5 * h <= h * h
  OBVIOUS
<1>. QED
  BY <1>1, <1>2, <1>4, <1>5, WidthAssumption

(* 2^bits for either width, and below.                                     *)
LEMMA Powers ==
    /\ \A n \in 0..WordBits : 2 ^ n \in Nat \ {0} /\ 2 ^ (n + 1) = 2 * 2 ^ n
    /\ \A n \in 0..Long : ByteRange ^ n \in Nat \ {0} /\ ByteRange ^ (n + 1) = ByteRange * ByteRange ^ n
    /\ \A bits \in {HalfBits, WordBits} : bits \in 1..WordBits /\ 2 ^ bits \in 1..Word
<1>1. \A a \in Nat \ {0}, n \in Nat : a ^ n \in Int
  OBVIOUS
<1>2. \A n \in 0..WordBits : 2 ^ n \in Nat \ {0}
  BY <1>1, Widths, WidthAssumption
<1>3. \A n \in 0..Long : ByteRange ^ n \in Nat \ {0}
  BY <1>1, Widths, WidthAssumption
<1>4. 2 ^ HalfBits = Half /\ 2 ^ WordBits = Word
  BY DEF Half, Word
<1>. QED
  BY <1>2, <1>3, <1>4, Widths, WidthAssumption

(* Bits make a word.                                                       *)
LEMMA OfBitsIsWord ==
    ASSUME NEW B
    PROVE  OfBits(B) \in Words
<1>. DEFINE n == WordBits
            s == [i \in 1..n |-> i - 1]
            op(v, i) == IF i \in B THEN v + 2 ^ i ELSE v
            F == [vT \in Nat \X (SUBSET (1..n)) |->
                     IF vT[2] = {} THEN 0 ELSE op(vT[1], s[Max(vT[2])])]
            Unfolds(iter) == iter = [T \in SUBSET (1..n) |->
                             IF T = {} THEN 0 ELSE op(iter[T \ {Max(T)}], s[Max(T)])]
            it == CHOOSE iter : Unfolds(iter)
<1>1. n \in Nat /\ \A i \in 1..n : s[i] \in 0..n - 1 /\ 2 ^ s[i] \in Nat
  BY Widths, Powers
<1>2. F \in [Nat \X (SUBSET (1..n)) -> Nat]
  <2>1. ASSUME NEW T \in SUBSET (1..n), T # {}, NEW v \in Nat PROVE op(v, s[Max(T)]) \in Nat
    <3>1. Max(T) \in 1..n
      BY <1>1, <2>1, Extremes
    <3>. QED
      BY <1>1, <3>1
  <2>. HIDE DEF op
  <2>. QED
    BY <2>1
<1>3. PICK iter \in [SUBSET (1..n) -> Nat] : Folds(iter, F, 0, LastOf(n), SUBSET (1..n))
  BY <1>1, <1>2, FoldExists, PlacesChosen
<1>4. Unfolds(iter)
  BY <1>3 DEF Folds, LastOf
<1>5. Unfolds(it)
  BY <1>4
<1>6. OfBits(B) = it[1..n]
  BY DEF OfBits, FoldLeft, MapThenFoldSet
<1>. HIDE DEF it
<1>. DEFINE S == {k \in Nat : k <= n => it[1..k] \in 0..2 ^ k - 1}
<1>7. 0 \in S
  <2>1. 1..0 = {} /\ 2 ^ 0 = 1 /\ 1..0 \in SUBSET (1..n)
    OBVIOUS
  <2>. QED
    BY <1>5, <2>1
<1>8. ASSUME NEW k \in Nat, k \in S PROVE k + 1 \in S
  <2>. SUFFICES ASSUME k + 1 <= n PROVE it[1..k + 1] \in 0..2 ^ (k + 1) - 1
    OBVIOUS
  <2>1. Max(1..k + 1) = k + 1 /\ (1..k + 1) \ {k + 1} = 1..k
    BY <1>1, PlacesChosen
  <2>2. it[1..k + 1] = op(it[1..k], k)
    <3>1. 1..k + 1 \in SUBSET (1..n) /\ 1..k + 1 # {} /\ s[k + 1] = k
      BY <1>1
    <3>2. it[1..k + 1] = op(it[(1..k + 1) \ {Max(1..k + 1)}], s[Max(1..k + 1)])
      <4>. HIDE DEF s, op
      <4>. QED
        BY <1>5, <3>1
    <3>. HIDE DEF s, op
    <3>. QED
      BY <2>1, <3>1, <3>2
  <2>3. it[1..k] \in 0..2 ^ k - 1 /\ 2 ^ k \in Nat \ {0} /\ 2 ^ (k + 1) = 2 * 2 ^ k
    BY <1>1, <1>8, Powers
  <2>. QED
    BY <2>2, <2>3
<1>9. n \in S
  <2>. HIDE DEF S
  <2>. QED
    BY <1>1, <1>7, <1>8, Induction
<1>. QED
  BY <1>1, <1>6, <1>9 DEF Word, Words

(* The arithmetic of an instruction gives a word.                          *)
LEMMA AluIsWord ==
    ASSUME NEW ins \in Instructions, NEW rs \in [Registers -> Words],
           {ins.dst, ins.src} \subseteq Registers, Known(ins), ins.class \in {"alu", "alu64"},
           ~DividesByZero(ins, rs)
    PROVE  AluResult(ins, rs) \in Words
<1>. DEFINE bits == BitsIn(ins)
            w == 2 ^ bits
            a == rs[ins.dst] % w
            b == Operand(ins, rs)
<1>1. bits \in 1..WordBits /\ w \in 1..Word /\ Word \in Nat \ {0} /\ Half \in Nat \ {0}
  BY Powers, Widths DEF BitsIn
<1>2. a \in 0..w - 1
  BY <1>1 DEF Words
<1>3. ins.imm \in Int
  BY DEF Instructions
<1>4. Half = 2 ^ HalfBits /\ Word = 2 ^ WordBits
  BY DEF Half, Word
<1>5. b \in 0..Word - 1 /\ (ins.code \notin {"div", "mod"} => b \in 0..w - 1)
  <2>1. CASE ins.x
    BY <1>1, <2>1 DEF Operand, Words
  <2>2. CASE ~ins.x /\ ins.code \in {"div", "mod"}
    BY <1>1, <1>3, <2>2, Widths DEF Operand
  <2>3. CASE ~ins.x /\ ins.code \notin {"div", "mod"}
    BY <1>1, <1>3, <2>3 DEF Operand
  <2>. QED
    BY <2>1, <2>2, <2>3
<1>6. ins.code \in {"div", "mod"} => b # 0
  BY DEF DividesByZero
<1>7. AluResult(ins, rs) = Alu(ins.code, a, b, bits) /\ ins.code \in AluCodes
  BY DEF AluResult, Known
<1>8. b % bits \in 0..bits - 1 /\ 2 ^ (b % bits) \in Nat \ {0}
  BY <1>1, <1>5, Powers
<1>9. Signed(a, bits) \in Int
  <2>1. 2 ^ (bits - 1) \in Int
    BY <1>1, Powers
  <2>. QED
    BY <1>1, <1>2, <2>1 DEF Signed
<1>. HIDE DEF a, b, bits
<1>10. \A v \in Int : v % w \in 0..Word - 1
  BY <1>1
<1>11. \A v \in 0..Word - 1, d \in Nat \ {0} : v \div d \in 0..Word - 1 /\ v % d \in 0..Word - 1
  <2>1. ASSUME NEW v \in Nat, NEW d \in Nat \ {0} PROVE v \div d \in 0..v /\ v % d \in 0..v
    OBVIOUS
  <2>. QED
    BY <1>1, <2>1
<1>12. \A v \in Int, d \in Nat \ {0} : v \div d \in Int
  OBVIOUS
<1>13. a \in 0..Word - 1 /\ a * b \in Int /\ a * 2 ^ (b % bits) \in Int
  BY <1>1, <1>2, <1>5, <1>8
<1>. QED
  <2>1. CASE ins.code \in {"add", "sub", "mul", "lsh", "neg"}
    <3>1. \E v \in {a + b, a - b, a * b, a * 2 ^ (b % bits), -a} : AluResult(ins, rs) = v % w
      BY <1>7, <2>1 DEF Alu
    <3>2. {a + b, a - b, a * b, a * 2 ^ (b % bits), -a} \subseteq Int
      BY <1>5, <1>13
    <3>. QED
      BY <1>10, <3>1, <3>2 DEF Words
  <2>2. CASE ins.code \in {"div", "mod"}
    <3>1. AluResult(ins, rs) \in {a \div b, a % b} /\ b \in Nat \ {0}
      BY <1>5, <1>6, <1>7, <2>2 DEF Alu
    <3>. QED
      BY <1>11, <1>13, <3>1 DEF Words
  <2>3. CASE ins.code \in {"or", "and", "xor"}
    BY <1>7, <2>3, OfBitsIsWord DEF Alu
  <2>4. CASE ins.code = "rsh"
    BY <1>7, <1>8, <1>11, <1>13, <2>4 DEF Alu, Words
  <2>5. CASE ins.code = "arsh"
    BY <1>7, <1>8, <1>9, <1>10, <1>12, <2>5 DEF Alu, Words
  <2>6. CASE ins.code = "mov"
    BY <1>5, <1>7, <2>6 DEF Alu, Words
  <2>. QED
    BY <1>7, <2>1, <2>2, <2>3, <2>4, <2>5, <2>6 DEF AluCodes

-----------------------------------------------------------------------------
(* Integers in memory                                                      *)

(* The bytes of an integer.                                                *)
LEMMA BytesOfInteger ==
    ASSUME NEW v \in Int, NEW n \in 0..Long
    PROVE  BytesOf(v, n) \in Seq(Bytes) /\ Len(BytesOf(v, n)) = n
<1>1. ByteRange \in Nat \ {0}
  BY Widths
<1>2. ASSUME NEW i \in 1..n PROVE (v \div ByteRange ^ (i - 1)) % ByteRange \in Bytes
  <2>1. i - 1 \in 0..Long
    BY Widths
  <2>2. ByteRange ^ (i - 1) \in Nat \ {0}
    BY <2>1, Powers
  <2>3. \A d \in Nat \ {0} : (v \div d) % ByteRange \in 0..ByteRange - 1
    BY <1>1
  <2>. QED
    BY <2>2, <2>3 DEF Bytes
<1>3. n \in Nat
  BY Widths
<1>. DEFINE e(i) == (v \div ByteRange ^ (i - 1)) % ByteRange
<1>4. BytesOf(v, n) = [i \in 1..n |-> e(i)]
  BY DEF BytesOf
<1>5. \A i \in 1..n : e(i) \in Bytes
  BY <1>2
<1>. HIDE DEF e
<1>. QED
  BY <1>3, <1>4, <1>5

(* Little-endian integers in memory, read from their end.                  *)
LEMMA IntegerUnfolds ==
    ASSUME NEW bytes \in Seq(Bytes)
    PROVE  \E f : /\ f[Len(bytes) + 1] = 0 /\ IntOf(bytes) = f[1]
                  /\ \A k \in 1..Len(bytes) : f[k] = f[k + 1] * ByteRange + bytes[k]
<1>. DEFINE n == Len(bytes)
            op(b, v) == v * ByteRange + b
            F == [vT \in Nat \X (SUBSET (1..n)) |->
                     IF vT[2] = {} THEN 0 ELSE op(bytes[Min(vT[2])], vT[1])]
            Unfolds(iter) == iter = [T \in SUBSET (1..n) |->
                             IF T = {} THEN 0 ELSE op(bytes[Min(T)], iter[T \ {Min(T)}])]
            it == CHOOSE iter : Unfolds(iter)
<1>1. /\ n \in Nat /\ DOMAIN bytes = 1..n /\ \A i \in 1..n : bytes[i] \in 0..ByteRange - 1
      /\ ByteRange \in Nat \ {0}
  BY Widths DEF Bytes
<1>2. F \in [Nat \X (SUBSET (1..n)) -> Nat]
  <2>1. ASSUME NEW T \in SUBSET (1..n), T # {}, NEW v \in Nat PROVE op(bytes[Min(T)], v) \in Nat
    <3>1. Min(T) \in 1..n
      BY <1>1, <2>1, Extremes
    <3>. QED
      BY <1>1, <3>1
  <2>. HIDE DEF op
  <2>. QED
    BY <2>1
<1>3. PICK iter \in [SUBSET (1..n) -> Nat] : Folds(iter, F, 0, FirstOf(n), SUBSET (1..n))
  BY <1>1, <1>2, FoldExists, PlacesChosen
<1>4. Unfolds(iter)
  BY <1>3 DEF Folds, FirstOf
<1>5. Unfolds(it)
  BY <1>4
<1>6. IntOf(bytes) = it[1..n]
  BY <1>1 DEF IntOf, FoldRight, MapThenFoldSet
<1>. HIDE DEF it
<1>. DEFINE f == [k \in 1..n + 1 |-> it[k..n]]
<1>7. f[n + 1] = 0
  <2>1. n + 1 \in 1..n + 1 /\ n + 1..n = {} /\ {} \in SUBSET (1..n)
    BY <1>1
  <2>2. it[{}] = 0
    BY <1>5
  <2>. HIDE DEF Unfolds
  <2>. QED
    BY <2>1, <2>2
<1>8. ASSUME NEW k \in 1..n PROVE f[k] = f[k + 1] * ByteRange + bytes[k]
  <2>1. Min(k..n) = k /\ (k..n) \ {k} = k + 1..n
    BY <1>1, PlacesChosen
  <2>2. k..n \in SUBSET (1..n) /\ k..n # {} /\ {k, k + 1} \subseteq 1..n + 1
    BY <1>1
  <2>3. it[k..n] = op(bytes[k], it[k + 1..n])
    BY <1>5, <2>1, <2>2
  <2>. HIDE DEF Unfolds
  <2>. QED
    BY <2>2, <2>3
<1>9. IntOf(bytes) = f[1]
  <2>1. 1 \in 1..n + 1
    BY <1>1
  <2>. QED
    BY <1>6, <2>1
<1>. HIDE DEF f
<1>. QED
  BY <1>7, <1>8, <1>9

(* The integer of up to as many bytes as a word has.                       *)
LEMMA IntegerOfBytes ==
    ASSUME NEW bytes \in Seq(Bytes), Len(bytes) <= Long
    PROVE  IntOf(bytes) \in Words
<1>. DEFINE n == Len(bytes)
<1>1. /\ n \in Nat /\ \A i \in 1..n : bytes[i] \in 0..ByteRange - 1
      /\ ByteRange \in Nat \ {0}
  BY Widths DEF Bytes
<1>2. PICK f : /\ f[n + 1] = 0 /\ IntOf(bytes) = f[1]
               /\ \A k \in 1..n : f[k] = f[k + 1] * ByteRange + bytes[k]
  BY IntegerUnfolds
<1>. DEFINE S == {k \in Nat : k <= n => f[n - k + 1] \in 0..ByteRange ^ k - 1}
<1>7. 0 \in S
  <2>1. n - 0 + 1 = n + 1
    BY <1>1
  <2>2. 0 \in 0..ByteRange ^ 0 - 1
    BY Widths, Powers
  <2>. QED
    BY <1>2, <2>1, <2>2
<1>8. ASSUME NEW k \in Nat, k \in S PROVE k + 1 \in S
  <2>. SUFFICES ASSUME k + 1 <= n PROVE f[n - (k + 1) + 1] \in 0..ByteRange ^ (k + 1) - 1
    OBVIOUS
  <2>. DEFINE at == n - k
  <2>1. at \in 1..n /\ n - (k + 1) + 1 = at /\ n - k + 1 = at + 1
    BY <1>1
  <2>. HIDE DEF at
  <2>4. f[at] = f[at + 1] * ByteRange + bytes[at]
    BY <1>2, <2>1
  <2>5. f[at + 1] \in 0..ByteRange ^ k - 1
    BY <1>1, <1>8, <2>1
  <2>6. /\ ByteRange ^ k \in Nat \ {0} /\ ByteRange ^ (k + 1) = ByteRange * ByteRange ^ k
        /\ bytes[at] \in 0..ByteRange - 1
    BY <1>1, <2>1, Widths, Powers
  <2>7. \A v, p \in Nat, b \in 0..ByteRange - 1 :
           v <= p - 1 => v * ByteRange + b \in 0..ByteRange * p - 1
    <3>. SUFFICES ASSUME NEW v \in Nat, NEW p \in Nat, NEW b \in 0..ByteRange - 1, v <= p - 1
                  PROVE  v * ByteRange + b \in 0..ByteRange * p - 1
      OBVIOUS
    <3>1. v * ByteRange <= (p - 1) * ByteRange /\ v * ByteRange \in Nat
      BY <1>1
    <3>2. (p - 1) * ByteRange = ByteRange * p - ByteRange /\ ByteRange * p \in Nat
      BY <1>1
    <3>3. \A x, y, z \in Int : x <= y - z /\ b <= z - 1 => x + b <= y - 1
      OBVIOUS
    <3>4. b <= ByteRange - 1 /\ b \in Nat /\ ByteRange \in Int
      BY <1>1
    <3>5. v * ByteRange + b <= ByteRange * p - 1
      BY <3>1, <3>2, <3>3, <3>4
    <3>. QED
      BY <3>1, <3>2, <3>4, <3>5
  <2>8. f[at] \in 0..ByteRange ^ (k + 1) - 1
    BY <2>4, <2>5, <2>6, <2>7
  <2>. QED
    BY <2>1, <2>8
<1>9. n \in S
  <2>. HIDE DEF S
  <2>. QED
    BY <1>1, <1>7, <1>8, Induction
<1>10. f[1] \in 0..ByteRange ^ n - 1
  <2>1. n - n + 1 = 1
    BY <1>1
  <2>. QED
    BY <1>1, <1>9, <2>1
<1>11. \A k \in Nat : k + n <= Long => ByteRange ^ n <= ByteRange ^ (n + k)
  <2>. DEFINE R == {k \in Nat : k + n <= Long => ByteRange ^ n <= ByteRange ^ (n + k)}
  <2>1. 0 \in R
    BY <1>1, Powers
  <2>2. ASSUME NEW k \in Nat, k \in R PROVE k + 1 \in R
    <3>. SUFFICES ASSUME k + 1 + n <= Long PROVE ByteRange ^ n <= ByteRange ^ (n + (k + 1))
      OBVIOUS
    <3>1. ByteRange ^ n <= ByteRange ^ (n + k) /\ n + k \in 0..Long /\ n \in 0..Long
      BY <1>1, <2>2, Widths
    <3>2. /\ ByteRange ^ n \in Nat /\ ByteRange ^ (n + k) \in Nat
          /\ ByteRange ^ ((n + k) + 1) = ByteRange * ByteRange ^ (n + k)
      BY <3>1, Powers
    <3>3. \A p \in Nat : p <= ByteRange * p
      BY <1>1
    <3>4. n + (k + 1) = (n + k) + 1
      BY <1>1
    <3>. QED
      BY <1>1, <3>1, <3>2, <3>3, <3>4
  <2>. HIDE DEF R
  <2>3. Nat \subseteq R
    BY <2>1, <2>2, Induction
  <2>. QED
    BY <2>3 DEF R
<1>12. ByteRange ^ n <= Word
  <2>. DEFINE k == Long - n
  <2>1. k \in Nat /\ k + n = Long /\ n + k = Long /\ k + n <= Long
    BY <1>1, Widths
  <2>. HIDE DEF k, n
  <2>2. ByteRange ^ n <= ByteRange ^ (n + k)
    BY <1>11, <2>1
  <2>. QED
    BY <2>1, <2>2, WidthAssumption
<1>13. ByteRange ^ n \in Nat
  BY <1>1, Powers, Widths
<1>. QED
  BY <1>2, <1>10, <1>12, <1>13, Widths DEF Words

(* A quotient and its remainder.                                           *)
LEMMA Division ==
    ASSUME NEW x \in Nat, NEW d \in Nat \ {0}
    PROVE  /\ x \div d \in Nat /\ (x % d) \in 0..d - 1
           /\ x = d * (x \div d) + (x % d)
<1>1. x \div d \in Nat
  OBVIOUS
<1>2. (x % d) \in 0..d - 1
  OBVIOUS
<1>3. x = d * (x \div d) + (x % d)
  OBVIOUS
<1>. QED
  BY <1>1, <1>2, <1>3

(* What a remainder is added to.                                           *)
LEMMA QuotientIs ==
    ASSUME NEW d \in Nat \ {0}, NEW q \in Nat, NEW e \in 0..d - 1
    PROVE  (d * q + e) \div d = q
<1>. DEFINE x == d * q + e
            p == x \div d
<1>1. d * q \in Nat
  OBVIOUS
<1>2. x \in Nat
  BY <1>1
<1>3. p \in Nat /\ x = d * p + (x % d) /\ (x % d) \in 0..d - 1
  <2>. HIDE DEF x
  <2>. QED
    BY <1>2, Division
<1>4. ASSUME NEW a \in Nat, NEW b \in Nat, a < b PROVE d * a + d <= d * b
  <2>1. b - a - 1 \in Nat
    BY <1>4
  <2>2. \A c \in Nat : d * c \in Nat
    OBVIOUS
  <2>3. d * (b - a - 1) >= 0
    BY <2>1, <2>2
  <2>4. d * (b - a - 1) = d * b - d * a - d
    OBVIOUS
  <2>5. d * a \in Nat /\ d * b \in Nat
    OBVIOUS
  <2>. QED
    BY <2>3, <2>4, <2>5
<1>5. ~ (p < q) /\ ~ (q < p)
  <2>1. d * p \in Nat
    BY <1>3
  <2>2. p < q => d * p + d <= d * q
    BY <1>3, <1>4
  <2>3. q < p => d * q + d <= d * p
    BY <1>3, <1>4
  <2>4. d * q + e = d * p + (x % d)
    BY <1>3
  <2>5. \A u, v, m \in Nat, y \in 0..d - 1, z \in 0..d - 1 :
           u + y = v + z => ~ (u + d <= v) /\ ~ (v + d <= u)
    OBVIOUS
  <2>. HIDE DEF p, x
  <2>. QED
    BY <1>1, <1>3, <2>1, <2>2, <2>3, <2>4, <2>5
<1>. HIDE DEF p
<1>6. p = q
  BY <1>3, <1>5
<1>. QED
  BY <1>6 DEF p

(* A quotient of a quotient.                                               *)
LEMMA QuotientOfQuotient ==
    ASSUME NEW v \in Nat, NEW a \in Nat \ {0}, NEW b \in Nat \ {0}
    PROVE  (v \div a) \div b = v \div (b * a)
<1>. DEFINE q == v \div a
            e == v % a
            s == q \div b
            t == q % b
<1>1. \A x \in Nat, d \in Nat \ {0} :
         x \div d \in Nat /\ x = d * (x \div d) + (x % d) /\ (x % d) \in 0..d - 1
  BY Division
<1>2. q \in Nat /\ v = a * q + e /\ e \in 0..a - 1
  BY <1>1
<1>. HIDE DEF q, e
<1>3. s \in Nat /\ q = b * s + t /\ t \in 0..b - 1
  BY <1>1, <1>2
<1>. HIDE DEF s, t
<1>4. v = a * (b * s + t) + e
  BY <1>2, <1>3
<1>5. a * (b * s + t) = (b * a) * s + a * t
  BY <1>3
<1>6. b * a \in Nat \ {0}
  OBVIOUS
<1>7. a * t + e \in 0..b * a - 1
  <2>1. a * t \in Nat
    BY <1>3
  <2>2. a * (b - 1 - t) \in Nat
    <3>1. b - 1 - t \in Nat
      BY <1>3
    <3>2. \A c \in Nat : a * c \in Nat
      OBVIOUS
    <3>. QED
      BY <3>1, <3>2
  <2>3. a * (b - 1 - t) = b * a - a - a * t
    BY <1>3
  <2>. QED
    BY <1>2, <1>6, <2>1, <2>2, <2>3
<1>8. (b * a) * s \in Nat /\ a * t \in Nat
  BY <1>3, <1>6
<1>9. v = (b * a) * s + (a * t + e)
  <2>. DEFINE x == (b * a) * s
              y == a * t
              z == a * (b * s + t)
  <2>1. x \in Nat /\ y \in Nat /\ v = z + e /\ z = x + y /\ e \in Nat
    BY <1>2, <1>4, <1>5, <1>8
  <2>. HIDE DEF x, y, z
  <2>2. v = x + (y + e)
    BY <2>1
  <2>. QED
    BY <2>2 DEF x, y
<1>10. v \div (b * a) = s
  <2>. DEFINE d == b * a
              m == a * t + e
  <2>1. d \in Nat \ {0} /\ m \in 0..d - 1 /\ v = d * s + m
    BY <1>6, <1>7, <1>9
  <2>. HIDE DEF d, m
  <2>2. v \div d = s
    BY <1>3, <2>1, QuotientIs
  <2>. QED
    BY <2>2 DEF d
<1>. QED
  BY <1>10 DEF q, s

(* An integer is read from memory as it was laid out there.                *)
LEMMA IntegerRoundTrip ==
    ASSUME NEW v \in Words
    PROVE  IntOf(BytesOf(v, Long)) = v
<1>. DEFINE bytes == BytesOf(v, Long)
<1>1. v \in Nat /\ v < Word /\ Long \in Nat \ {0} /\ Long \in 0..Long /\ ByteRange \in Nat \ {0}
  BY Widths DEF Words
<1>2. bytes \in Seq(Bytes) /\ Len(bytes) = Long
  BY <1>1, BytesOfInteger
<1>3. \A k \in 1..Long : bytes[k] = (v \div ByteRange ^ (k - 1)) % ByteRange
  BY DEF BytesOf
<1>. HIDE DEF bytes
<1>4. PICK f : /\ f[Long + 1] = 0 /\ IntOf(bytes) = f[1]
               /\ \A k \in 1..Long : f[k] = f[k + 1] * ByteRange + bytes[k]
  BY <1>2, IntegerUnfolds
<1>. DEFINE S == {k \in Nat : k <= Long => f[Long - k + 1] = v \div ByteRange ^ (Long - k)}
<1>5. 0 \in S
  <2>1. Long - 0 + 1 = Long + 1 /\ Long - 0 = Long
    BY <1>1
  <2>2. ByteRange ^ Long = Word
    BY WidthAssumption
  <2>3. v \div Word = 0
    <3>1. \A x, d \in Nat : x < d => x \div d = 0
      OBVIOUS
    <3>. QED
      BY <1>1, <3>1, Widths
  <2>. QED
    BY <1>4, <2>1, <2>2, <2>3
<1>6. ASSUME NEW k \in Nat, k \in S PROVE k + 1 \in S
  <2>. SUFFICES ASSUME k + 1 <= Long
                PROVE  f[Long - (k + 1) + 1] = v \div ByteRange ^ (Long - (k + 1))
    OBVIOUS
  <2>. DEFINE at == Long - k
              m == at - 1
              p == ByteRange ^ m
  <2>1. /\ at \in 1..Long /\ Long - (k + 1) + 1 = at /\ Long - k + 1 = at + 1
        /\ Long - (k + 1) = m /\ m \in 0..Long /\ m + 1 = at /\ k <= Long
    BY <1>1
  <2>. HIDE DEF at
  <2>2. f[at + 1] = v \div ByteRange ^ at
    BY <1>6, <2>1 DEF at
  <2>3. p \in Nat \ {0} /\ ByteRange ^ at = ByteRange * p
    <3>. HIDE DEF m
    <3>1. ByteRange ^ m \in Nat \ {0} /\ ByteRange ^ (m + 1) = ByteRange * ByteRange ^ m
      BY <2>1, Powers
    <3>. QED
      BY <2>1, <3>1
  <2>4. f[at] = f[at + 1] * ByteRange + bytes[at]
    BY <1>4, <2>1
  <2>5. bytes[at] = (v \div p) % ByteRange
    BY <1>3, <2>1
  <2>. HIDE DEF p, m
  <2>6. (v \div p) \div ByteRange = v \div (ByteRange * p)
    BY <1>1, <2>3, QuotientOfQuotient
  <2>7. v \div p \in Nat
    <3>1. \A x \in Nat, d \in Nat \ {0} : x \div d \in Nat
      OBVIOUS
    <3>. QED
      BY <1>1, <2>3, <3>1
  <2>8. \A x \in Nat : x = (x \div ByteRange) * ByteRange + (x % ByteRange)
    <3>1. \A x \in Nat : /\ x \div ByteRange \in Nat
                         /\ x = ByteRange * (x \div ByteRange) + (x % ByteRange)
      BY <1>1, Division
    <3>2. \A c \in Nat : ByteRange * c = c * ByteRange
      BY <1>1
    <3>. QED
      BY <3>1, <3>2
  <2>9. f[at] = v \div p
    BY <2>2, <2>3, <2>4, <2>5, <2>6, <2>7, <2>8
  <2>. QED
    BY <2>1, <2>9 DEF p
<1>7. Long \in S
  <2>. HIDE DEF S
  <2>. QED
    BY <1>1, <1>5, <1>6, Induction
<1>8. f[1] = v \div ByteRange ^ 0
  <2>1. Long - Long + 1 = 1 /\ Long - Long = 0 /\ Long <= Long
    BY <1>1
  <2>. QED
    BY <1>7, <2>1
<1>9. v \div ByteRange ^ 0 = v
  <2>1. ByteRange ^ 0 = 1
    BY WidthAssumption
  <2>2. \A x \in Nat : x \div 1 = x
    OBVIOUS
  <2>. QED
    BY <1>1, <2>1, <2>2
<1>. QED
  BY <1>4, <1>8, <1>9 DEF bytes

-----------------------------------------------------------------------------
(* Memory                                                                  *)

Regions == {"ro", "stack", "heap", "input"}
Mems == {m \in [ro : Seq(Bytes), stack : Seq(Bytes), heap : Seq(Bytes), input : Seq(Bytes)] :
            Len(m.heap) <= HeapMax}

(* A region of memory.                                                     *)
LEMMA MemParts ==
    ASSUME NEW m \in Mems, NEW g \in Regions
    PROVE  m[g] \in Seq(Bytes) /\ Len(m[g]) \in Nat
  BY DEF Mems, Regions

(* A part of a sequence.                                                   *)
LEMMA PartOfSeq ==
    ASSUME NEW S, NEW s \in Seq(S), NEW lo \in Int, NEW hi \in Int,
           1 <= lo, lo <= hi + 1, hi <= Len(s)
    PROVE  SubSeq(s, lo, hi) \in Seq(S) /\ Len(SubSeq(s, lo, hi)) = hi - lo + 1
<1>1. \A i \in lo..hi : s[i] \in S
  OBVIOUS
<1>. QED
  BY <1>1, SubSeqProperties

(* Where an access is translated to, there is room for it; where a write   *)
(* is, it is neither to the input nor to the read-only data.               *)
LEMMA PlaceFits ==
    ASSUME NEW m \in Mems, NEW addr \in Words, NEW n \in Nat, NEW write,
           Translate(m, addr, n, write) # NoPlace
    PROVE  LET place == Translate(m, addr, n, write) IN
           /\ place.region \in Regions /\ place.at \in Nat
           /\ place.at + n <= Len(m[place.region])
           /\ write => place.region \in {"stack", "heap"}
<1>. DEFINE hi == addr \div Half
            lo == addr % Half
            end == (lo + n) % Word
            frame == GetFrame(lo)
<1>1. Half \in Nat \ {0} /\ Word \in Nat \ {0} /\ Half <= Word /\ addr \in Int
  BY Widths DEF Words
<1>2. lo \in 0..Half - 1
  BY <1>1
<1>3. frame \in Int
  <2>1. StackFrameSize \in Nat \ {0} /\ StackFrameSize + StackGap \in Nat \ {0}
    BY SbpfAssumption
  <2>2. \A u \in Nat \ {0} : lo % u \in Int /\ lo \div u \in Int
    BY <1>2
  <2>. QED
    BY <2>1, <2>2 DEF GetFrame
<1>4. \A g \in Regions : Len(m[g]) \in Nat
  BY MemParts
<1>5. ~ (n > 0 /\ lo > Word - 1 - n)
  BY DEF Translate
<1>6. end = lo + n
  <2>1. lo + n \in 0..Word - 1
    BY <1>1, <1>2, <1>5
  <2>. QED
    BY <1>1, <2>1
<1>7. Translate(m, addr, n, write) \in
         {p \in {[region |-> "ro", at |-> lo], [region |-> "stack", at |-> frame],
                 [region |-> "heap", at |-> lo], [region |-> "input", at |-> lo]} :
             /\ p.region = "ro" => ~write /\ end <= Len(m.ro)
             /\ p.region = "stack" => frame >= 0 /\ frame < Len(m.stack) /\ n <= Len(m.stack) - frame
             /\ p.region = "heap" => end <= Len(m.heap)
             /\ p.region = "input" => ~write /\ end <= Len(m.input)}
  BY DEF Translate
<1>. HIDE DEF lo, frame, end
<1>. DEFINE place == Translate(m, addr, n, write)
<1>8. place.region \in Regions /\ place.at \in Nat /\ (write => place.region \in {"stack", "heap"})
  BY <1>2, <1>3, <1>7 DEF Regions
<1>9. place.at + n <= Len(m[place.region])
  BY <1>2, <1>3, <1>4, <1>6, <1>7 DEF Regions
<1>. QED
  BY <1>8, <1>9

(* What is read is as long as it was asked for.                            *)
LEMMA ReadBytes ==
    ASSUME NEW m \in Mems, NEW addr \in Words, NEW n \in Nat, CanRead(m, addr, n)
    PROVE  /\ BytesAt(m, addr, n) \in Seq(Bytes) /\ Len(BytesAt(m, addr, n)) = n
           /\ n <= Long => IntAt(m, addr, n) \in Words
<1>. DEFINE place == Translate(m, addr, n, FALSE)
            s == m[place.region]
<1>1. place.region \in Regions /\ place.at \in Nat /\ place.at + n <= Len(s)
  BY PlaceFits DEF CanRead
<1>2. s \in Seq(Bytes)
  BY <1>1, MemParts
<1>3. BytesAt(m, addr, n) = SubSeq(s, place.at + 1, place.at + n)
  BY DEF BytesAt
<1>. HIDE DEF place, s
<1>4. BytesAt(m, addr, n) \in Seq(Bytes) /\ Len(BytesAt(m, addr, n)) = n
  <2>. DEFINE lo == place.at + 1 hi == place.at + n
  <2>1. lo \in Int /\ hi \in Int /\ 1 <= lo /\ lo <= hi + 1 /\ hi - lo + 1 = n
    BY <1>1
  <2>2. BytesAt(m, addr, n) = SubSeq(s, lo, hi) /\ hi <= Len(s)
    BY <1>1, <1>3
  <2>. HIDE DEF lo, hi
  <2>. QED
    BY <1>2, <2>1, <2>2, PartOfSeq
<1>. QED
  BY <1>4, IntegerOfBytes DEF IntAt

(* A write changes the content of the stack or of the heap, and nothing    *)
(* else.                                                                   *)
Keeps(m, new) ==
    /\ new \in Mems /\ new.ro = m.ro /\ new.input = m.input
    /\ Len(new.stack) = Len(m.stack) /\ Len(new.heap) >= Len(m.heap)

(* What a write leaves.                                                    *)
LEMMA WriteKeeps ==
    ASSUME NEW m \in Mems, NEW addr \in Words, NEW bytes \in Seq(Bytes),
           CanWrite(m, addr, Len(bytes))
    PROVE  Keeps(m, Written(m, addr, bytes)) /\ Len(Written(m, addr, bytes).heap) = Len(m.heap)
<1>. DEFINE n == Len(bytes)
            place == Translate(m, addr, n, TRUE)
            s == m[place.region]
            t == SubSeq(s, 1, place.at) \o bytes \o SubSeq(s, place.at + n + 1, Len(s))
<1>1. n \in Nat
  OBVIOUS
<1>2. place.region \in {"stack", "heap"} /\ place.at \in Nat /\ place.at + n <= Len(s)
  BY <1>1, PlaceFits DEF CanWrite
<1>3. s \in Seq(Bytes)
  BY <1>2, MemParts DEF Regions
<1>4. Written(m, addr, bytes) = [m EXCEPT ![place.region] = t]
  BY DEF Written
<1>. HIDE DEF n, place, s
<1>5. t \in Seq(Bytes) /\ Len(t) = Len(s)
  <2>1. SubSeq(s, 1, place.at) \in Seq(Bytes) /\ Len(SubSeq(s, 1, place.at)) = place.at
    BY <1>1, <1>2, <1>3
  <2>2. /\ SubSeq(s, place.at + n + 1, Len(s)) \in Seq(Bytes)
        /\ Len(SubSeq(s, place.at + n + 1, Len(s))) = Len(s) - (place.at + n)
    BY <1>1, <1>2, <1>3
  <2>3. Len(bytes) = n
    BY DEF n
  <2>. DEFINE one == SubSeq(s, 1, place.at) three == SubSeq(s, place.at + n + 1, Len(s))
  <2>4. t = one \o bytes \o three
    BY DEF t
  <2>. HIDE DEF one, three, t
  <2>5. one \o bytes \in Seq(Bytes) /\ Len(one \o bytes) = place.at + n
    BY <2>1, <2>3 DEF one
  <2>6. t \in Seq(Bytes) /\ Len(t) = (place.at + n) + (Len(s) - (place.at + n))
    BY <2>2, <2>4, <2>5 DEF three
  <2>7. Len(s) \in Nat
    BY <1>3
  <2>. QED
    BY <1>1, <1>2, <2>6, <2>7
<1>. HIDE DEF t
<1>8. Len(m.heap) \in Nat /\ Len(m.heap) <= HeapMax
  BY MemParts DEF Mems, Regions
<1>6. CASE place.region = "stack"
  <2>. DEFINE new == Written(m, addr, bytes)
  <2>1. new = [m EXCEPT !.stack = t] /\ Len(t) = Len(m.stack)
    BY <1>4, <1>5, <1>6 DEF s
  <2>. HIDE DEF new
  <2>2. /\ new \in [ro : Seq(Bytes), stack : Seq(Bytes), heap : Seq(Bytes), input : Seq(Bytes)]
        /\ new.ro = m.ro /\ new.input = m.input /\ new.heap = m.heap /\ new.stack = t
    BY <1>5, <2>1 DEF Mems
  <2>3. Len(new.heap) = Len(m.heap) /\ Len(new.stack) = Len(m.stack)
    BY <2>1, <2>2
  <2>4. new \in Mems
    BY <1>8, <2>2, <2>3 DEF Mems
  <2>5. Keeps(m, new)
    BY <1>8, <2>2, <2>3, <2>4 DEF Keeps
  <2>. QED
    BY <2>3, <2>5 DEF new
<1>7. CASE place.region = "heap"
  <2>. DEFINE new == Written(m, addr, bytes)
  <2>1. new = [m EXCEPT !.heap = t] /\ Len(t) = Len(m.heap)
    BY <1>4, <1>5, <1>7 DEF s
  <2>. HIDE DEF new
  <2>2. /\ new \in [ro : Seq(Bytes), stack : Seq(Bytes), heap : Seq(Bytes), input : Seq(Bytes)]
        /\ new.ro = m.ro /\ new.input = m.input /\ new.stack = m.stack /\ new.heap = t
    BY <1>5, <2>1 DEF Mems
  <2>3. Len(new.heap) = Len(m.heap) /\ Len(new.stack) = Len(m.stack)
    BY <2>1, <2>2
  <2>4. new \in Mems
    BY <1>8, <2>2, <2>3 DEF Mems
  <2>5. Keeps(m, new)
    BY <1>8, <2>2, <2>3, <2>4 DEF Keeps
  <2>. QED
    BY <2>3, <2>5 DEF new
<1>. QED
  BY <1>2, <1>6, <1>7

-----------------------------------------------------------------------------
(* Calls of the host                                                       *)

Returns == [id : Seq(Bytes), data : {d \in Seq(Bytes) : Len(d) <= MaxReturnData}]

\* The states of a call that began with the memory m.
CallsOn(m) ==
    {st \in [state : {"go", "done", "err"}, r0 : Words, mem : Mems, cu : 0..CuLimit,
             ret : Returns] : Keeps(m, st.mem)}

(* One write after another.                                                *)
LEMMA KeepsAgain ==
    ASSUME NEW m \in Mems, NEW one, NEW two, Keeps(m, one), Keeps(one, two)
    PROVE  Keeps(m, two)
<1>1. Len(m.heap) \in Nat /\ Len(one.heap) \in Nat /\ Len(two.heap) \in Nat
  BY MemParts DEF Keeps, Regions
<1>. QED
  BY <1>1 DEF Keeps

(* What the elementary parts of a call do.                                 *)
LEMMA CheckIs ==
    ASSUME NEW st, NEW holds
    PROVE  Check(st, holds) = IF st.state = "go" THEN IF holds THEN st ELSE Err(st) ELSE st
  BY DEF Check, Then, With

(* What a charge does.                                                     *)
LEMMA ChargeIs ==
    ASSUME NEW st, NEW cost
    PROVE  Charge(st, cost) = IF st.state = "go"
              THEN IF st.cu + cost <= CuLimit THEN [st EXCEPT !.cu = @ + cost] ELSE Err(st)
              ELSE st
  BY DEF Charge, Then, With

(* What an early answer does.                                              *)
LEMMA AnswerIs ==
    ASSUME NEW st, NEW code
    PROVE  Answer(st, code) =
              IF st.state = "go" THEN [st EXCEPT !.state = "done", !.r0 = code] ELSE st
  BY DEF Answer, Then, With

(* What a checked read does.                                               *)
LEMMA ReadsIs ==
    ASSUME NEW st, NEW addr, NEW n
    PROVE  Reads(st, addr, n) =
              IF st.state = "go" THEN IF CanRead(st.mem, addr, n) THEN st ELSE Err(st) ELSE st
  BY DEF Reads, Then, With

(* What a checked write does.                                              *)
LEMMA WritesIs ==
    ASSUME NEW st, NEW addr, NEW bytes
    PROVE  Writes(st, addr, bytes) =
              IF st.state = "go"
              THEN IF CanWrite(st.mem, addr, Len(bytes))
                   THEN [st EXCEPT !.mem = Written(@, addr, bytes)] ELSE Err(st)
              ELSE st
  BY DEF Writes, Then, With

(* All of them leave a state of the call.                                  *)
LEMMA ErrOK ==
    ASSUME NEW m, NEW st \in CallsOn(m)
    PROVE  Err(st) \in CallsOn(m) /\ Err(st).state = "err"
  BY DEF Err, CallsOn

(* A check goes on or fails.                                               *)
LEMMA CheckOK ==
    ASSUME NEW m, NEW st \in CallsOn(m), NEW holds
    PROVE  Check(st, holds) \in CallsOn(m)
  BY CheckIs, ErrOK

(* A charge counts what fits in the limit.                                 *)
LEMMA ChargeOK ==
    ASSUME NEW m, NEW st \in CallsOn(m), NEW cost \in Nat
    PROVE  Charge(st, cost) \in CallsOn(m)
<1>1. ASSUME st.cu + cost <= CuLimit PROVE [st EXCEPT !.cu = @ + cost] \in CallsOn(m)
  <2>1. st.cu + cost \in 0..CuLimit
    <3>1. st.cu \in 0..CuLimit
      BY DEF CallsOn
    <3>2. CuLimit \in Nat
      BY SyscallsAssumption
    <3>. QED
      BY <1>1, <3>1, <3>2
  <2>. QED
    BY <2>1 DEF CallsOn
<1>. QED
  BY <1>1, ChargeIs, ErrOK

(* An answer is a word.                                                    *)
LEMMA AnswerOK ==
    ASSUME NEW m, NEW st \in CallsOn(m), NEW code \in Words
    PROVE  Answer(st, code) \in CallsOn(m)
<1>1. [st EXCEPT !.state = "done", !.r0 = code] \in CallsOn(m)
  BY DEF CallsOn
<1>. QED
  BY <1>1, AnswerIs

(* A read changes nothing.                                                 *)
LEMMA ReadsOK ==
    ASSUME NEW m, NEW st \in CallsOn(m), NEW addr, NEW n
    PROVE  Reads(st, addr, n) \in CallsOn(m)
  BY ReadsIs, ErrOK

(* A write keeps the read-only regions.                                    *)
LEMMA WritesOK ==
    ASSUME NEW m \in Mems, NEW st \in CallsOn(m), NEW addr \in Words, NEW bytes \in Seq(Bytes)
    PROVE  Writes(st, addr, bytes) \in CallsOn(m)
<1>1. ASSUME CanWrite(st.mem, addr, Len(bytes))
      PROVE  [st EXCEPT !.mem = Written(@, addr, bytes)] \in CallsOn(m)
  <2>1. st.mem \in Mems /\ Keeps(m, st.mem)
    BY DEF CallsOn
  <2>2. Keeps(st.mem, Written(st.mem, addr, bytes))
    BY <1>1, <2>1, WriteKeeps
  <2>3. Keeps(m, Written(st.mem, addr, bytes)) /\ Written(st.mem, addr, bytes) \in Mems
    BY <2>1, <2>2, KeepsAgain DEF Keeps
  <2>. QED
    BY <2>3 DEF CallsOn
<1>. QED
  BY <1>1, WritesIs, ErrOK

(* A word that has been read without a failure is one.                     *)
LEMMA ReadsLongOK ==
    ASSUME NEW m, NEW st \in CallsOn(m), NEW addr \in Words
    PROVE  /\ ReadsLong(st, addr) \in CallsOn(m)
           /\ ReadsLong(st, addr).state = "go" =>
                 ReadsLong(st, addr) = st /\ LongAt(st, addr) \in Words
<1>. DEFINE s == Reads(st, addr, Long)
<1>1. s \in CallsOn(m) /\ ReadsLong(st, addr) = Check(s, Aligned(addr, Long))
  BY ReadsOK DEF ReadsLong
<1>2. ReadsLong(st, addr) \in CallsOn(m)
  BY <1>1, CheckOK
<1>3. ASSUME ReadsLong(st, addr).state = "go"
      PROVE  ReadsLong(st, addr) = st /\ LongAt(st, addr) \in Words
  <2>1. ReadsLong(st, addr) = s /\ s.state = "go"
    BY <1>1, <1>3, CheckIs, ErrOK
  <2>2. s = st /\ CanRead(st.mem, addr, Long)
    BY <2>1, ReadsIs, ErrOK
  <2>3. st.mem \in Mems /\ Long \in Nat /\ Long <= Long
    BY Widths DEF CallsOn
  <2>. QED
    BY <2>1, <2>2, <2>3, ReadBytes DEF LongAt
<1>. QED
  BY <1>2, <1>3

(* Sums of addresses wrap.                                                 *)
LEMMA PlusIsWord ==
    ASSUME NEW addr \in Words, NEW n \in Int
    PROVE  Plus(addr, n) \in Words
  BY Widths DEF Plus, Words

\* The i-th pair of an array, as Slices takes it.
SliceAt(s, addr, i, max, kind) ==
    LET Part(t, ptr, length) ==
            IF length > max THEN IF kind = "seeds" THEN Answer(t, 1) ELSE Err(t)
            ELSE IF kind = "data" THEN Reads(Charge(t, length), ptr, length)
            ELSE IF kind = "signer" /\ length = 0 THEN t
            ELSE Reads(t, ptr, length)
        pair == Plus(addr, i * 2 * Long)
    IN Then(ReadsLong(ReadsLong(s, pair), Plus(pair, Long)),
            LAMBDA t : Part(t, LongAt(t, pair), LongAt(t, Plus(pair, Long))))

(* One pair of an array leaves a state of the call.                        *)
LEMMA SliceOK ==
    ASSUME NEW m, NEW s \in CallsOn(m), NEW addr \in Words, NEW i \in Nat, NEW max, NEW kind
    PROVE  SliceAt(s, addr, i, max, kind) \in CallsOn(m)
<1>. DEFINE pair == Plus(addr, i * 2 * Long)
            next == Plus(pair, Long)
            one == ReadsLong(s, pair)
            t == ReadsLong(one, next)
            length == LongAt(t, next)
            ptr == LongAt(t, pair)
            part == IF length > max THEN IF kind = "seeds" THEN Answer(t, 1) ELSE Err(t)
                    ELSE IF kind = "data" THEN Reads(Charge(t, length), ptr, length)
                    ELSE IF kind = "signer" /\ length = 0 THEN t
                    ELSE Reads(t, ptr, length)
<1>1. pair \in Words /\ next \in Words
  <2>1. i * 2 * Long \in Int /\ Long \in Int
    BY Widths
  <2>. QED
    BY <2>1, PlusIsWord
<1>2. SliceAt(s, addr, i, max, kind) = IF t.state = "go" THEN part ELSE t
  BY DEF SliceAt, Then, With
<1>. HIDE DEF pair, next
<1>3. one \in CallsOn(m) /\ t \in CallsOn(m)
  BY <1>1, ReadsLongOK
<1>4. t.state = "go" => length \in Words
  <2>. SUFFICES ASSUME t.state = "go" PROVE length \in Words
    OBVIOUS
  <2>1. t = one /\ LongAt(one, next) \in Words
    BY <1>1, <1>3, ReadsLongOK
  <2>. QED
    BY <2>1
<1>. HIDE DEF t, length, ptr
<1>5. ASSUME length \in Words PROVE part \in CallsOn(m)
  <2>1. length \in Nat /\ 1 \in Words
    BY <1>5, Widths DEF Words
  <2>2. Charge(t, length) \in CallsOn(m)
    BY <1>3, <2>1, ChargeOK
  <2>. QED
    BY <1>3, <2>1, <2>2, AnswerOK, ErrOK, ReadsOK
<1>. QED
  BY <1>2, <1>3, <1>4, <1>5

(* And so does the array.                                                  *)
LEMMA SlicesOK ==
    ASSUME NEW m, NEW st \in CallsOn(m), NEW addr \in Words, NEW n \in Nat, NEW max, NEW kind
    PROVE  Slices(st, addr, n, max, kind) \in CallsOn(m)
<1>. DEFINE s == [i \in 1..n |-> i - 1]
            op(v, i) == SliceAt(v, addr, i, max, kind)
            F == [vT \in CallsOn(m) \X (SUBSET (1..n)) |->
                     IF vT[2] = {} THEN st ELSE op(vT[1], s[Max(vT[2])])]
            Unfolds(iter) == iter = [T \in SUBSET (1..n) |->
                             IF T = {} THEN st ELSE op(iter[T \ {Max(T)}], s[Max(T)])]
            it == CHOOSE iter : Unfolds(iter)
<1>1. ASSUME NEW T \in SUBSET (1..n), T # {}, NEW v \in CallsOn(m)
      PROVE  op(v, s[Max(T)]) \in CallsOn(m)
  <2>1. Max(T) \in 1..n
    BY <1>1, Extremes
  <2>2. s[Max(T)] \in Nat
    BY <2>1
  <2>. QED
    BY <2>2, SliceOK
<1>2. F \in [CallsOn(m) \X (SUBSET (1..n)) -> CallsOn(m)]
  <2>. HIDE DEF op
  <2>. QED
    BY <1>1
<1>3. PICK iter \in [SUBSET (1..n) -> CallsOn(m)] : Folds(iter, F, st, LastOf(n), SUBSET (1..n))
  BY <1>2, FoldExists, PlacesChosen
<1>4. Unfolds(iter)
  BY <1>3 DEF Folds, LastOf
<1>5. Unfolds(it)
  BY <1>4
<1>6. Slices(st, addr, n, max, kind) = IF st.state = "go" THEN it[1..n] ELSE st
  <2>. DEFINE all(x) == FoldLeft(LAMBDA v, i : SliceAt(v, addr, i, max, kind), x, s)
  <2>1. Slices(st, addr, n, max, kind) = Then(st, LAMBDA x : all(x))
    BY DEF Slices, SliceAt
  <2>2. Then(st, LAMBDA x : all(x)) = IF st.state = "go" THEN all(st) ELSE st
    <3>. HIDE DEF all
    <3>. QED
      BY DEF Then, With
  <2>3. all(st) = it[1..n]
    BY DEF FoldLeft, MapThenFoldSet
  <2>. HIDE DEF all, it
  <2>. QED
    BY <2>1, <2>2, <2>3
<1>. HIDE DEF it, op, s
<1>. DEFINE H == {T \in SUBSET (1..n) : it[T] \in CallsOn(m)}
<1>7. {} \in H
  BY <1>5
<1>8. \A T \in SUBSET (1..n) : T # {} /\ T \ {LastOf(n)[T]} \in H => T \in H
  BY <1>1, <1>5 DEF LastOf
<1>9. 1..n \in H
  <2>. HIDE DEF H
  <2>. QED
    BY <1>7, <1>8, SetInduction, PlacesChosen
<1>. QED
  BY <1>6, <1>9

\* The i-th account of an invocation, as MetasOf takes it.
MetaAt(s, addr, i) ==
    LET meta == Plus(addr, i * MetaSize) IN
    Then(ReadsLong(s, meta), LAMBDA t :
         Reads(Reads(Reads(t, LongAt(t, meta), KeySize),
                     Plus(meta, Long), 1), Plus(meta, Long + 1), 1))

(* One account of an invocation leaves a state of the call.                *)
LEMMA MetaOK ==
    ASSUME NEW m, NEW s \in CallsOn(m), NEW addr \in Words, NEW i \in Nat
    PROVE  MetaAt(s, addr, i) \in CallsOn(m)
<1>. DEFINE meta == Plus(addr, i * MetaSize)
            t == ReadsLong(s, meta)
<1>1. meta \in Words
  <2>1. i * MetaSize \in Int
    BY Widths DEF MetaSize
  <2>. QED
    BY <2>1, PlusIsWord
<1>2. MetaAt(s, addr, i) =
         IF t.state = "go"
         THEN Reads(Reads(Reads(t, LongAt(t, meta), KeySize),
                          Plus(meta, Long), 1), Plus(meta, Long + 1), 1)
         ELSE t
  BY DEF MetaAt, Then, With
<1>. HIDE DEF meta
<1>3. t \in CallsOn(m)
  BY <1>1, ReadsLongOK
<1>. HIDE DEF t
<1>. QED
  BY <1>2, <1>3, ReadsOK

(* And so do all of them.                                                  *)
LEMMA MetasOK ==
    ASSUME NEW m, NEW st \in CallsOn(m), NEW addr \in Words, NEW n \in Nat
    PROVE  MetasOf(st, addr, n) \in CallsOn(m)
<1>. DEFINE s == [i \in 1..n |-> i - 1]
            op(v, i) == MetaAt(v, addr, i)
            F == [vT \in CallsOn(m) \X (SUBSET (1..n)) |->
                     IF vT[2] = {} THEN st ELSE op(vT[1], s[Max(vT[2])])]
            Unfolds(iter) == iter = [T \in SUBSET (1..n) |->
                             IF T = {} THEN st ELSE op(iter[T \ {Max(T)}], s[Max(T)])]
            it == CHOOSE iter : Unfolds(iter)
<1>1. ASSUME NEW T \in SUBSET (1..n), T # {}, NEW v \in CallsOn(m)
      PROVE  op(v, s[Max(T)]) \in CallsOn(m)
  <2>1. Max(T) \in 1..n
    BY <1>1, Extremes
  <2>2. s[Max(T)] \in Nat
    BY <2>1
  <2>. QED
    BY <2>2, MetaOK
<1>2. F \in [CallsOn(m) \X (SUBSET (1..n)) -> CallsOn(m)]
  <2>. HIDE DEF op
  <2>. QED
    BY <1>1
<1>3. PICK iter \in [SUBSET (1..n) -> CallsOn(m)] : Folds(iter, F, st, LastOf(n), SUBSET (1..n))
  BY <1>2, FoldExists, PlacesChosen
<1>4. Unfolds(iter)
  BY <1>3 DEF Folds, LastOf
<1>5. Unfolds(it)
  BY <1>4
<1>6. MetasOf(st, addr, n) = IF st.state = "go" THEN it[1..n] ELSE st
  BY DEF MetasOf, MetaAt, FoldLeft, MapThenFoldSet, Then, With
<1>. HIDE DEF it, op, s
<1>. DEFINE H == {T \in SUBSET (1..n) : it[T] \in CallsOn(m)}
<1>7. {} \in H
  BY <1>5
<1>8. \A T \in SUBSET (1..n) : T # {} /\ T \ {LastOf(n)[T]} \in H => T \in H
  BY <1>1, <1>5 DEF LastOf
<1>9. 1..n \in H
  <2>. HIDE DEF H
  <2>. QED
    BY <1>7, <1>8, SetInduction, PlacesChosen
<1>. QED
  BY <1>6, <1>9

\* The arguments of a call, and where it begins.
Arguments == [1..5 -> Words]
Begun(m, st) == m \in Mems /\ st \in CallsOn(m) /\ st.state = "go"

(* The limits of calls are numbers.                                        *)
LEMMA Sizes ==
    /\ {CuLimit, CuBase, CuPda, CuCpi, MaxLogMsgLen, MaxReturnData, MaxMemOpSize, MaxSlices,
        MaxSeeds, MaxSeedLen, MaxBump, MaxCPIAccountInfos, MaxCPIInstructionSize,
        HeapMax, KeySize} \subseteq Nat
    /\ {0, 1} \subseteq Words /\ Words \subseteq Nat /\ Digest \in Seq(Bytes)
  BY SyscallsAssumption, Widths DEF Words

(* Arguments are words.                                                    *)
LEMMA ArgumentTypes ==
    ASSUME NEW a \in Arguments, NEW i \in 1..5
    PROVE  a[i] \in Words /\ a[i] \in Nat
  BY Sizes DEF Arguments

(* sol_log_                                                                *)
LEMMA LogOK ==
    ASSUME NEW m, NEW st \in CallsOn(m), NEW a \in Arguments
    PROVE  Log(st, a) \in CallsOn(m)
<1>. DEFINE n == Least(a[2], MaxLogMsgLen)
<1>1. n \in Nat /\ CuBase + n \in Nat
  <2>1. a[2] \in Nat /\ MaxLogMsgLen \in Nat /\ CuBase \in Nat
    BY Sizes, ArgumentTypes
  <2>. QED
    BY <2>1 DEF Least
<1>. HIDE DEF n
<1>. QED
  BY <1>1, ChargeOK, ReadsOK DEF Log, n

(* sol_log_pubkey                                                          *)
LEMMA LogPubkeyOK ==
    ASSUME NEW m, NEW st \in CallsOn(m), NEW a \in Arguments
    PROVE  LogPubkey(st, a) \in CallsOn(m)
<1>1. Charge(st, CuBase) \in CallsOn(m)
  BY ChargeOK, Sizes
<1>. QED
  BY <1>1, ReadsOK DEF LogPubkey

(* sol_log_data                                                            *)
LEMMA LogDataOK ==
    ASSUME NEW m, NEW st \in CallsOn(m), NEW a \in Arguments
    PROVE  LogData(st, a) \in CallsOn(m)
<1>1. Charge(st, CuBase) \in CallsOn(m)
  BY ChargeOK, Sizes
<1>2. a[1] \in Words /\ a[2] \in Nat
  BY ArgumentTypes
<1>. QED
  BY <1>1, <1>2, SlicesOK, ErrOK DEF LogData

(* The charge of an operation on memory.                                   *)
LEMMA MemOpOK ==
    ASSUME NEW m, NEW st \in CallsOn(m), NEW n \in Nat
    PROVE  MemOp(st, n) \in CallsOn(m)
<1>1. CuBase + n \in Nat /\ Check(st, n <= MaxMemOpSize) \in CallsOn(m)
  BY Sizes, CheckOK
<1>. QED
  BY <1>1, ChargeOK DEF MemOp

(* What a call has read without a failure, it can have.                    *)
LEMMA ReadsGo ==
    ASSUME NEW m, NEW st \in CallsOn(m), NEW addr \in Words, NEW n \in Nat,
           Reads(st, addr, n).state = "go"
    PROVE  /\ Reads(st, addr, n) = st /\ CanRead(st.mem, addr, n)
           /\ BytesAt(st.mem, addr, n) \in Seq(Bytes) /\ Len(BytesAt(st.mem, addr, n)) = n
<1>1. Reads(st, addr, n) = st /\ CanRead(st.mem, addr, n)
  BY ReadsIs, ErrOK
<1>2. st.mem \in Mems
  BY DEF CallsOn
<1>. QED
  BY <1>1, <1>2, ReadBytes

(* sol_memcpy_ and sol_memmove_                                            *)
LEMMA MemcpyOK ==
    ASSUME NEW m \in Mems, NEW st \in CallsOn(m), NEW a \in Arguments
    PROVE  Memcpy(st, a) \in CallsOn(m)
<1>. DEFINE op == MemOp(st, a[3])
            s == Reads(op, a[2], a[3])
<1>1. a[1] \in Words /\ a[2] \in Words /\ a[3] \in Nat
  BY ArgumentTypes
<1>2. op \in CallsOn(m) /\ s \in CallsOn(m)
  BY <1>1, MemOpOK, ReadsOK
<1>3. Memcpy(st, a) = IF a[3] = 0 THEN st
                      ELSE IF s.state = "go" THEN Writes(s, a[1], BytesAt(s.mem, a[2], a[3])) ELSE s
  BY DEF Memcpy, Then, With
<1>. HIDE DEF op
<1>4. ASSUME s.state = "go" PROVE BytesAt(s.mem, a[2], a[3]) \in Seq(Bytes)
  BY <1>1, <1>2, <1>4, ReadsGo
<1>. HIDE DEF s
<1>. QED
  BY <1>1, <1>2, <1>3, <1>4, WritesOK

(* sol_memset_                                                             *)
LEMMA MemsetOK ==
    ASSUME NEW m \in Mems, NEW st \in CallsOn(m), NEW a \in Arguments
    PROVE  Memset(st, a) \in CallsOn(m)
<1>. DEFINE s == MemOp(st, a[3])
            bytes == [i \in 1..a[3] |-> a[2] % ByteRange]
<1>1. a[1] \in Words /\ a[2] \in Nat /\ a[3] \in Nat
  BY ArgumentTypes
<1>2. s \in CallsOn(m)
  BY <1>1, MemOpOK
<1>3. bytes \in Seq(Bytes)
  <2>1. a[2] % ByteRange \in Bytes
    BY <1>1, Widths DEF Bytes
  <2>. QED
    BY <1>1, <2>1
<1>4. Memset(st, a) = IF a[3] = 0 THEN st
                      ELSE IF s.state = "go" THEN Writes(s, a[1], bytes) ELSE s
  BY DEF Memset, Then, With
<1>. HIDE DEF s, bytes
<1>. QED
  BY <1>1, <1>2, <1>3, <1>4, WritesOK

(* What a comparison finds can be written.                                 *)
LEMMA DifferenceIsInteger ==
    ASSUME NEW n \in Nat, NEW one \in Seq(Bytes), NEW two \in Seq(Bytes), Len(one) = n, Len(two) = n
    PROVE  Difference(one, two, n) \in Int
<1>. DEFINE differ == {i \in 1..n : one[i] # two[i]}
<1>1. ASSUME differ # {} PROVE one[Min(differ)] \in Int /\ two[Min(differ)] \in Int
  <2>1. Min(differ) \in 1..n
    BY <1>1, Extremes
  <2>. DEFINE k == Min(differ)
  <2>2. k \in 1..n
    BY <2>1
  <2>. HIDE DEF k
  <2>3. one[k] \in Bytes /\ two[k] \in Bytes
    BY <2>2
  <2>. QED
    BY <2>3, Widths DEF Bytes, k
<1>2. Difference(one, two, n) = IF differ = {} THEN 0 ELSE (one[Min(differ)] - two[Min(differ)]) % Half
  BY DEF Difference
<1>. HIDE DEF differ
<1>. QED
  BY <1>1, <1>2, Widths

(* sol_memcmp_                                                             *)
LEMMA MemcmpOK ==
    ASSUME NEW m \in Mems, NEW st \in CallsOn(m), NEW a \in Arguments
    PROVE  Memcmp(st, a) \in CallsOn(m)
<1>. DEFINE n == a[3]
            op == MemOp(st, n)
            one == Reads(op, a[1], n)
            s == Reads(one, a[2], n)
            v == Difference(BytesAt(s.mem, a[1], n), BytesAt(s.mem, a[2], n), n)
            Answered(t, d) ==
               Writes(Check(t, Aligned(a[4], Size["w"])), a[4], BytesOf(d, Size["w"]))
<1>1. /\ a[1] \in Words /\ a[2] \in Words /\ a[4] \in Words /\ n \in Nat
      /\ Size["w"] \in 0..Long
  BY ArgumentTypes, Widths, SbpfAssumption
<1>2. op \in CallsOn(m) /\ one \in CallsOn(m) /\ s \in CallsOn(m)
  BY <1>1, MemOpOK, ReadsOK
<1>3. ASSUME NEW t \in CallsOn(m), NEW d \in Int PROVE Answered(t, d) \in CallsOn(m)
  <2>1. Check(t, Aligned(a[4], Size["w"])) \in CallsOn(m) /\ BytesOf(d, Size["w"]) \in Seq(Bytes)
    BY <1>1, CheckOK, BytesOfInteger
  <2>. QED
    BY <1>1, <2>1, WritesOK
<1>4. Memcmp(st, a) = IF n = 0 THEN Answered(op, 0)
                      ELSE IF s.state = "go" THEN Answered(s, v) ELSE s
  BY DEF Memcmp, Then, With
<1>. HIDE DEF Answered, op, one
<1>5. ASSUME s.state = "go" PROVE v \in Int
  <2>1. one.state = "go" /\ s = one
    BY <1>1, <1>2, <1>5, ReadsIs, ErrOK
  <2>2. BytesAt(one.mem, a[1], n) \in Seq(Bytes) /\ Len(BytesAt(one.mem, a[1], n)) = n
    BY <1>1, <1>2, <2>1, ReadsGo DEF one
  <2>3. BytesAt(s.mem, a[2], n) \in Seq(Bytes) /\ Len(BytesAt(s.mem, a[2], n)) = n
    BY <1>1, <1>2, <1>5, <2>1, ReadsGo
  <2>. QED
    BY <1>1, <2>1, <2>2, <2>3, DifferenceIsInteger
<1>. HIDE DEF s, v
<1>6. 0 \in Int /\ (n = 0 => Memcmp(st, a) = Answered(op, 0))
  BY <1>4
<1>7. n # 0 => Memcmp(st, a) = IF s.state = "go" THEN Answered(s, v) ELSE s
  BY <1>4
<1>. HIDE DEF n
<1>. QED
  BY <1>2, <1>3, <1>5, <1>6, <1>7

(* An allocation grows the heap by its size at least, and is what it has   *)
(* grown by.                                                               *)
LEMMA AllocFreeOK ==
    ASSUME NEW m \in Mems, NEW st \in CallsOn(m), NEW a \in Arguments
    PROVE  /\ AllocFree(st, a) \in CallsOn(m)
           /\ st.r0 = 0 /\ AllocFree(st, a).r0 # 0 /\ a[1] <= HeapMax =>
                 /\ AllocFree(st, a).r0 = VaddrHeap + Len(st.mem.heap)
                 /\ Len(AllocFree(st, a).mem.heap) >= Len(st.mem.heap) + a[1]
<1>. DEFINE ready == Charge(st, CuBase)
            size == RoundedUp(a[1])
            top == Len(st.mem.heap)
            end == (top + size) % Word
            grown == [ready EXCEPT !.mem.heap = Grown(@, end)]
            res == AllocFree(st, a)
<1>1. /\ a[1] \in Nat /\ HeapMax \in Nat /\ 2 * HeapMax + Long < Half /\ Long \in Nat \ {0}
      /\ Word \in Nat \ {0} /\ Half \in Nat \ {0} /\ 5 * Half <= Word
  BY ArgumentTypes, Sizes, Widths, SyscallsAssumption
<1>2. ready \in CallsOn(m) /\ ready.mem = st.mem /\ ready.r0 = st.r0
  <2>1. ready \in CallsOn(m)
    BY Sizes, ChargeOK
  <2>2. ready.mem = st.mem /\ ready.r0 = st.r0
    BY ChargeIs DEF CallsOn, Err
  <2>. QED
    BY <2>1, <2>2
<1>3. st.mem.heap \in Seq(Bytes) /\ top \in 0..HeapMax
  BY MemParts DEF CallsOn, Mems, Regions
<1>4. size \in Nat /\ (a[1] <= HeapMax => size \in a[1]..a[1] + Long)
  <2>1. \A x \in Nat, l \in Nat \ {0} : (x \div l) * l \in Nat /\ (x \div l) * l <= x
    OBVIOUS
  <2>2. (a[1] + Long - 1) % Word \in Nat
    BY <1>1
  <2>3. size \in Nat
    BY <1>1, <2>1, <2>2 DEF RoundedUp
  <2>4. ASSUME a[1] <= HeapMax PROVE size \in a[1]..a[1] + Long
    <3>1. (a[1] + Long - 1) % Word = a[1] + Long - 1
      BY <1>1, <2>4
    <3>2. \A x \in Nat, l \in Nat \ {0} : ((x + l - 1) \div l) * l >= x
      OBVIOUS
    <3>3. \A x \in Nat, l \in Nat \ {0} : ((x + l - 1) \div l) * l <= x + l - 1
      OBVIOUS
    <3>4. size = ((a[1] + Long - 1) \div Long) * Long
      BY <3>1 DEF RoundedUp
    <3>5. size >= a[1] /\ size <= a[1] + Long - 1
      BY <1>1, <3>2, <3>3, <3>4
    <3>. QED
      BY <1>1, <2>3, <3>5
  <2>. QED
    BY <2>3, <2>4
<1>5. res = IF ready.state # "go" \/ a[1] = 0 \/ end > HeapMax THEN ready ELSE Answer(grown, VaddrHeap + top)
  BY DEF AllocFree
<1>. HIDE DEF res, size, ready
<1>6. end \in Nat /\ (top + size < Word => end = top + size)
  <2>. HIDE DEF top
  <2>1. top + size \in Nat
    BY <1>1, <1>3, <1>4
  <2>. QED
    BY <1>1, <2>1
<1>. HIDE DEF end
<1>7. ASSUME end <= HeapMax
      PROVE  /\ grown \in CallsOn(m) /\ grown.state = ready.state
             /\ Len(grown.mem.heap) \in Nat
             /\ Len(grown.mem.heap) >= end /\ Len(grown.mem.heap) >= top
  <2>. DEFINE heap == Grown(st.mem.heap, end)
              zeros == [i \in 1..end - top |-> 0]
  <2>1. heap \in Seq(Bytes) /\ Len(heap) \in Nat /\ Len(heap) <= HeapMax
        /\ Len(heap) >= end /\ Len(heap) >= top
    <3>1. CASE end > top
      <4>1. 0 \in Bytes /\ end - top \in Nat
        BY <1>3, <1>6, <3>1, Widths DEF Bytes
      <4>2. zeros \in Seq(Bytes) /\ Len(zeros) = end - top
        BY <4>1
      <4>3. heap = st.mem.heap \o zeros
        BY <1>7, <3>1 DEF Grown
      <4>. HIDE DEF zeros, heap
      <4>4. \A s, t \in Seq(Bytes) : s \o t \in Seq(Bytes) /\ Len(s \o t) = Len(s) + Len(t)
        OBVIOUS
      <4>5. heap \in Seq(Bytes) /\ Len(heap) = top + Len(zeros)
        BY <1>3, <4>2, <4>3, <4>4
      <4>. HIDE DEF top
      <4>. QED
        BY <1>1, <1>3, <1>6, <1>7, <3>1, <4>2, <4>5
    <3>2. CASE ~(end > top)
      <4>1. heap = st.mem.heap
        BY <3>2 DEF Grown
      <4>. QED
        BY <1>3, <1>6, <3>2, <4>1
    <3>. QED
      BY <3>1, <3>2
  <2>2. grown = [ready EXCEPT !.mem = [st.mem EXCEPT !.heap = heap]]
    BY <1>2 DEF CallsOn
  <2>. HIDE DEF heap, grown, end
  <2>3. Keeps(st.mem, [st.mem EXCEPT !.heap = heap])
    <3>. DEFINE new == [st.mem EXCEPT !.heap = heap]
    <3>1. st.mem \in Mems
      BY DEF CallsOn
    <3>2. /\ new \in [ro : Seq(Bytes), stack : Seq(Bytes), heap : Seq(Bytes), input : Seq(Bytes)]
          /\ new.ro = st.mem.ro /\ new.input = st.mem.input /\ new.stack = st.mem.stack
          /\ new.heap = heap
      BY <2>1, <3>1 DEF Mems
    <3>. HIDE DEF new
    <3>3. Keeps(st.mem, new)
      BY <2>1, <3>2 DEF Keeps, Mems
    <3>. QED
      BY <3>3 DEF new
  <2>4. Keeps(m, [st.mem EXCEPT !.heap = heap])
    BY <2>3, KeepsAgain DEF CallsOn
  <2>5. grown \in CallsOn(m) /\ grown.state = ready.state /\ grown.mem.heap = heap
    BY <1>2, <2>2, <2>4 DEF CallsOn, Keeps, Mems
  <2>. QED
    BY <2>1, <2>5
<1>8. VaddrHeap + top \in Words
  <2>. HIDE DEF top
  <2>1. top < Half
    BY <1>1, <1>3
  <2>. QED
    BY <1>1, <1>3, <2>1 DEF VaddrHeap, Words
<1>. HIDE DEF top, grown
<1>9. res \in CallsOn(m)
  <2>1. ~ (end > HeapMax) => end <= HeapMax
    BY <1>1, <1>6
  <2>. QED
    BY <1>2, <1>5, <1>7, <1>8, <2>1, AnswerOK
<1>10. ASSUME st.r0 = 0, res.r0 # 0, a[1] <= HeapMax
       PROVE  res.r0 = VaddrHeap + top /\ Len(res.mem.heap) >= top + a[1]
  <2>1. end <= HeapMax /\ res = Answer(grown, VaddrHeap + top)
    BY <1>1, <1>2, <1>5, <1>6, <1>10
  <2>2. end = top + size
    BY <1>1, <1>3, <1>4, <1>6, <1>10
  <2>3. grown.state = "go"
    <3>1. grown.r0 = st.r0
      BY <1>2 DEF CallsOn, grown
    <3>. QED
      BY <1>10, <2>1, <3>1, AnswerIs
  <2>4. res.r0 = VaddrHeap + top /\ res.mem.heap = grown.mem.heap
    BY <1>7, <2>1, <2>3, AnswerIs DEF CallsOn
  <2>5. Len(grown.mem.heap) >= end /\ Len(grown.mem.heap) \in Nat
    BY <1>7, <2>1
  <2>. QED
    BY <1>1, <1>3, <1>4, <1>10, <2>2, <2>4, <2>5
<1>. QED
  BY <1>9, <1>10 DEF res, top

(* sol_sha256, sol_keccak256, sol_blake3                                   *)
LEMMA HashSlicesOK ==
    ASSUME NEW m \in Mems, NEW st \in CallsOn(m), NEW a \in Arguments
    PROVE  HashSlices(st, a) \in CallsOn(m)
<1>. DEFINE s == Slices(Charge(st, CuBase), a[1], a[2], MaxMemOpSize, "data")
<1>1. Charge(st, CuBase) \in CallsOn(m)
  BY ChargeOK, Sizes
<1>2. a[1] \in Words /\ a[2] \in Nat /\ a[3] \in Words
  BY ArgumentTypes
<1>3. s \in CallsOn(m)
  BY <1>1, <1>2, SlicesOK
<1>. HIDE DEF s
<1>4. Writes(s, a[3], Digest) \in CallsOn(m)
  BY <1>2, <1>3, WritesOK, Sizes
<1>. QED
  BY <1>4, ErrOK DEF HashSlices, s

(* sol_set_return_data, for data that fits.                                *)
LEMMA SetReturnDataOK ==
    ASSUME NEW m \in Mems, NEW st \in CallsOn(m), NEW a \in Arguments, NEW key \in Seq(Bytes)
    PROVE  SetReturnData(st, a, key) \in CallsOn(m)
<1>. DEFINE charged == Charge(st, CuBase)
            fits == Check(charged, a[2] <= MaxReturnData)
            s == Reads(fits, a[1], a[2])
            data == BytesAt(s.mem, a[1], a[2])
            new == [s EXCEPT !.ret = [id |-> key, data |-> data]]
<1>1. a[1] \in Words /\ a[2] \in Nat
  BY ArgumentTypes
<1>2. charged \in CallsOn(m) /\ fits \in CallsOn(m) /\ s \in CallsOn(m)
  BY ChargeOK, CheckOK, ReadsOK, Sizes
<1>3. SetReturnData(st, a, key) = IF s.state = "go" THEN new ELSE s
  BY DEF SetReturnData, Then, With
<1>. HIDE DEF charged
<1>4. ASSUME s.state = "go" PROVE new \in CallsOn(m)
  <2>1. s = fits /\ data \in Seq(Bytes) /\ Len(data) = a[2]
    BY <1>1, <1>2, <1>4, ReadsGo
  <2>2. a[2] <= MaxReturnData
    BY <1>2, <1>4, <2>1, CheckIs, ErrOK
  <2>. HIDE DEF s, data
  <2>3. [id |-> key, data |-> data] \in Returns
    BY <2>1, <2>2 DEF Returns
  <2>. QED
    BY <1>2, <2>3 DEF CallsOn
<1>. HIDE DEF s, new
<1>. QED
  BY <1>2, <1>3, <1>4

(* sol_get_return_data                                                     *)
LEMMA GetReturnDataOK ==
    ASSUME NEW m \in Mems, NEW st \in CallsOn(m), NEW a \in Arguments
    PROVE  GetReturnData(st, a) \in CallsOn(m)
<1>. DEFINE all == st.ret.data
            n == Least(Len(all), a[2])
            charged == Charge(st, CuBase)
            copied == IF n > 0 THEN Writes(charged, a[1], SubSeq(all, 1, n)) ELSE charged
            keyed == Writes(copied, a[3], st.ret.id)
<1>1. a[1] \in Words /\ a[2] \in Nat /\ a[3] \in Words
  BY ArgumentTypes
<1>2. all \in Seq(Bytes) /\ Len(all) \in Nat /\ Len(all) <= MaxReturnData /\ st.ret.id \in Seq(Bytes)
  BY DEF CallsOn, Returns
<1>3. charged \in CallsOn(m)
  BY ChargeOK, Sizes
<1>4. GetReturnData(st, a) = Answer(keyed, Len(all))
  BY DEF GetReturnData
<1>. HIDE DEF all, charged
<1>5. n \in 0..Len(all)
  BY <1>1, <1>2 DEF Least
<1>. HIDE DEF n
<1>6. SubSeq(all, 1, n) \in Seq(Bytes)
  BY <1>2, <1>5
<1>7. copied \in CallsOn(m)
  BY <1>1, <1>3, <1>6, WritesOK
<1>. HIDE DEF copied
<1>8. keyed \in CallsOn(m)
  BY <1>1, <1>2, <1>7, WritesOK
<1>9. Len(all) \in Words
  <2>1. MaxReturnData \in Nat /\ MaxReturnData < Word /\ Word \in Nat
    BY SyscallsAssumption, Widths
  <2>. QED
    BY <1>2, <2>1 DEF Words
<1>. HIDE DEF keyed
<1>. QED
  BY <1>4, <1>8, <1>9, AnswerOK

(* The seeds of an address.                                                *)
LEMMA SeedsOK ==
    ASSUME NEW m, NEW st \in CallsOn(m), NEW a \in Arguments
    PROVE  SeedsOf(st, a) \in CallsOn(m)
<1>1. a[1] \in Words /\ a[2] \in Nat
  BY ArgumentTypes
<1>2. Reads(st, a[3], KeySize) \in CallsOn(m)
  BY ReadsOK
<1>. QED
  BY <1>1, <1>2, SlicesOK DEF SeedsOf

(* sol_create_program_address                                              *)
LEMMA CreateProgramAddressOK ==
    ASSUME NEW m \in Mems, NEW st \in CallsOn(m), NEW a \in Arguments
    PROVE  CreateProgramAddress(st, a) \in CallsOn(m)
<1>. DEFINE charged == Charge(st, CuPda)
            s == SeedsOf(charged, a)
            found == IF IsOnCurve(s, a) THEN Answer(s, 1) ELSE Writes(s, a[4], Digest)
<1>1. charged \in CallsOn(m) /\ s \in CallsOn(m)
  BY ChargeOK, SeedsOK, Sizes
<1>2. CreateProgramAddress(st, a) =
         IF a[2] > MaxSeeds THEN Answer(charged, 1) ELSE IF s.state = "go" THEN found ELSE s
  BY DEF CreateProgramAddress, Then, With
<1>3. Answer(charged, 1) \in CallsOn(m)
  BY <1>1, AnswerOK, Sizes
<1>. HIDE DEF s, charged
<1>4. found \in CallsOn(m)
  <2>1. a[4] \in Words
    BY ArgumentTypes
  <2>. QED
    BY <1>1, <2>1, AnswerOK, WritesOK, Sizes
<1>. HIDE DEF found
<1>. QED
  BY <1>1, <1>2, <1>3, <1>4

(* sol_try_find_program_address, whatever it has paid for.                 *)
LEMMA FindProgramAddressOK ==
    ASSUME NEW m \in Mems, NEW st \in CallsOn(m), NEW a \in Arguments
    PROVE  FindProgramAddress(st, a) \in CallsOn(m)
<1>. DEFINE fits == (0..MaxBump) \ OnCurve
            tries == IF fits = {} THEN MaxBump + 1 ELSE MaxBump - Max(fits) + 1
            paid == Least(tries, (CuLimit - st.cu) \div CuPda)
            seeds == SeedsOf(st, a)
            s == Charge(seeds, paid * CuPda)
            bump == <<Max(fits) % ByteRange>>
            one == Writes(s, a[4], Digest)
            found == IF fits = {} \/ paid < tries THEN Answer(s, 1) ELSE Writes(one, a[5], bump)
<1>1. FindProgramAddress(st, a) =
         IF a[2] > MaxSeeds - 1 THEN Answer(st, 1) ELSE IF s.state = "go" THEN found ELSE s
  <2>. DEFINE next == Then(s, LAMBDA x : IF fits = {} \/ paid < tries THEN Answer(x, 1)
                                         ELSE Writes(Writes(x, a[4], Digest), a[5], bump))
  <2>1. FindProgramAddress(st, a) = IF a[2] > MaxSeeds - 1 THEN Answer(st, 1) ELSE next
    BY DEF FindProgramAddress
  <2>. HIDE DEF s, paid, tries, fits, bump
  <2>2. next = IF s.state = "go" THEN found ELSE s
    BY DEF Then, With
  <2>. HIDE DEF next, found
  <2>. QED
    BY <2>1, <2>2
<1>2. a[4] \in Words /\ a[5] \in Words
  BY ArgumentTypes
<1>3. seeds \in CallsOn(m) /\ Answer(st, 1) \in CallsOn(m)
  BY SeedsOK, AnswerOK, Sizes
<1>. HIDE DEF seeds
<1>4. fits # {} => Max(fits) \in 0..MaxBump
  <2>1. MaxBump \in Nat /\ fits \in SUBSET (0..MaxBump)
    BY Sizes
  <2>. HIDE DEF fits
  <2>. QED
    BY <2>1, ExtremesExist
<1>5. paid * CuPda \in Nat
  <2>1. CuPda \in Nat \ {0} /\ CuLimit - st.cu \in Nat /\ MaxBump \in Nat
    <3>1. st.cu \in 0..CuLimit
      BY DEF CallsOn
    <3>2. CuLimit \in Nat /\ CuPda \in Nat /\ MaxBump \in Nat
      BY Sizes
    <3>3. CuPda > 0
      BY SyscallsAssumption
    <3>. QED
      BY <3>1, <3>2, <3>3
  <2>. DEFINE rest == (CuLimit - st.cu) \div CuPda
  <2>2. rest \in Nat
    BY <2>1
  <2>. HIDE DEF fits
  <2>3. tries \in Nat
    BY <1>4, <2>1
  <2>. HIDE DEF tries
  <2>4. paid \in Nat
    <3>1. paid = Least(tries, rest)
      BY DEF rest
    <3>. HIDE DEF rest, paid
    <3>. QED
      BY <2>2, <2>3, <3>1 DEF Least
  <2>. HIDE DEF paid
  <2>5. \A x, y \in Nat : x * y \in Nat
    OBVIOUS
  <2>. QED
    BY <2>1, <2>4, <2>5
<1>. HIDE DEF paid
<1>6. s \in CallsOn(m)
  BY <1>3, <1>5, ChargeOK
<1>. HIDE DEF s
<1>7. one \in CallsOn(m)
  BY <1>2, <1>6, WritesOK, Sizes
<1>. HIDE DEF one
<1>8. fits # {} => bump \in Seq(Bytes)
  <2>. HIDE DEF fits
  <2>. SUFFICES ASSUME fits # {} PROVE bump \in Seq(Bytes)
    OBVIOUS
  <2>1. Max(fits) % ByteRange \in Bytes
    BY <1>4, Widths DEF Bytes
  <2>. QED
    BY <2>1
<1>. HIDE DEF bump, tries, fits
<1>9. found \in CallsOn(m)
  BY <1>2, <1>6, <1>7, <1>8, AnswerOK, WritesOK, Sizes
<1>. HIDE DEF found
<1>. QED
  BY <1>1, <1>3, <1>6, <1>9

(* What an invocation reads of the instruction, its accounts and its seeds *)
(* it reads from words it has found readable.                              *)
LEMMA InvokeSignedOK ==
    ASSUME NEW m \in Mems, NEW st \in CallsOn(m), NEW a \in Arguments
    PROVE  InvokeSigned(st, a) \in CallsOn(m)
<1>. DEFINE Field(s, i) == LongAt(s, Plus(a[1], i * Long))
            fields == {Plus(a[1], i * Long) : i \in 0..4}
            Readable(at) == CanRead(st.mem, at, Long) /\ Aligned(at, Long)
            s1 == Check(st, \A at \in fields : Readable(at))
            small == /\ Field(s1, 2) <= MaxCPIAccountInfos
                     /\ Field(s1, 4) <= MaxCPIInstructionSize
            c1 == Check(s1, small)
            t == Charge(c1, CuCpi + Field(s1, 2) + Field(s1, 4))
            i1 == IF t.state = "go"
                  THEN MetasOf(Reads(t, Field(t, 0), KeySize), Field(t, 1), Field(t, 2)) ELSE t
            s2 == IF s1.state = "go" THEN i1 ELSE s1
            s3 == IF s2.state = "go"
                  THEN IF Field(s2, 4) > 0 THEN Reads(s2, Field(s2, 3), Field(s2, 4)) ELSE s2
                  ELSE s2
            s4 == IF s3.state = "go"
                  THEN IF a[4] = 0 \/ a[5] = 0 THEN s3
                       ELSE Slices(Check(s3, a[5] <= MaxSeeds), a[4], a[5], MaxSeedLen, "signer")
                  ELSE s3
<1>1. InvokeSigned(st, a) = s4
  <2>. DEFINE Instruction(s) ==
                 Then(Charge(Check(s, /\ Field(s, 2) <= MaxCPIAccountInfos
                                      /\ Field(s, 4) <= MaxCPIInstructionSize),
                             CuCpi + Field(s, 2) + Field(s, 4)),
                      LAMBDA x : MetasOf(Reads(x, Field(x, 0), KeySize), Field(x, 1), Field(x, 2)))
              Data(s) == IF Field(s, 4) > 0 THEN Reads(s, Field(s, 3), Field(s, 4)) ELSE s
              Signers(s) ==
                 IF a[4] = 0 \/ a[5] = 0 THEN s
                 ELSE Slices(Check(s, a[5] <= MaxSeeds), a[4], a[5], MaxSeedLen, "signer")
  <2>1. InvokeSigned(st, a) = Then(Then(Then(s1, Instruction), Data), Signers)
    BY DEF InvokeSigned
  <2>2. Instruction(s1) = i1
    <3>. DEFINE next == Then(t, LAMBDA x : MetasOf(Reads(x, Field(x, 0), KeySize),
                                                   Field(x, 1), Field(x, 2)))
    <3>1. Instruction(s1) = next
      BY DEF small
    <3>. HIDE DEF t, Instruction, Field
    <3>2. next = i1
      BY DEF Then, With
    <3>. HIDE DEF next
    <3>. QED
      BY <3>1, <3>2
  <2>. HIDE DEF s1, i1, Field, Instruction
  <2>3. Then(s1, Instruction) = s2
    BY <2>2 DEF Then, With
  <2>. HIDE DEF s2
  <2>4. Then(s2, Data) = s3
    BY DEF Then, With
  <2>. HIDE DEF s3, Data
  <2>5. Then(s3, Signers) = s4
    BY DEF Then, With
  <2>. HIDE DEF Signers
  <2>. QED
    BY <2>1, <2>3, <2>4, <2>5
<1>2. a[1] \in Words /\ a[4] \in Words /\ a[5] \in Nat
  BY ArgumentTypes
<1>3. s1 \in CallsOn(m)
  BY CheckOK
<1>4. ASSUME s1.state = "go", NEW i \in 0..4 PROVE s1 = st /\ Field(s1, i) \in Words
  <2>1. s1 = st /\ \A at \in fields : Readable(at)
    BY <1>4, CheckIs, ErrOK
  <2>. DEFINE at == Plus(a[1], i * Long)
  <2>2. i * Long \in Int
    BY Widths
  <2>3. at \in Words
    BY <1>2, <2>2, PlusIsWord
  <2>4. CanRead(st.mem, at, Long)
    BY <2>1
  <2>5. st.mem \in Mems /\ Long \in Nat /\ Long <= Long
    BY Widths DEF CallsOn
  <2>. HIDE DEF at
  <2>6. IntAt(st.mem, at, Long) \in Words
    BY <2>3, <2>4, <2>5, ReadBytes
  <2>. QED
    BY <2>1, <2>6 DEF LongAt, at
<1>. HIDE DEF s1, small
<1>5. ASSUME s1.state = "go" PROVE i1 \in CallsOn(m)
  <2>1. Field(s1, 1) \in Words /\ Field(s1, 2) \in Words /\ Field(s1, 4) \in Words
    BY <1>4, <1>5
  <2>2. c1 \in CallsOn(m)
    BY <1>3, CheckOK
  <2>3. CuCpi + Field(s1, 2) + Field(s1, 4) \in Nat
    <3>1. Field(s1, 2) \in Nat /\ Field(s1, 4) \in Nat /\ CuCpi \in Nat
      BY <2>1, Sizes
    <3>. HIDE DEF Field
    <3>. QED
      BY <3>1
  <2>4. t \in CallsOn(m)
    BY <2>2, <2>3, ChargeOK
  <2>5. t.state = "go" => t.mem = s1.mem
    <3>1. c1.mem = s1.mem
      BY <1>3, CheckIs DEF Err, CallsOn
    <3>. HIDE DEF c1, Field
    <3>2. t.mem = c1.mem
      BY <2>2, ChargeIs DEF Err, CallsOn
    <3>. QED
      BY <3>1, <3>2
  <2>6. t.state = "go" => Field(t, 1) = Field(s1, 1) /\ Field(t, 2) = Field(s1, 2)
    BY <2>5 DEF LongAt
  <2>. HIDE DEF t
  <2>7. Reads(t, Field(t, 0), KeySize) \in CallsOn(m)
    BY <2>4, ReadsOK
  <2>. QED
    BY <2>1, <2>4, <2>6, <2>7, MetasOK, Sizes
<1>. HIDE DEF i1
<1>6. s2 \in CallsOn(m)
  BY <1>3, <1>5
<1>. HIDE DEF s2
<1>7. s3 \in CallsOn(m)
  BY <1>6, ReadsOK
<1>. HIDE DEF s3
<1>8. Check(s3, a[5] <= MaxSeeds) \in CallsOn(m)
  BY <1>7, CheckOK
<1>9. s4 \in CallsOn(m)
  BY <1>2, <1>7, <1>8, SlicesOK
<1>. QED
  BY <1>1, <1>9

(* Every call of the host leaves a state of the call.                      *)
LEMMA InvokedOK ==
    ASSUME NEW m \in Mems, NEW st \in CallsOn(m), NEW a \in Arguments, NEW key \in Seq(Bytes),
           NEW name \in SyscallNames
    PROVE  Invoked(name, st, a, key) \in CallsOn(m)
<1>1. Charge(st, CuBase) \in CallsOn(m)
  BY ChargeOK, Sizes
<1>2. Answer(Charge(st, CuBase), 1) \in CallsOn(m)
  BY <1>1, AnswerOK, Sizes
<1>. QED
  BY <1>1, <1>2, ErrOK, LogOK, LogPubkeyOK, LogDataOK, MemcpyOK, MemsetOK, MemcmpOK, AllocFreeOK,
     HashSlicesOK, SetReturnDataOK, GetReturnDataOK, CreateProgramAddressOK,
     FindProgramAddressOK, InvokeSignedOK DEF Invoked, SyscallNames

-----------------------------------------------------------------------------
(* Loading a program                                                       *)

Symbol == [name : STRING, hash : 0..Half-1, func : BOOLEAN, defined : BOOLEAN, value : Words]
Relocation == [offset : Words, type : STRING, sym : Nat, addend : Int]

\* What the executor keeps of a program.
IsProgram(p) ==
    /\ p.text \in Seq(Instructions) /\ p.ro \in Seq(Bytes) /\ p.entry \in Int
    /\ \A name \in DOMAIN p.functions : p.functions[name] \in Int

(* An instruction that is patched is an instruction, and the text a text.  *)
LEMMA PatchedOK ==
    ASSUME NEW text \in Seq(Instructions), NEW at \in DOMAIN text,
           NEW name \in STRING \cup {NoName}, NEW v \in Int
    PROVE  LET new == [text EXCEPT ![at] = Patched(@, name, v)] IN
           new \in Seq(Instructions) /\ DOMAIN new = DOMAIN text
<1>. DEFINE imm == Signed(v % Half, HalfBits)
            ins == [text[at] EXCEPT !.fn = name, !.imm = imm]
<1>1. imm \in Int
  <2>1. HalfBits - 1 \in Nat /\ HalfBits \in Nat /\ Half \in Nat \ {0}
    BY Widths
  <2>2. 2 ^ (HalfBits - 1) \in Int /\ 2 ^ HalfBits \in Int
    BY <2>1
  <2>. QED
    BY <2>1, <2>2 DEF Signed
<1>. HIDE DEF imm
<1>2. ins \in Instructions
  <2>1. text[at] \in Instructions
    OBVIOUS
  <2>. QED
    BY <1>1, <2>1 DEF Instructions
<1>3. Patched(text[at], name, v) = ins
  BY DEF Patched, ins, imm
<1>. HIDE DEF ins
<1>4. [text EXCEPT ![at] = Patched(@, name, v)] = [text EXCEPT ![at] = ins]
  BY <1>3
<1>. QED
  BY <1>2, <1>4

(* A relocation leaves instructions.                                       *)
LEMMA RelocatedOK ==
    ASSUME NEW text \in Seq(Instructions), NEW rela \in Relocation, NEW symbols \in Seq(Symbol)
    PROVE  Relocated(text, rela, symbols) \in Seq(Instructions)
<1>. DEFINE at == rela.offset \div InsSize + 1
            sym == symbols[rela.sym]
            target == (sym.value + rela.addend) % Word
            named == [text EXCEPT ![at] = Patched(@, sym.name, sym.hash)]
            low == [text EXCEPT ![at] = Patched(@, NoName, target)]
            wide == [text EXCEPT ![at] = Patched(@, NoName, target),
                                 ![at + 1] = Patched(@, NoName, target \div Half)]
            near == [text EXCEPT ![at] = Patched(@, NoName, (at - 1) * InsSize + rela.addend)]
<1>1. ASSUME rela.sym \in DOMAIN symbols, at \in DOMAIN text
      PROVE  Relocated(text, rela, symbols) =
                IF rela.type = "64_32" THEN named
                ELSE IF rela.type = "64_64" /\ at + 1 \in DOMAIN text THEN wide
                ELSE IF rela.type = "relative" THEN near ELSE text
  BY <1>1 DEF Relocated
<1>2. rela.sym \notin DOMAIN symbols \/ at \notin DOMAIN text => Relocated(text, rela, symbols) = text
  BY DEF Relocated
<1>3. rela.offset \in Int /\ rela.addend \in Int /\ InsSize \in Nat \ {0} /\ Word \in Nat \ {0}
      /\ Half \in Nat \ {0}
  BY BpfAssumption, Widths DEF Relocation, Words
<1>4. at \in Int /\ (at - 1) * InsSize + rela.addend \in Int
  BY <1>3
<1>. SUFFICES ASSUME rela.sym \in DOMAIN symbols, at \in DOMAIN text
              PROVE  Relocated(text, rela, symbols) \in Seq(Instructions)
  BY <1>2
<1>5. sym.name \in STRING /\ sym.hash \in Int /\ sym.value \in Int
  <2>1. sym \in Symbol
    OBVIOUS
  <2>. HIDE DEF sym
  <2>. QED
    BY <1>3, <2>1 DEF Symbol, Words
<1>. HIDE DEF sym
<1>6. target \in Int /\ target \div Half \in Int
  BY <1>3, <1>5
<1>. HIDE DEF at, target
<1>7. named \in Seq(Instructions)
  BY <1>5, PatchedOK
<1>8. low \in Seq(Instructions) /\ DOMAIN low = DOMAIN text
  BY <1>6, PatchedOK
<1>9. near \in Seq(Instructions)
  BY <1>4, PatchedOK
<1>. HIDE DEF low, wide, named, near
<1>10. at + 1 \in DOMAIN text => wide \in Seq(Instructions)
  <2>. SUFFICES ASSUME at + 1 \in DOMAIN text PROVE wide \in Seq(Instructions)
    OBVIOUS
  <2>1. low[at + 1] = text[at + 1]
    <3>1. at # at + 1
      BY <1>4
    <3>. QED
      BY <3>1 DEF low
  <2>2. wide = [low EXCEPT ![at + 1] = Patched(@, NoName, target \div Half)]
    <3>. DEFINE second == Patched(text[at + 1], NoName, target \div Half)
    <3>1. wide = [low EXCEPT ![at + 1] = second]
      BY <1>4 DEF wide, low
    <3>. HIDE DEF second, wide, low
    <3>. QED
      BY <2>1, <3>1 DEF second
  <2>. QED
    BY <1>6, <1>8, <2>2, PatchedOK
<1>. QED
  BY <1>1, <1>7, <1>9, <1>10

(* All the relocations of a text.                                          *)
LEMMA RelocationsOK ==
    ASSUME NEW text \in Seq(Instructions), NEW rels \in Seq(Relocation), NEW symbols \in Seq(Symbol)
    PROVE  FoldLeft(LAMBDA t, rela : Relocated(t, rela, symbols), text, rels) \in Seq(Instructions)
<1>. DEFINE n == Len(rels)
            U == Seq(Instructions)
            op(t, rela) == Relocated(t, rela, symbols)
            F == [vT \in U \X (SUBSET (1..n)) |->
                     IF vT[2] = {} THEN text ELSE op(vT[1], rels[Max(vT[2])])]
            Unfolds(iter) == iter = [T \in SUBSET (1..n) |->
                             IF T = {} THEN text ELSE op(iter[T \ {Max(T)}], rels[Max(T)])]
            it == CHOOSE iter : Unfolds(iter)
<1>0. n \in Nat /\ DOMAIN rels = 1..n
  OBVIOUS
<1>1. ASSUME NEW T \in SUBSET (1..n), T # {}, NEW v \in U
      PROVE  op(v, rels[Max(T)]) \in U
  <2>1. Max(T) \in 1..n
    BY <1>0, <1>1, Extremes
  <2>2. rels[Max(T)] \in Relocation
    BY <2>1
  <2>. QED
    BY <2>2, RelocatedOK
<1>2. F \in [U \X (SUBSET (1..n)) -> U]
  <2>. HIDE DEF op, U
  <2>1. text \in U
    BY DEF U
  <2>. QED
    BY <1>1, <2>1
<1>3. PICK iter \in [SUBSET (1..n) -> U] : Folds(iter, F, text, LastOf(n), SUBSET (1..n))
  BY <1>0, <1>2, FoldExists, PlacesChosen
<1>4. Unfolds(iter)
  BY <1>3 DEF Folds, LastOf
<1>5. Unfolds(it)
  BY <1>4
<1>6. FoldLeft(LAMBDA t, rela : Relocated(t, rela, symbols), text, rels) = it[1..n]
  BY <1>0 DEF FoldLeft, MapThenFoldSet
<1>. HIDE DEF it, op, n, U
<1>. DEFINE H == {T \in SUBSET (1..n) : it[T] \in U}
<1>7. {} \in H
  BY <1>5 DEF U
<1>8. \A T \in SUBSET (1..n) : T # {} /\ T \ {LastOf(n)[T]} \in H => T \in H
  BY <1>1, <1>5 DEF LastOf
<1>9. 1..n \in H
  <2>. HIDE DEF H
  <2>. QED
    BY <1>0, <1>7, <1>8, SetInduction, PlacesChosen
<1>. QED
  BY <1>6, <1>9 DEF U

(* A file with a text is loaded as a program.                              *)
LEMMA LoadedIsProgram ==
    ASSUME NEW elf, IsElf(elf), ".text" \in DOMAIN elf.sections
    PROVE  IsProgram(Load(elf))
<1>. DEFINE symbols == Symbols(elf)
            rels == Body(elf, ".rel.text") \o Body(elf, ".rel.dyn")
            text == FoldLeft(LAMBDA t, rela : Relocated(t, rela, symbols), Body(elf, ".text"), rels)
            entry == ((elf.entry - elf.sections[".text"].addr) % Word) \div InsSize
<1>1. Load(elf) = [text |-> text, ro |-> Body(elf, ".rodata"), entry |-> entry,
                   functions |-> FunctionsOf(elf)]
  BY DEF Load
<1>2. /\ Body(elf, ".text") \in Seq(Instructions) /\ Body(elf, ".rodata") \in Seq(Bytes)
      /\ symbols \in Seq(Symbol)
  BY DEF IsElf, Symbol
<1>3. rels \in Seq(Relocation)
  <2>1. Body(elf, ".rel.text") \in Seq(Relocation) /\ Body(elf, ".rel.dyn") \in Seq(Relocation)
    <3>1. \A i \in {1, 2} : Body(elf, RelocationSections[i]) \in Seq(Relocation)
      <4>1. DOMAIN RelocationSections = {1, 2}
        BY DEF RelocationSections
      <4>. QED
        BY <4>1 DEF IsElf, Relocation
    <3>2. RelocationSections[1] = ".rel.text" /\ RelocationSections[2] = ".rel.dyn"
      BY DEF RelocationSections
    <3>. QED
      BY <3>1, <3>2
  <2>. QED
    BY <2>1
<1>4. text \in Seq(Instructions)
  <2>. HIDE DEF symbols, rels
  <2>. QED
    BY <1>2, <1>3, RelocationsOK
<1>5. entry \in Int
  <2>1. elf.entry \in Int /\ elf.sections[".text"].addr \in Int
    BY DEF IsElf
  <2>2. Word \in Nat \ {0} /\ InsSize \in Nat \ {0}
    BY BpfAssumption, Widths
  <2>. QED
    BY <2>1, <2>2
<1>6. ASSUME NEW name \in DOMAIN FunctionsOf(elf) PROVE FunctionsOf(elf)[name] \in Int
  <2>. DEFINE named == {i \in DOMAIN symbols : /\ symbols[i].name = name
                                               /\ symbols[i].func /\ symbols[i].defined}
              n == Len(symbols)
  <2>1. FunctionsOf(elf)[name] = symbols[Max(named)].value \div InsSize /\ named # {}
    BY <1>6 DEF FunctionsOf
  <2>. HIDE DEF symbols
  <2>2. n \in Nat /\ named \in SUBSET (1..n) /\ DOMAIN symbols = 1..n
    BY <1>2
  <2>. HIDE DEF named
  <2>3. Max(named) \in 1..n
    BY <2>1, <2>2, Extremes
  <2>4. symbols[Max(named)] \in Symbol
    BY <1>2, <2>2, <2>3
  <2>. QED
    BY <2>1, <2>4, BpfAssumption DEF Symbol, Words
<1>. HIDE DEF text, entry
<1>. QED
  BY <1>1, <1>2, <1>4, <1>5, <1>6 DEF IsProgram

-----------------------------------------------------------------------------
(* The input                                                               *)

(* Zeros are bytes.                                                        *)
LEMMA ZerosAreBytes ==
    ASSUME NEW n \in Int
    PROVE  /\ Zeros(n) \in Seq(Bytes)
           /\ n >= 0 => Len(Zeros(n)) = n
<1>1. 0 \in Bytes
  BY Widths DEF Bytes
<1>2. CASE n >= 0
  BY <1>1, <1>2 DEF Zeros
<1>3. CASE n < 0
  <2>1. 1..n = 1..0
    BY <1>3
  <2>2. Zeros(n) = [i \in 1..0 |-> 0]
    BY <2>1 DEF Zeros
  <2>. QED
    BY <1>1, <1>3, <2>2
<1>. QED
  BY <1>2, <1>3

(* Bytes after bytes.                                                      *)
LEMMA BytesJoined ==
    ASSUME NEW one \in Seq(Bytes), NEW two \in Seq(Bytes)
    PROVE  one \o two \in Seq(Bytes) /\ Len(one \o two) = Len(one) + Len(two)
  OBVIOUS

Account == [key : Seq(Bytes), owner : Seq(Bytes), lamports : Words,
            data : Seq(Bytes), executable : BOOLEAN, rent : Words,
            signer : BOOLEAN, writable : BOOLEAN]

(* The flags of an account, and its number.                                *)
LEMMA FlagsAreBytes ==
    ASSUME NEW acct, NEW i \in Nat \ {0}
    PROVE  LET flags == <<(i - 1) % ByteRange, Bit(acct.signer), Bit(acct.writable), Bit(acct.executable)>>
           IN  flags \in Seq(Bytes) /\ Len(flags) = 4
<1>0. ByteRange \in Nat \ {0}
  BY Widths
<1>1. ByteRange > 1
  <2>1. ByteBits - 1 \in 0..WordBits /\ ByteBits \in Int
    BY Widths, SbpfAssumption DEF WordBits
  <2>. DEFINE k == ByteBits - 1
  <2>2. k + 1 = ByteBits /\ k \in 0..WordBits
    BY <2>1
  <2>. HIDE DEF k
  <2>3. 2 ^ k \in Nat \ {0} /\ 2 ^ (k + 1) = 2 * 2 ^ k
    BY <2>2, Powers
  <2>. QED
    BY <2>2, <2>3 DEF ByteRange
<1>2. \A b : Bit(b) \in Bytes
  BY <1>0, <1>1 DEF Bit, Bytes
<1>3. (i - 1) % ByteRange \in Bytes
  BY <1>0 DEF Bytes
<1>. QED
  BY <1>2, <1>3

(* An account is laid out in bytes.                                        *)
LEMMA SerialAccountOK ==
    ASSUME NEW acct \in Account, NEW i \in Nat \ {0}
    PROVE  SerialAccount(acct, i) \in Seq(Bytes)
<1>. DEFINE flags == <<(i - 1) % ByteRange, Bit(acct.signer), Bit(acct.writable), Bit(acct.executable)>>
            size == Len(acct.data)
<1>1. acct.key \in Seq(Bytes) /\ acct.owner \in Seq(Bytes) /\ acct.data \in Seq(Bytes)
  BY DEF Account
<1>2. acct.lamports \in Int /\ acct.rent \in Int /\ size \in Int
  BY DEF Account, Words
<1>3. Long \in 0..Long /\ Long \in Nat \ {0} /\ ByteRange \in Nat \ {0}
  BY Widths
<1>4. flags \in Seq(Bytes)
  BY FlagsAreBytes
<1>5. Zeros(Long - 4) \in Seq(Bytes) /\ Zeros(Padding(size)) \in Seq(Bytes)
  <2>1. Long - 4 \in Int /\ Padding(size) \in Int
    <3>1. \A l \in Nat \ {0}, x \in Int : l - 4 \in Int /\ (l - (x % l)) % l \in Int
      OBVIOUS
    <3>. HIDE DEF size
    <3>. QED
      BY <1>2, <1>3, <3>1 DEF Padding
  <2>. QED
    BY <2>1, ZerosAreBytes
<1>6. /\ BytesOf(acct.lamports, Long) \in Seq(Bytes) /\ BytesOf(size, Long) \in Seq(Bytes)
      /\ BytesOf(acct.rent, Long) \in Seq(Bytes)
  BY <1>2, <1>3, BytesOfInteger
<1>. HIDE DEF flags
<1>. QED
  BY <1>1, <1>4, <1>5, <1>6, BytesJoined DEF SerialAccount, flags

(* Sequences of bytes flattened, one after the other.                      *)
LEMMA FlattenUnfolds ==
    ASSUME NEW seqs \in Seq(Seq(Bytes))
    PROVE  \E f : /\ f[0] = <<>> /\ FlattenSeq(seqs) = f[Len(seqs)]
                  /\ \A i \in 0..Len(seqs) : f[i] \in Seq(Bytes)
                  /\ \A i \in 1..Len(seqs) : f[i] = f[i - 1] \o seqs[i]
<1>. DEFINE n == Len(seqs)
            U == Seq(Bytes)
            op(v, i) == IF i = 1 THEN seqs[i] ELSE v \o seqs[i]
            F == [vT \in U \X (SUBSET (1..n)) |->
                     IF vT[2] = {} THEN <<>> ELSE op(vT[1], Max(vT[2]))]
            Unfolds(f) == f = [i \in 1..n |-> IF i = 1 THEN seqs[i] ELSE f[i - 1] \o seqs[i]]
            flatten == CHOOSE f : Unfolds(f)
<1>1. n \in Nat /\ \A i \in 1..n : seqs[i] \in U
  OBVIOUS
<1>. HIDE DEF n
<1>2. F \in [U \X (SUBSET (1..n)) -> U]
  <2>1. ASSUME NEW T \in SUBSET (1..n), T # {}, NEW v \in U PROVE op(v, Max(T)) \in U
    <3>. DEFINE k == Max(T)
    <3>1. k \in 1..n
      BY <1>1, <2>1, Extremes
    <3>. HIDE DEF k
    <3>. QED
      BY <1>1, <3>1, BytesJoined DEF k
  <2>. HIDE DEF op
  <2>2. <<>> \in U
    OBVIOUS
  <2>. HIDE DEF U
  <2>. QED
    BY <2>1, <2>2
<1>3. PICK iter \in [SUBSET (1..n) -> U] : Folds(iter, F, <<>>, LastOf(n), SUBSET (1..n))
  <2>1. <<>> \in U
    OBVIOUS
  <2>. HIDE DEF U, F
  <2>. QED
    BY <1>1, <1>2, <2>1, FoldExists, PlacesChosen
<1>. DEFINE g == [i \in 1..n |-> iter[1..i]]
<1>4. Unfolds(g)
  <2>1. ASSUME NEW i \in 1..n PROVE g[i] = IF i = 1 THEN seqs[i] ELSE g[i - 1] \o seqs[i]
    <3>1. 1..i \in SUBSET (1..n) /\ 1..i # {} /\ Max(1..i) = i /\ (1..i) \ {i} = 1..i - 1
      <4>1. Max(1..i) = i /\ (1..i) \ {i} = 1..i - 1
        BY <1>1, PlacesChosen
      <4>2. 1..i \in SUBSET (1..n) /\ i \in 1..i
        BY <1>1
      <4>. QED
        BY <4>1, <4>2
    <3>2. iter[1..i] = op(iter[(1..i) \ {Max(1..i)}], Max(1..i))
      BY <1>3, <3>1 DEF Folds, LastOf
    <3>3. i # 1 => i - 1 \in 1..n
      BY <1>1
    <3>. QED
      BY <3>1, <3>2, <3>3
  <2>. HIDE DEF g
  <2>2. g = [i \in 1..n |-> g[i]]
    BY DEF g
  <2>. QED
    BY <2>1, <2>2
<1>5. Unfolds(flatten)
  BY <1>4
<1>6. FlattenSeq(seqs) = IF n = 0 THEN seqs ELSE flatten[n]
  BY DEF FlattenSeq, n
<1>. HIDE DEF flatten
<1>. DEFINE S == {k \in Nat : k \in 1..n => flatten[k] \in U}
<1>7. 0 \in S
  OBVIOUS
<1>8. ASSUME NEW k \in Nat, k \in S PROVE k + 1 \in S
  <2>. SUFFICES ASSUME k + 1 \in 1..n PROVE flatten[k + 1] \in U
    OBVIOUS
  <2>. DEFINE j == k + 1
  <2>1. flatten[j] = IF j = 1 THEN seqs[j] ELSE flatten[k] \o seqs[j]
    <3>1. j \in 1..n /\ j - 1 = k
      OBVIOUS
    <3>. HIDE DEF j
    <3>. QED
      BY <1>5, <3>1
  <2>2. j # 1 => flatten[k] \in U
    BY <1>1, <1>8
  <2>3. seqs[j] \in U
    BY <1>1
  <2>. HIDE DEF j
  <2>. QED
    BY <2>1, <2>2, <2>3, BytesJoined DEF j
<1>9. Nat \subseteq S
  <2>. HIDE DEF S
  <2>. QED
    BY <1>7, <1>8, Induction
<1>10. \A i \in 1..n : flatten[i] \in U
  BY <1>1, <1>9
<1>. DEFINE f == [i \in 0..n |-> IF i = 0 THEN <<>> ELSE flatten[i]]
<1>11. f[0] = <<>> /\ \A i \in 1..n : f[i] = flatten[i]
  BY <1>1
<1>12. FlattenSeq(seqs) = f[n]
  <2>1. n = 0 => seqs = <<>>
    BY DEF n
  <2>2. n # 0 => n \in 1..n
    BY <1>1
  <2>. HIDE DEF f
  <2>. QED
    BY <1>6, <1>11, <2>1, <2>2
<1>13. ASSUME NEW i \in 0..n PROVE f[i] \in U
  <2>1. i = 0 \/ i \in 1..n
    BY <1>1
  <2>2. <<>> \in U
    OBVIOUS
  <2>. HIDE DEF f, U
  <2>. QED
    BY <1>10, <1>11, <2>1, <2>2
<1>14. ASSUME NEW i \in 1..n PROVE f[i] = f[i - 1] \o seqs[i]
  <2>1. flatten[i] = IF i = 1 THEN seqs[i] ELSE flatten[i - 1] \o seqs[i]
    BY <1>5
  <2>2. i # 1 => i - 1 \in 1..n
    BY <1>1
  <2>3. i = 1 => i - 1 = 0
    OBVIOUS
  <2>4. \A u \in U : <<>> \o u = u
    OBVIOUS
  <2>. HIDE DEF f, U
  <2>. QED
    BY <1>1, <1>11, <2>1, <2>2, <2>3, <2>4
<1>. HIDE DEF f
<1>. QED
  BY <1>11, <1>12, <1>13, <1>14 DEF n

\* A part lies in bytes, after the first at of them.
Holding(bytes, at, part) ==
    /\ at \in Nat /\ at + Len(part) <= Len(bytes)
    /\ \A j \in 1..Len(part) : bytes[at + j] = part[j]

(* What is laid out in two pieces.                                         *)
LEMMA HoldingPieces ==
    ASSUME NEW bytes \in Seq(Bytes), NEW at \in Nat, NEW one \in Seq(Bytes), NEW two \in Seq(Bytes),
           Holding(bytes, at, one \o two)
    PROVE  Holding(bytes, at, one) /\ Holding(bytes, at + Len(one), two)
<1>. DEFINE m == Len(one)
            n == Len(two)
            both == one \o two
<1>1. /\ m \in Nat /\ n \in Nat /\ Len(both) = m + n
      /\ \A j \in 1..m : both[j] = one[j]
      /\ \A j \in 1..n : both[m + j] = two[j]
  OBVIOUS
<1>2. at + Len(both) <= Len(bytes) /\ \A j \in 1..Len(both) : bytes[at + j] = both[j]
  BY DEF Holding
<1>. HIDE DEF both
<1>3. Holding(bytes, at, one)
  BY <1>1, <1>2 DEF Holding
<1>4. ASSUME NEW j \in 1..n PROVE bytes[(at + m) + j] = two[j]
  <2>1. m + j \in 1..m + n /\ at + (m + j) = (at + m) + j
    BY <1>1
  <2>2. bytes[at + (m + j)] = both[m + j]
    BY <1>1, <1>2, <2>1
  <2>. QED
    BY <1>1, <2>1, <2>2
<1>5. at + m \in Nat /\ (at + m) + n <= Len(bytes)
  BY <1>1, <1>2
<1>. QED
  BY <1>3, <1>4, <1>5 DEF Holding

(* What lies there is read there.                                          *)
LEMMA HoldingIsRead ==
    ASSUME NEW bytes \in Seq(Bytes), NEW at \in Nat, NEW part \in Seq(Bytes),
           Holding(bytes, at, part)
    PROVE  SubSeq(bytes, at + 1, at + Len(part)) = part
<1>. DEFINE n == Len(part)
            sub == SubSeq(bytes, at + 1, at + n)
<1>1. /\ n \in Nat /\ Len(bytes) \in Nat /\ at + n <= Len(bytes)
      /\ \A j \in 1..n : bytes[at + j] = part[j]
  BY DEF Holding
<1>. HIDE DEF n
<1>2. sub \in Seq(Bytes) /\ Len(sub) = n /\ \A j \in 1..n : sub[j] = bytes[at + j]
  <2>1. sub = [j \in 1..n |-> bytes[at + j]]
    BY <1>1
  <2>2. \A j \in 1..n : bytes[at + j] \in Bytes
    BY <1>1
  <2>. HIDE DEF sub
  <2>. QED
    BY <1>1, <2>1, <2>2
<1>. HIDE DEF sub
<1>3. part \in Seq(Bytes) /\ Len(part) = n
  BY DEF n
<1>4. sub = part
  BY <1>1, <1>2, <1>3
<1>. QED
  BY <1>4 DEF sub, n

\* An account as the code has it: its keys have their size.
Whole(acct) ==
    /\ acct \in Account /\ Len(acct.key) = KeySize /\ Len(acct.owner) = KeySize
    /\ Len(acct.data) < Word

(* Where the parts of an account are.                                      *)
LEMMA AccountParts ==
    ASSUME NEW bytes \in Seq(Bytes), NEW start \in Nat, NEW acct, Whole(acct), NEW i \in Nat \ {0},
           Holding(bytes, start, SerialAccount(acct, i))
    PROVE  LET at == start + Long + 2 * KeySize
               n == Len(acct.data)
               rent == at + 2 * Long + n + Padding(n)
           IN /\ at \in Nat /\ n \in Nat /\ rent \in Nat
              /\ Holding(bytes, at, BytesOf(acct.lamports, Long))
              /\ Holding(bytes, at + Long, BytesOf(n, Long))
              /\ Holding(bytes, at + 2 * Long, acct.data)
              /\ Holding(bytes, rent, BytesOf(acct.rent, Long))
              /\ rent + Long = start + Len(SerialAccount(acct, i))
<1>. DEFINE flags == <<(i - 1) % ByteRange, Bit(acct.signer), Bit(acct.writable), Bit(acct.executable)>>
            n == Len(acct.data)
            gap == Zeros(Long - 4)
            pad == Zeros(Padding(n))
            lamports == BytesOf(acct.lamports, Long)
            size == BytesOf(n, Long)
            rent == BytesOf(acct.rent, Long)
            head == flags \o gap \o acct.key \o acct.owner
            s1 == head \o lamports
            s2 == s1 \o size
            s3 == s2 \o acct.data
            s4 == s3 \o pad
<1>1. SerialAccount(acct, i) = s4 \o rent
  BY DEF SerialAccount
<1>2. Long \in 0..Long /\ Long \in Nat /\ Long - 4 \in Nat /\ KeySize \in Nat /\ Long > 0
  <2>1. Long \in Nat \ {0}
    BY Widths
  <2>2. Long >= 4
    BY BpfAssumption
  <2>3. KeySize \in Nat
    BY Sizes
  <2>. QED
    BY <2>1, <2>2, <2>3
<1>3. /\ acct.key \in Seq(Bytes) /\ Len(acct.key) = KeySize
      /\ acct.owner \in Seq(Bytes) /\ Len(acct.owner) = KeySize
      /\ acct.data \in Seq(Bytes) /\ n \in Nat
      /\ acct.lamports \in Int /\ acct.rent \in Int
  <2>1. acct \in Account
    BY DEF Whole
  <2>2. acct.data \in Seq(Bytes) /\ acct.lamports \in Words /\ acct.rent \in Words
    BY <2>1 DEF Account
  <2>3. acct.key \in Seq(Bytes) /\ acct.owner \in Seq(Bytes)
    BY <2>1 DEF Account
  <2>4. Len(acct.key) = KeySize /\ Len(acct.owner) = KeySize
    BY DEF Whole
  <2>5. acct.lamports \in Int /\ acct.rent \in Int
    <3>1. \A w \in Words : w \in Int
      BY Sizes
    <3>. QED
      BY <2>2, <3>1
  <2>6. n \in Nat
    BY <2>2
  <2>. HIDE DEF n
  <2>. QED
    BY <2>2, <2>3, <2>4, <2>5, <2>6
<1>4. flags \in Seq(Bytes) /\ Len(flags) = 4
  BY FlagsAreBytes
<1>. HIDE DEF n
<1>5. Padding(n) \in Nat
  <2>1. \A l \in Nat \ {0}, x \in Nat : (l - (x % l)) % l \in Nat
    OBVIOUS
  <2>. QED
    BY <1>2, <1>3, <2>1 DEF Padding
<1>6. gap \in Seq(Bytes) /\ Len(gap) = Long - 4 /\ pad \in Seq(Bytes) /\ Len(pad) = Padding(n)
  BY <1>2, <1>5, ZerosAreBytes
<1>7. /\ lamports \in Seq(Bytes) /\ Len(lamports) = Long
      /\ size \in Seq(Bytes) /\ Len(size) = Long
      /\ rent \in Seq(Bytes) /\ Len(rent) = Long
  BY <1>2, <1>3, BytesOfInteger
<1>. HIDE DEF flags, gap, pad, lamports, size, rent
<1>8. head \in Seq(Bytes) /\ Len(head) = Long + 2 * KeySize
  <2>1. flags \o gap \in Seq(Bytes) /\ Len(flags \o gap) = 4 + (Long - 4)
    BY <1>4, <1>6, BytesJoined
  <2>. DEFINE h == flags \o gap
              g == h \o acct.key
  <2>. HIDE DEF h
  <2>2. g \in Seq(Bytes) /\ Len(g) = 4 + (Long - 4) + KeySize
    BY <1>3, <2>1, BytesJoined DEF h
  <2>. HIDE DEF g
  <2>3. g \o acct.owner \in Seq(Bytes) /\ Len(g \o acct.owner) = 4 + (Long - 4) + KeySize + KeySize
    BY <1>3, <2>2, BytesJoined
  <2>4. 4 + (Long - 4) + KeySize + KeySize = Long + 2 * KeySize
    BY <1>2
  <2>. QED
    BY <2>3, <2>4 DEF g, h
<1>. DEFINE at == start + Long + 2 * KeySize
            place == at + 2 * Long + n + Padding(n)
<1>9. at = start + Len(head) /\ at \in Nat
  BY <1>2, <1>8
<1>. HIDE DEF head, at
<1>10. s1 \in Seq(Bytes) /\ start + Len(s1) = at + Long
  <2>1. s1 \in Seq(Bytes) /\ Len(s1) = Len(head) + Long
    BY <1>7, <1>8, BytesJoined
  <2>. HIDE DEF s1
  <2>. QED
    BY <1>2, <1>8, <1>9, <2>1
<1>. HIDE DEF s1
<1>11. s2 \in Seq(Bytes) /\ start + Len(s2) = at + 2 * Long
  <2>1. s2 \in Seq(Bytes) /\ Len(s2) = Len(s1) + Long
    BY <1>7, <1>10, BytesJoined
  <2>2. Len(s1) \in Nat
    BY <1>10
  <2>3. start + Len(s1) = at + Long
    BY <1>10
  <2>4. at \in Nat /\ Long \in Nat
    BY <1>2, <1>9
  <2>5. \A a, l, k, b \in Nat : b + k = a + l => b + (k + l) = a + 2 * l
    OBVIOUS
  <2>. HIDE DEF s2
  <2>. QED
    BY <2>1, <2>2, <2>3, <2>4, <2>5
<1>. HIDE DEF s2
<1>12. s3 \in Seq(Bytes) /\ start + Len(s3) = at + 2 * Long + n
  <2>1. s3 \in Seq(Bytes) /\ Len(s3) = Len(s2) + n
    BY <1>3, <1>11, BytesJoined DEF n
  <2>2. Len(s2) \in Nat /\ n \in Nat
    BY <1>3, <1>11
  <2>. HIDE DEF s3
  <2>3. start + Len(s3) = at + 2 * Long + n
    <3>1. \A x, y, m, e \in Nat : x + y = e => x + (y + m) = e + m
      OBVIOUS
    <3>2. at + 2 * Long \in Nat
      BY <1>2, <1>9
    <3>. QED
      BY <1>11, <2>1, <2>2, <3>1, <3>2
  <2>. QED
    BY <2>1, <2>3
<1>. HIDE DEF s3
<1>13. s4 \in Seq(Bytes) /\ start + Len(s4) = place
  <2>1. s4 \in Seq(Bytes) /\ Len(s4) = Len(s3) + Padding(n)
    BY <1>6, <1>12, BytesJoined
  <2>2. Len(s3) \in Nat
    BY <1>12
  <2>. HIDE DEF s4
  <2>. QED
    BY <1>2, <1>3, <1>5, <1>9, <1>12, <2>1, <2>2
<1>. HIDE DEF s4
<1>14. place \in Nat /\ start + Len(s4 \o rent) = place + Long
  <2>1. Len(s4 \o rent) = Len(s4) + Long
    BY <1>7, <1>13, BytesJoined
  <2>2. Len(s4) \in Nat
    BY <1>13
  <2>. HIDE DEF place
  <2>. QED
    BY <1>2, <1>13, <2>1, <2>2
<1>. HIDE DEF place
<1>15. Holding(bytes, start, s4) /\ Holding(bytes, place, rent)
  BY <1>1, <1>7, <1>13, HoldingPieces
<1>16. Holding(bytes, start, s3)
  BY <1>6, <1>12, <1>15, HoldingPieces DEF s4
<1>17. Holding(bytes, start, s2) /\ Holding(bytes, at + 2 * Long, acct.data)
  BY <1>3, <1>11, <1>16, HoldingPieces DEF s3
<1>18. Holding(bytes, start, s1) /\ Holding(bytes, at + Long, size)
  BY <1>7, <1>10, <1>17, HoldingPieces DEF s2
<1>19. Holding(bytes, at, lamports)
  BY <1>7, <1>8, <1>9, <1>18, HoldingPieces DEF s1
<1>20. place + Long = start + Len(SerialAccount(acct, i))
  BY <1>1, <1>14
<1>. QED
  BY <1>3, <1>9, <1>14, <1>15, <1>17, <1>18, <1>19, <1>20 DEF place, at, n, lamports, size, rent

(* What is read of an account is what was laid out.                        *)
LEMMA AccountIsRead ==
    ASSUME NEW bytes \in Seq(Bytes), NEW start \in Nat, NEW acct, Whole(acct), NEW i \in Nat \ {0},
           Holding(bytes, start, SerialAccount(acct, i)), NEW accounts
    PROVE  DeserializeAccount(bytes, [at |-> start, ok |-> TRUE, accts |-> accounts], acct) =
              [at |-> start + Len(SerialAccount(acct, i)), ok |-> TRUE,
               accts |-> Append(accounts, acct)]
<1>. DEFINE at == start + Long + 2 * KeySize
            size == Len(acct.data)
            rent == at + 2 * Long + size + Padding(size)
            Field(p) == IntOf(SubSeq(bytes, p + 1, p + Long))
            n == IF acct.writable THEN Field(at + Long) ELSE size
            end == start + Len(SerialAccount(acct, i))
            s == [at |-> start, ok |-> TRUE, accts |-> accounts]
            paid == [acct EXCEPT !.lamports = Field(at)]
            filled == [paid EXCEPT !.data = SubSeq(bytes, at + 2 * Long + 1, at + 2 * Long + size)]
            read == [filled EXCEPT !.rent = Field(rent)]
<1>1. /\ at \in Nat /\ size \in Nat /\ rent \in Nat
      /\ Holding(bytes, at, BytesOf(acct.lamports, Long))
      /\ Holding(bytes, at + Long, BytesOf(size, Long))
      /\ Holding(bytes, at + 2 * Long, acct.data)
      /\ Holding(bytes, rent, BytesOf(acct.rent, Long))
      /\ rent + Long = end
  BY AccountParts
<1>2. acct \in Account /\ size < Word
  BY DEF Whole
<1>3. acct.data \in Seq(Bytes) /\ acct.lamports \in Words /\ acct.rent \in Words
  BY <1>2 DEF Account
<1>4. size \in Words
  BY <1>1, <1>2, Widths DEF Words
<1>5. ASSUME NEW v \in Words, NEW p \in Nat, Holding(bytes, p, BytesOf(v, Long))
      PROVE  Field(p) = v /\ p + Long <= Len(bytes)
  <2>1. BytesOf(v, Long) \in Seq(Bytes) /\ Len(BytesOf(v, Long)) = Long
    <3>1. Long \in 0..Long /\ v \in Int
      BY Widths, Sizes
    <3>. QED
      BY <3>1, BytesOfInteger
  <2>2. SubSeq(bytes, p + 1, p + Long) = BytesOf(v, Long)
    BY <1>5, <2>1, HoldingIsRead
  <2>3. p + Long <= Len(bytes)
    BY <1>5, <2>1 DEF Holding
  <2>. QED
    BY <2>2, <2>3, IntegerRoundTrip
<1>6. Long \in Nat
  BY Widths
<1>. HIDE DEF at, size, rent, Field
<1>7. Field(at) = acct.lamports /\ at + Long <= Len(bytes)
  BY <1>1, <1>3, <1>5
<1>8. Field(at + Long) = size /\ (at + Long) + Long <= Len(bytes)
  <2>1. at + Long \in Nat
    BY <1>1, <1>6
  <2>. QED
    BY <1>1, <1>4, <1>5, <2>1
<1>9. Field(rent) = acct.rent /\ rent + Long <= Len(bytes)
  BY <1>1, <1>3, <1>5
<1>10. SubSeq(bytes, at + 2 * Long + 1, at + 2 * Long + size) = acct.data
  <2>1. at + 2 * Long \in Nat
    BY <1>1, <1>6
  <2>2. size = Len(acct.data)
    BY DEF size
  <2>. QED
    BY <1>1, <1>3, <2>1, <2>2, HoldingIsRead
<1>11. n = size
  BY <1>8
<1>12. read = acct
  <2>1. paid = acct
    BY <1>2, <1>7 DEF Account
  <2>2. filled = [acct EXCEPT !.data = acct.data]
    BY <1>10, <2>1
  <2>3. filled = acct
    BY <1>2, <2>2 DEF Account
  <2>4. read = [acct EXCEPT !.rent = acct.rent]
    BY <1>9, <2>3
  <2>. QED
    BY <1>2, <2>4 DEF Account
<1>13. /\ at + Long <= Len(bytes) /\ at + 2 * Long <= Len(bytes)
       /\ at + 2 * Long + size <= Len(bytes) /\ rent + Long <= Len(bytes)
  <2>1. Len(bytes) \in Nat
    OBVIOUS
  <2>2. (at + 2 * Long) + Len(acct.data) <= Len(bytes)
    BY <1>1 DEF Holding
  <2>3. size = Len(acct.data)
    BY DEF size
  <2>4. at \in Nat /\ Long \in Nat /\ size \in Nat
    BY <1>1, <1>6
  <2>5. at + 2 * Long <= Len(bytes)
    BY <1>8, <2>1, <2>4
  <2>6. at + 2 * Long + size <= Len(bytes)
    BY <2>2, <2>3
  <2>. QED
    BY <1>7, <1>9, <2>5, <2>6
<1>. HIDE DEF paid, filled, read
<1>14. DeserializeAccount(bytes, s, acct) =
          IF ~acct.writable
          THEN [s EXCEPT !.at = rent + Long, !.accts = Append(@, acct)]
          ELSE [s EXCEPT !.at = rent + Long, !.accts = Append(@, read)]
  <2>. DEFINE place == at + 2 * Long + n + Padding(n)
              first == IF at + Long <= Len(bytes) THEN [acct EXCEPT !.lamports = Field(at)] ELSE acct
              second == IF at + 2 * Long <= Len(bytes) /\ at + 2 * Long + n <= Len(bytes)
                        THEN [first EXCEPT !.data =
                                SubSeq(bytes, at + 2 * Long + 1, at + 2 * Long + n)]
                        ELSE first
              third == [second EXCEPT !.rent = Field(place)]
  <2>1. DeserializeAccount(bytes, s, acct) =
          IF ~s.ok THEN [s EXCEPT !.accts = Append(@, acct)]
          ELSE IF ~acct.writable
          THEN [s EXCEPT !.at = place + Long, !.accts = Append(@, acct)]
          ELSE IF at + 2 * Long <= Len(bytes) /\ place + Long <= Len(bytes)
          THEN [s EXCEPT !.at = place + Long, !.accts = Append(@, third)]
          ELSE [s EXCEPT !.ok = FALSE, !.accts = Append(@, second)]
    BY DEF DeserializeAccount, at, size, Field
  <2>2. place = rent
    BY <1>11 DEF rent
  <2>3. first = paid
    BY <1>13 DEF paid
  <2>4. second = filled
    BY <1>11, <1>13, <2>3 DEF filled
  <2>5. third = read
    BY <2>2, <2>4 DEF read
  <2>6. s.ok = TRUE
    OBVIOUS
  <2>. HIDE DEF place, first, second, third, s
  <2>. QED
    BY <1>13, <2>1, <2>2, <2>5, <2>6
<1>15. rent + Long = end
  BY <1>1
<1>. HIDE DEF end
<1>16. DeserializeAccount(bytes, s, acct) = [s EXCEPT !.at = end, !.accts = Append(@, acct)]
  BY <1>12, <1>14, <1>15
<1>17. [s EXCEPT !.at = end, !.accts = Append(@, acct)] =
          [at |-> end, ok |-> TRUE, accts |-> Append(accounts, acct)]
  <2>1. s.accts = accounts
    OBVIOUS
  <2>2. [s EXCEPT !.at = end, !.accts = Append(@, acct)] =
           [s EXCEPT !.at = end, !.accts = Append(accounts, acct)]
    BY <2>1
  <2>. DEFINE more == Append(accounts, acct)
  <2>. HIDE DEF more
  <2>3. [s EXCEPT !.at = end, !.accts = more] = [at |-> end, ok |-> TRUE, accts |-> more]
    <3>. DEFINE States == [at : {start, end}, ok : {TRUE}, accts : {accounts, more}]
    <3>1. s \in States /\ [at |-> end, ok |-> TRUE, accts |-> more] \in States
      OBVIOUS
    <3>2. [s EXCEPT !.at = end, !.accts = more] \in States
      OBVIOUS
    <3>. QED
      BY <3>1, <3>2
  <2>. QED
    BY <2>2, <2>3 DEF more
<1>. QED
  BY <1>16, <1>17 DEF end

\* What f has after each of n accounts.
Reading(f, n, bytes, accounts) ==
    /\ f[0] = [at |-> Long, ok |-> TRUE, accts |-> <<>>]
    /\ DeserializeOutput(bytes, accounts) = f[n]
    /\ \A k \in 1..n : f[k] = DeserializeAccount(bytes, f[k - 1], accounts[k])

(* The output is read account by account.                                  *)
LEMMA DeserializeUnfolds ==
    ASSUME NEW bytes, NEW n \in Nat, NEW accounts, DOMAIN accounts = 1..n
    PROVE  \E f : Reading(f, n, bytes, accounts)
<1>. DEFINE base == [at |-> Long, ok |-> TRUE, accts |-> <<>>]
            op(x, v) == With(v, LAMBDA t : DeserializeAccount(bytes, t, x))
            Unfolds(iter, m) == iter = [T \in SUBSET (1..m) |->
                             IF T = {} THEN base ELSE op(accounts[Max(T)], iter[T \ {Max(T)}])]
            it == CHOOSE iter : Unfolds(iter, n)
<1>1. DeserializeOutput(bytes, accounts) = it[1..n]
  BY DEF DeserializeOutput, FoldLeft, MapThenFoldSet
<1>. HIDE DEF base, op
<1>. DEFINE S == {m \in Nat : \E iter : Unfolds(iter, m)}
<1>2. 0 \in S
  <2>1. SUBSET (1..0) = {{}}
    OBVIOUS
  <2>2. Unfolds([T \in SUBSET (1..0) |-> base], 0)
    BY <2>1
  <2>. QED
    BY <2>2
<1>3. ASSUME NEW m \in Nat, m \in S PROVE m + 1 \in S
  <2>. DEFINE g == CHOOSE iter : Unfolds(iter, m)
              next == [T \in SUBSET (1..m + 1) |->
                         IF T = {} THEN base ELSE op(accounts[Max(T)], g[T \ {Max(T)}])]
  <2>1. Unfolds(g, m)
    BY <1>3
  <2>. HIDE DEF g
  <2>2. ASSUME NEW T \in SUBSET (1..m + 1), T # {}
        PROVE  T \ {Max(T)} \in SUBSET (1..m) /\ T \ {Max(T)} \in SUBSET (1..m + 1)
    <3>1. Max(T) \in T /\ \A y \in T : y <= Max(T)
      <4>1. m + 1 \in Nat
        OBVIOUS
      <4>. DEFINE l == m + 1
      <4>2. l \in Nat /\ T \in SUBSET (1..l)
        BY <4>1
      <4>. HIDE DEF l
      <4>. QED
        BY <2>2, <4>2, Extremes
    <3>. DEFINE top == Max(T)
    <3>. HIDE DEF top
    <3>2. \A y \in T \ {top} : y \in 1..m
      <4>1. \A y \in T : y \in 1..m + 1 /\ y <= top
        BY <3>1 DEF top
      <4>2. top \in 1..m + 1
        BY <3>1 DEF top
      <4>. QED
        BY <4>1, <4>2
    <3>3. T \ {top} \in SUBSET (1..m) /\ T \ {top} \in SUBSET (1..m + 1)
      BY <3>2
    <3>. QED
      BY <3>3 DEF top
  <2>3. ASSUME NEW T \in SUBSET (1..m) PROVE next[T] = g[T]
    <3>1. T \in SUBSET (1..m + 1)
      OBVIOUS
    <3>2. next[T] = IF T = {} THEN base ELSE op(accounts[Max(T)], g[T \ {Max(T)}])
      BY <3>1
    <3>3. g[T] = IF T = {} THEN base ELSE op(accounts[Max(T)], g[T \ {Max(T)}])
      BY <2>1
    <3>. QED
      BY <3>2, <3>3
  <2>4. next = [T \in SUBSET (1..m + 1) |->
                  IF T = {} THEN base ELSE op(accounts[Max(T)], g[T \ {Max(T)}])]
    OBVIOUS
  <2>. HIDE DEF next
  <2>5. next = [T \in SUBSET (1..m + 1) |->
                  IF T = {} THEN base ELSE op(accounts[Max(T)], next[T \ {Max(T)}])]
    <3>1. \A T \in SUBSET (1..m + 1) : T # {} => next[T \ {Max(T)}] = g[T \ {Max(T)}]
      BY <2>2, <2>3
    <3>. QED
      BY <2>4, <3>1
  <2>6. Unfolds(next, m + 1)
    BY <2>5
  <2>. HIDE DEF Unfolds
  <2>. QED
    BY <2>6
<1>4. Nat \subseteq S
  <2>. HIDE DEF S
  <2>. QED
    BY <1>2, <1>3, Induction
<1>5. Unfolds(it, n)
  BY <1>4
<1>. HIDE DEF it
<1>. DEFINE f == [k \in 0..n |-> it[1..k]]
<1>6. f[0] = base
  <2>1. 0 \in 0..n /\ 1..0 = {} /\ {} \in SUBSET (1..n)
    OBVIOUS
  <2>2. it[{}] = base
    BY <1>5, <2>1
  <2>. HIDE DEF Unfolds
  <2>. QED
    BY <2>1, <2>2
<1>7. ASSUME NEW k \in 1..n PROVE f[k] = op(accounts[k], f[k - 1])
  <2>1. Max(1..k) = k /\ (1..k) \ {k} = 1..k - 1
    BY PlacesChosen
  <2>2. 1..k \in SUBSET (1..n) /\ 1..k # {} /\ k \in 0..n /\ k - 1 \in 0..n
    <3>1. k \in 1..k /\ k \in 0..n /\ k - 1 \in 0..n
      OBVIOUS
    <3>2. 1..k \in SUBSET (1..n)
      OBVIOUS
    <3>. QED
      BY <3>1, <3>2
  <2>3. it[1..k] = op(accounts[Max(1..k)], it[(1..k) \ {Max(1..k)}])
    BY <1>5, <2>2
  <2>. HIDE DEF Unfolds
  <2>. QED
    BY <2>1, <2>2, <2>3
<1>8. ASSUME NEW x, NEW v PROVE op(x, v) = DeserializeAccount(bytes, v, x)
  BY DEF op, With
<1>9. f[n] = it[1..n]
  OBVIOUS
<1>. HIDE DEF f
<1>. QED
  BY <1>1, <1>6, <1>7, <1>8, <1>9 DEF base, Reading

(* The input of an instruction is bytes.                                   *)
LEMMA SerializeInputOK ==
    ASSUME NEW in \in Inputs
    PROVE  SerializeInput(in.accounts, in.data) \in Seq(Bytes)
<1>. DEFINE accounts == in.accounts
            laid == [i \in DOMAIN accounts |-> SerialAccount(accounts[i], i)]
<1>1. accounts \in Seq(Account) /\ in.data \in Seq(Bytes) /\ ProgramKey \in Seq(Bytes)
  BY BpfAssumption DEF Account
<1>. HIDE DEF accounts
<1>2. laid \in Seq(Seq(Bytes))
  <2>1. DOMAIN accounts = 1..Len(accounts) /\ Len(accounts) \in Nat
    BY <1>1
  <2>2. ASSUME NEW i \in 1..Len(accounts) PROVE SerialAccount(accounts[i], i) \in Seq(Bytes)
    <3>1. accounts[i] \in Account /\ i \in Nat \ {0}
      BY <1>1, <2>1
    <3>. QED
      BY <3>1, SerialAccountOK
  <2>. QED
    BY <2>1, <2>2
<1>3. FlattenSeq(laid) \in Seq(Bytes)
  <2>. HIDE DEF laid
  <2>. QED
    <3>1. PICK f : /\ FlattenSeq(laid) = f[Len(laid)]
                   /\ \A i \in 0..Len(laid) : f[i] \in Seq(Bytes)
      BY <1>2, FlattenUnfolds
    <3>2. Len(laid) \in 0..Len(laid)
      BY <1>2
    <3>. QED
      BY <3>1, <3>2
<1>4. BytesOf(Len(accounts), Long) \in Seq(Bytes) /\ BytesOf(Len(in.data), Long) \in Seq(Bytes)
  <2>1. Len(accounts) \in Int /\ Len(in.data) \in Int /\ Long \in 0..Long
    BY <1>1, Widths
  <2>. QED
    BY <2>1, BytesOfInteger
<1>5. SerializeInput(in.accounts, in.data) =
         BytesOf(Len(accounts), Long) \o FlattenSeq(laid) \o BytesOf(Len(in.data), Long)
            \o in.data \o ProgramKey
  BY DEF SerializeInput, accounts
<1>. HIDE DEF laid
<1>. QED
  BY <1>1, <1>3, <1>4, <1>5, BytesJoined

(* Flattened pieces lie one after the other.                               *)
LEMMA PiecesLie ==
    ASSUME NEW bytes \in Seq(Bytes), NEW at \in Nat, NEW n \in Nat, NEW seqs, NEW f,
           \A k \in 0..n : f[k] \in Seq(Bytes),
           \A k \in 1..n : seqs[k] \in Seq(Bytes) /\ f[k] = f[k - 1] \o seqs[k],
           Holding(bytes, at, f[n])
    PROVE  \A k \in 1..n : Holding(bytes, at + Len(f[k - 1]), seqs[k])
<1>. DEFINE S == {j \in Nat : j <= n => Holding(bytes, at, f[n - j])}
<1>1. 0 \in S
  <2>1. n - 0 = n
    OBVIOUS
  <2>. QED
    BY <2>1
<1>2. ASSUME NEW k \in 1..n, Holding(bytes, at, f[k])
      PROVE  Holding(bytes, at, f[k - 1]) /\ Holding(bytes, at + Len(f[k - 1]), seqs[k])
  <2>1. k - 1 \in 0..n
    OBVIOUS
  <2>2. f[k - 1] \in Seq(Bytes) /\ seqs[k] \in Seq(Bytes) /\ f[k] = f[k - 1] \o seqs[k]
    BY <2>1
  <2>. QED
    BY <1>2, <2>2, HoldingPieces
<1>3. ASSUME NEW j \in Nat, j \in S PROVE j + 1 \in S
  <2>. SUFFICES ASSUME j + 1 <= n PROVE Holding(bytes, at, f[n - (j + 1)])
    OBVIOUS
  <2>. DEFINE k == n - j
  <2>1. k \in 1..n /\ n - (j + 1) = k - 1 /\ j <= n
    OBVIOUS
  <2>2. Holding(bytes, at, f[k])
    BY <1>3, <2>1
  <2>. HIDE DEF k
  <2>3. Holding(bytes, at, f[k - 1])
    BY <1>2, <2>1, <2>2
  <2>. QED
    BY <2>1, <2>3
<1>4. Nat \subseteq S
  <2>. HIDE DEF S
  <2>. QED
    BY <1>1, <1>3, Induction
<1>5. ASSUME NEW k \in 1..n PROVE Holding(bytes, at, f[k])
  <2>. DEFINE j == n - k
  <2>1. j \in Nat /\ j <= n /\ n - j = k
    OBVIOUS
  <2>. HIDE DEF j
  <2>. QED
    BY <1>4, <2>1
<1>. QED
  BY <1>2, <1>5

(* Reading the accounts back from the input gives what was laid out there. *)
LEMMA InputRoundTrip ==
    ASSUME NEW in \in Inputs
    PROVE  LET out == DeserializeOutput(SerializeInput(in.accounts, in.data), in.accounts)
           IN  out.accts = in.accounts /\ out.ok = TRUE
<1>. DEFINE accounts == in.accounts
            n == Len(accounts)
            laid == [i \in DOMAIN accounts |-> SerialAccount(accounts[i], i)]
            count == BytesOf(n, Long)
            flat == FlattenSeq(laid)
            tail == BytesOf(Len(in.data), Long)
            bytes == SerializeInput(accounts, in.data)
<1>1. /\ accounts \in Seq(Account) /\ n \in Nat /\ DOMAIN accounts = 1..n
      /\ in.data \in Seq(Bytes) /\ ProgramKey \in Seq(Bytes) /\ Long \in Nat /\ Long \in 0..Long
  <2>1. accounts \in Seq(Account) /\ in.data \in Seq(Bytes) /\ ProgramKey \in Seq(Bytes)
    BY BpfAssumption DEF Account
  <2>2. Long \in Nat /\ Long \in 0..Long
    BY Widths
  <2>. HIDE DEF accounts
  <2>3. n \in Nat /\ DOMAIN accounts = 1..n
    BY <2>1
  <2>. QED
    BY <2>1, <2>2, <2>3
<1>2. \A k \in 1..n : Whole(accounts[k])
  <2>1. \A k \in 1..n : accounts[k] \in Account
    BY <1>1
  <2>2. \A k \in 1..n : /\ Len(accounts[k].key) = KeySize /\ Len(accounts[k].owner) = KeySize
                        /\ Len(accounts[k].data) < Word
    BY <1>1, BpfAssumption
  <2>. HIDE DEF accounts, n
  <2>. QED
    BY <2>1, <2>2 DEF Whole
<1>3. bytes \in Seq(Bytes)
  BY SerializeInputOK
<1>4. bytes = count \o flat \o tail \o in.data \o ProgramKey
  BY DEF SerializeInput
<1>. HIDE DEF accounts, n, bytes
<1>5. laid \in Seq(Seq(Bytes)) /\ Len(laid) = n /\ \A k \in 1..n : laid[k] = SerialAccount(accounts[k], k)
  <2>1. ASSUME NEW k \in 1..n PROVE SerialAccount(accounts[k], k) \in Seq(Bytes)
    <3>1. accounts[k] \in Account /\ k \in Nat \ {0}
      BY <1>1
    <3>. QED
      BY <3>1, SerialAccountOK
  <2>. QED
    BY <1>1, <2>1
<1>. HIDE DEF laid
<1>6. PICK f : /\ f[0] = <<>> /\ flat = f[n]
               /\ \A i \in 0..n : f[i] \in Seq(Bytes)
               /\ \A i \in 1..n : f[i] = f[i - 1] \o laid[i]
  BY <1>5, FlattenUnfolds
<1>7. n \in 0..n /\ \A k \in 1..n : k \in 0..n /\ k - 1 \in 0..n /\ laid[k] \in Seq(Bytes)
  BY <1>1, <1>5
<1>8. Holding(bytes, Long, flat)
  <2>1. count \in Seq(Bytes) /\ Len(count) = Long /\ tail \in Seq(Bytes) /\ flat \in Seq(Bytes)
    <3>1. n \in Int /\ Len(in.data) \in Int
      BY <1>1
    <3>. QED
      BY <1>1, <1>6, <1>7, <3>1, BytesOfInteger
  <2>. HIDE DEF count, tail, flat
  <2>. DEFINE s1 == count \o flat
              s2 == s1 \o tail
              s3 == s2 \o in.data
  <2>2. s1 \in Seq(Bytes)
    BY <2>1, BytesJoined
  <2>3. s2 \in Seq(Bytes)
    <3>. HIDE DEF s1
    <3>. QED
      BY <2>1, <2>2, BytesJoined
  <2>4. s3 \in Seq(Bytes)
    <3>. HIDE DEF s2
    <3>. QED
      BY <1>1, <2>3, BytesJoined
  <2>5. bytes = s3 \o ProgramKey
    BY <1>4
  <2>. HIDE DEF s3
  <2>6. Holding(bytes, 0, bytes)
    BY <1>3 DEF Holding
  <2>7. Holding(bytes, 0, s3)
    BY <1>1, <1>3, <2>4, <2>5, <2>6, HoldingPieces
  <2>. HIDE DEF s2
  <2>8. Holding(bytes, 0, s2)
    BY <1>1, <1>3, <2>3, <2>7, HoldingPieces DEF s3
  <2>. HIDE DEF s1
  <2>9. Holding(bytes, 0, s1)
    BY <1>3, <2>1, <2>2, <2>8, HoldingPieces DEF s2
  <2>10. Holding(bytes, 0 + Len(count), flat)
    BY <1>3, <2>1, <2>9, HoldingPieces DEF s1
  <2>. QED
    BY <1>1, <2>1, <2>10
<1>9. \A k \in 1..n : Holding(bytes, Long + Len(f[k - 1]), laid[k])
  BY <1>1, <1>3, <1>6, <1>7, <1>8, PiecesLie
<1>10. PICK g : Reading(g, n, bytes, accounts)
  <2>1. n \in Nat /\ DOMAIN accounts = 1..n
    BY <1>1
  <2>. QED
    BY <2>1, DeserializeUnfolds
<1>. DEFINE S == {k \in Nat : k <= n =>
                    g[k] = [at |-> Long + Len(f[k]), ok |-> TRUE, accts |-> SubSeq(accounts, 1, k)]}
<1>11. 0 \in S
  <2>1. Len(f[0]) = 0 /\ Long + 0 = Long
    BY <1>1, <1>6
  <2>2. SubSeq(accounts, 1, 0) = <<>>
    BY <1>1
  <2>. QED
    BY <1>10, <2>1, <2>2 DEF Reading
<1>12. ASSUME NEW j \in Nat, j \in S PROVE j + 1 \in S
  <2>. DEFINE k == j + 1
              first == SubSeq(accounts, 1, j)
  <2>. SUFFICES ASSUME k <= n
                PROVE  g[k] = [at |-> Long + Len(f[k]), ok |-> TRUE, accts |-> SubSeq(accounts, 1, k)]
    OBVIOUS
  <2>1. k \in 1..n /\ k - 1 = j /\ j \in 0..n /\ j <= n /\ k \in Nat \ {0}
    BY <1>1
  <2>2. g[j] = [at |-> Long + Len(f[j]), ok |-> TRUE, accts |-> first]
    BY <1>12, <2>1
  <2>3. SubSeq(accounts, 1, k) = Append(first, accounts[k])
    BY <1>1, <2>1
  <2>. HIDE DEF k, first
  <2>4. Len(f[k]) = Len(f[j]) + Len(laid[k]) /\ Len(f[j]) \in Nat /\ Len(laid[k]) \in Nat
    <3>1. f[k] = f[j] \o laid[k] /\ f[j] \in Seq(Bytes) /\ laid[k] \in Seq(Bytes)
      BY <1>6, <1>7, <2>1
    <3>2. Len(f[j]) \in Nat /\ Len(laid[k]) \in Nat
      BY <3>1
    <3>. QED
      BY <3>1, <3>2, BytesJoined
  <2>. DEFINE start == Long + Len(f[j])
              acct == accounts[k]
  <2>5. start \in Nat /\ start + Len(laid[k]) = Long + Len(f[k])
    <3>1. \A x, y, z \in Nat : x + y \in Nat /\ (x + y) + z = x + (y + z)
      OBVIOUS
    <3>. DEFINE x == Len(f[j])
                y == Len(laid[k])
    <3>2. x \in Nat /\ y \in Nat /\ Len(f[k]) = x + y /\ Long \in Nat
      BY <1>1, <2>4
    <3>. HIDE DEF x, y
    <3>3. start = Long + x
      BY DEF start, x
    <3>4. start + y = Long + (x + y) /\ start \in Nat
      BY <3>1, <3>2, <3>3
    <3>. QED
      BY <3>2, <3>4 DEF y
  <2>6. Holding(bytes, start, laid[k]) /\ laid[k] = SerialAccount(acct, k) /\ Whole(acct)
    BY <1>2, <1>5, <1>9, <2>1
  <2>7. g[k] = DeserializeAccount(bytes, g[j], acct)
    BY <1>10, <2>1 DEF Reading
  <2>. HIDE DEF start, acct
  <2>8. DeserializeAccount(bytes, [at |-> start, ok |-> TRUE, accts |-> first], acct) =
           [at |-> start + Len(SerialAccount(acct, k)), ok |-> TRUE, accts |-> Append(first, acct)]
    BY <1>3, <2>1, <2>5, <2>6, AccountIsRead
  <2>9. g[j] = [at |-> start, ok |-> TRUE, accts |-> first]
    BY <2>2 DEF start
  <2>10. g[k] = [at |-> start + Len(laid[k]), ok |-> TRUE, accts |-> Append(first, acct)]
    BY <2>6, <2>7, <2>8, <2>9
  <2>. QED
    BY <2>3, <2>5, <2>10 DEF acct
<1>13. n \in S
  <2>. HIDE DEF S
  <2>. QED
    BY <1>1, <1>11, <1>12, Induction
<1>14. SubSeq(accounts, 1, n) = accounts
  BY <1>1 DEF n
<1>15. DeserializeOutput(bytes, accounts) = [at |-> Long + Len(f[n]), ok |-> TRUE, accts |-> accounts]
  <2>1. n <= n
    BY <1>1
  <2>. QED
    BY <1>10, <1>13, <1>14, <2>1 DEF Reading
<1>16. DeserializeOutput(bytes, accounts).accts = accounts /\ DeserializeOutput(bytes, accounts).ok = TRUE
  BY <1>15
<1>. QED
  BY <1>16 DEF bytes, accounts

-----------------------------------------------------------------------------
(* The machine                                                             *)

Frames == [fp : Words, ret : Int, nv : [CalleeSaved -> Words]]
Calls == [ret : Int, r : [Registers -> Words]]

\* The machine, and the program it runs.
Typed ==
    /\ r \in [Registers -> Words] /\ pc \in Int
    /\ meter \in 0..ComputeLimit /\ cu \in 0..CuLimit
    /\ frames \in Seq(Frames) /\ Len(frames) <= StackDepth
    /\ mem \in Mems /\ ret \in Returns
    /\ status \in {"idle", "run", "done", "error", "refused"}
    /\ db \in Elfs \cup Upgrades
    /\ cache # NoProgram => IsProgram(cache)
    /\ status = "run" => IsProgram(cache) /\ Len(mem.heap) >= HeapDefault
    /\ calls \in Seq(Calls)

\* Each frame holds what its call found.
Matches(frame, call) ==
    /\ frame.ret = call.ret /\ frame.fp = call.r[10]
    /\ \A i \in CalleeSaved : frame.nv[i] = call.r[i]

FramesMatch ==
    /\ Len(frames) = Len(calls)
    /\ \A i \in 1..Len(frames) : Matches(frames[i], calls[i])

\* Each block is in the heap there is, after the ones before it.
Blocks == [at : Int, n : 0..HeapMax]
BlocksApart ==
    /\ allocs \in Seq(Blocks)
    /\ \A i \in 1..Len(allocs) :
          /\ allocs[i].at >= VaddrHeap + HeapDefault
          /\ allocs[i].at + allocs[i].n <= VaddrHeap + Len(mem.heap)
          /\ \A j \in 1..i - 1 : allocs[j].at + allocs[j].n <= allocs[i].at

\* What an execution found is still there.
InputLaid ==
    status = "run" =>
       /\ modified = {}
       /\ \E in \in Inputs : /\ accts = in.accounts
                            /\ mem.input = SerializeInput(in.accounts, in.data)

IInv == Typed /\ FramesMatch /\ BlocksApart /\ InputLaid

(* No instruction has been executed.                                       *)
LEMMA InitIInv == Init => IInv
<1>. SUFFICES ASSUME Init PROVE IInv
  OBVIOUS
<1>. USE DEF Init
<1>1. 0 \in Words /\ 0 \in 0..ComputeLimit /\ 0 \in 0..CuLimit /\ HeapMax \in Nat
      /\ MaxReturnData \in Nat /\ StackDepth \in Nat /\ KeySize \in Nat
  BY Sizes, BpfAssumption, SbpfAssumption
<1>2. NoReturn \in Returns
  <2>1. Zeros(KeySize) \in Seq(Bytes) /\ <<>> \in {d \in Seq(Bytes) : Len(d) <= MaxReturnData}
    BY <1>1, ZerosAreBytes
  <2>. QED
    BY <2>1 DEF NoReturn, Returns
<1>3. NoMemory \in Mems
  BY <1>1 DEF NoMemory, Mems
<1>4. Typed
  BY <1>1, <1>2, <1>3 DEF Typed
<1>5. FramesMatch /\ BlocksApart /\ InputLaid
  BY DEF FramesMatch, BlocksApart, InputLaid
<1>. QED
  BY <1>4, <1>5 DEF IInv

(* The instruction of a step.                                              *)
LEMMA InstructionTyped ==
    ASSUME Typed, NEW class, At(class)
    PROVE  /\ Ins \in Instructions /\ {Ins.dst, Ins.src} \subseteq Registers /\ Known(Ins)
           /\ meter' \in 0..ComputeLimit /\ status = "run"
           /\ cache.text \in Seq(Instructions) /\ pc + 1 \in 1..Len(cache.text)
<1>1. status = "run" /\ IsProgram(cache) /\ pc \in Int
  BY DEF At, Typed
<1>2. cache.text \in Seq(Instructions) /\ pc + 1 \in 1..Len(cache.text)
  BY <1>1 DEF At, Valid, Paid, InText, IsProgram
<1>3. Ins \in Instructions
  BY <1>2 DEF Ins
<1>4. Cost(Ins) \in Nat /\ Cost(Ins) <= meter /\ meter' = meter - Cost(Ins)
  BY DEF At, Valid, Paid, Cost
<1>5. meter \in 0..ComputeLimit /\ ComputeLimit \in Nat
  BY BpfAssumption DEF Typed
<1>6. meter' \in 0..ComputeLimit
  BY <1>4, <1>5
<1>. QED
  BY <1>1, <1>2, <1>3, <1>6 DEF At, Valid

(* A step of an instruction that leaves memory and return data alone and   *)
(* puts a word in a register.                                              *)
LEMMA RegisterSet ==
    ASSUME Typed, NEW class, At(class), NEW i \in Registers, NEW v \in Words, SetReg(i, v),
           pc' \in Int,
           UNCHANGED <<context, frames, mem, cu, ret, status, history>>
    PROVE  Typed'
<1>1. r' \in [Registers -> Words]
  BY DEF Typed, SetReg
<1>2. meter' \in 0..ComputeLimit
  BY InstructionTyped
<1>. QED
  BY <1>1, <1>2 DEF Typed, context, history

(* Arithmetic.                                                             *)
LEMMA AluStepTyped == Typed /\ AluStep => Typed'
<1>. SUFFICES ASSUME Typed, AluStep PROVE Typed'
  OBVIOUS
<1>1. /\ Ins \in Instructions /\ {Ins.dst, Ins.src} \subseteq Registers /\ Known(Ins)
      /\ Ins.class \in {"alu", "alu64"} /\ ~DividesByZero(Ins, r)
  BY InstructionTyped DEF AluStep, At
<1>2. AluResult(Ins, r) \in Words
  BY <1>1, AluIsWord DEF Typed
<1>3. pc' \in Int
  BY DEF AluStep, Advance, Typed
<1>. QED
  BY <1>1, <1>2, <1>3, RegisterSet DEF AluStep

(* A wide immediate: two halves make a word.                               *)
LEMMA LoadImmTyped == Typed /\ LoadImm => Typed'
<1>. SUFFICES ASSUME Typed, LoadImm PROVE Typed'
  OBVIOUS
<1>. DEFINE v == (Ins.imm % Half) + (cache.text[pc + 2].imm % Half) * Half
<1>1. /\ Ins \in Instructions /\ Ins.dst \in Registers
      /\ cache.text \in Seq(Instructions) /\ pc + 1 \in 1..Len(cache.text) /\ pc \in Int
  BY InstructionTyped DEF LoadImm, Typed
<1>2. cache.text[pc + 2] \in Instructions
  <2>1. pc + 2 \in 1..Len(cache.text)
    BY <1>1 DEF LoadImm, LoadImmOK
  <2>. DEFINE k == pc + 2
  <2>. HIDE DEF k
  <2>2. cache.text[k] \in Instructions
    BY <1>1, <2>1 DEF k
  <2>. QED
    BY <2>2 DEF k
<1>3. v \in Words
  <2>1. Ins.imm \in Int /\ cache.text[pc + 2].imm \in Int
    BY <1>1, <1>2 DEF Instructions
  <2>2. Half \in Nat \ {0} /\ Half * Half = Word
    BY Widths, WidthAssumption
  <2>3. \A h \in Nat \ {0}, a, b \in Int : (a % h) + (b % h) * h \in 0..h * h - 1
    <3>1. ASSUME NEW h \in Nat \ {0}, NEW a \in 0..h - 1, NEW b \in 0..h - 1
          PROVE  a + b * h \in 0..h * h - 1
      <4>1. b * h \in Nat /\ b * h <= (h - 1) * h
        OBVIOUS
      <4>2. (h - 1) * h = h * h - h /\ h * h \in Int
        OBVIOUS
      <4>. QED
        BY <4>1, <4>2
    <3>2. \A h \in Nat \ {0}, a \in Int : a % h \in 0..h - 1
      OBVIOUS
    <3>. QED
      BY <3>1, <3>2
  <2>. QED
    BY <2>1, <2>2, <2>3 DEF Words
<1>4. pc' \in Int
  BY <1>1 DEF LoadImm
<1>. HIDE DEF v
<1>. QED
  BY <1>1, <1>3, <1>4, RegisterSet DEF LoadImm, v

(* Addresses are words, and sizes of access those of words at most.        *)
LEMMA AccessTyped ==
    ASSUME Typed, NEW class, At(class)
    PROVE  /\ Address(Ins.src) \in Words /\ Address(Ins.dst) \in Words
           /\ Size[Ins.size] \in 1..Long
<1>1. Ins \in Instructions /\ {Ins.dst, Ins.src} \subseteq Registers
  BY InstructionTyped
<1>2. /\ Ins.off \in Int /\ Size[Ins.size] \in 1..Long
      /\ r[Ins.src] \in Words /\ r[Ins.dst] \in Words
  BY <1>1, Widths DEF Instructions, Typed
<1>. QED
  BY <1>2, Widths DEF Address, Words

(* A load.                                                                 *)
LEMMA LoadMemTyped == Typed /\ LoadMem => Typed'
<1>. SUFFICES ASSUME Typed, LoadMem PROVE Typed'
  OBVIOUS
<1>. DEFINE addr == Address(Ins.src)
            n == Size[Ins.size]
<1>1. addr \in Words /\ n \in 1..Long /\ Ins.dst \in Registers /\ Long \in Nat
  BY AccessTyped, InstructionTyped, Widths DEF LoadMem
<1>2. CanRead(mem, addr, n) /\ mem \in Mems
  BY DEF LoadMem, At, AccessOK, Typed
<1>3. n \in Nat /\ n <= Long
  BY <1>1
<1>4. IntAt(mem, addr, n) \in Words
  BY <1>1, <1>2, <1>3, ReadBytes
<1>5. pc' \in Int
  BY DEF LoadMem, Advance, Typed
<1>. QED
  BY <1>1, <1>4, <1>5, RegisterSet DEF LoadMem

(* A store, which keeps the read-only regions.                             *)
LEMMA StoreMemTyped ==
    ASSUME Typed, StoreMem
    PROVE  Typed' /\ Keeps(mem, mem')
<1>. DEFINE addr == Address(Ins.dst)
            n == Size[Ins.size]
            value == IF Ins.class = "stx" THEN r[Ins.src] ELSE Ins.imm % Word
            bytes == BytesOf(value, n)
<1>1. /\ addr \in Words /\ n \in 0..Long /\ {Ins.dst, Ins.src} \subseteq Registers
      /\ Ins \in Instructions /\ meter' \in 0..ComputeLimit /\ status = "run"
  <2>1. n \in 1..Long /\ Long \in Nat
    BY AccessTyped, Widths DEF StoreMem
  <2>. HIDE DEF n
  <2>. QED
    BY <2>1, AccessTyped, InstructionTyped DEF StoreMem
<1>2. CanWrite(mem, addr, n) /\ mem \in Mems
  BY DEF StoreMem, At, AccessOK, Typed
<1>3. value \in Int
  <2>1. r[Ins.src] \in Words /\ Ins.imm \in Int
    BY <1>1 DEF Instructions, Typed
  <2>. QED
    BY <2>1, Widths DEF Words
<1>4. mem' = Written(mem, addr, bytes)
  BY DEF StoreMem
<1>. HIDE DEF addr, n, value
<1>5. bytes \in Seq(Bytes) /\ Len(bytes) = n
  BY <1>1, <1>3, BytesOfInteger
<1>. HIDE DEF bytes
<1>6. Keeps(mem, mem') /\ Len(mem'.heap) = Len(mem.heap)
  BY <1>1, <1>2, <1>4, <1>5, WriteKeeps
<1>7. mem' \in Mems /\ pc' \in Int
  BY <1>6 DEF Keeps, StoreMem, Advance, Typed
<1>8. UNCHANGED <<context, r, frames, cu, ret, status, history>>
  BY DEF StoreMem
<1>. QED
  BY <1>1, <1>6, <1>7, <1>8 DEF Typed, context, history

(* A jump.                                                                 *)
LEMMA JumpTyped == Typed /\ Jump => Typed'
<1>. SUFFICES ASSUME Typed, Jump PROVE Typed'
  OBVIOUS
<1>1. Ins \in Instructions /\ meter' \in 0..ComputeLimit
  BY InstructionTyped DEF Jump, Is
<1>2. Ins.off \in Int /\ pc \in Int
  BY <1>1 DEF Instructions, Typed
<1>3. pc' \in Int
  BY <1>2 DEF Jump
<1>4. UNCHANGED <<context, r, frames, mem, cu, ret, status, history>>
  BY DEF Jump
<1>. QED
  BY <1>1, <1>3, <1>4 DEF Typed, context, history

(* A call of the host ends in a state of the call, whatever it is.         *)
LEMMA ResultTyped ==
    ASSUME Typed, CallsHost
    PROVE  Result \in CallsOn(mem) /\ Args \in Arguments
<1>. DEFINE st == [state |-> "go", r0 |-> 0, mem |-> mem, cu |-> cu, ret |-> ret]
<1>1. mem \in Mems /\ cu \in 0..CuLimit /\ ret \in Returns /\ 0 \in Words
  BY Sizes DEF Typed
<1>2. Keeps(mem, mem)
  <2>1. Len(mem.heap) \in Nat
    BY <1>1, MemParts DEF Regions
  <2>. QED
    BY <1>1, <2>1 DEF Keeps
<1>3. st \in CallsOn(mem)
  BY <1>1, <1>2 DEF CallsOn
<1>4. Args \in Arguments
  BY DEF Args, Arguments, Typed, Registers
<1>5. ProgramKey \in Seq(Bytes) /\ Ins.fn \in SyscallNames
  BY BpfAssumption DEF CallsHost
<1>. HIDE DEF st
<1>6. Invoked(Ins.fn, st, Args, ProgramKey) \in CallsOn(mem)
  BY <1>1, <1>3, <1>4, <1>5, InvokedOK
<1>. QED
  BY <1>4, <1>6 DEF Result, st

(* A call of the host, failing or not.                                     *)
LEMMA CallHostTyped ==
    ASSUME Typed, CallHost
    PROVE  Typed' /\ Keeps(mem, mem')
<1>. DEFINE res == Result
<1>1. res \in CallsOn(mem)
  BY ResultTyped DEF CallHost
<1>2. meter' \in 0..ComputeLimit /\ status = "run"
  BY InstructionTyped DEF CallHost, Is
<1>3. /\ mem' = res.mem /\ cu' = res.cu /\ ret' = res.ret
      /\ \/ status' = "error" /\ UNCHANGED <<pc, r>>
         \/ SetReg(0, res.r0) /\ Advance /\ UNCHANGED status
      /\ UNCHANGED <<context, frames, calls>>
  BY DEF CallHost
<1>. HIDE DEF res
<1>4. Keeps(mem, mem') /\ mem' \in Mems /\ cu' \in 0..CuLimit /\ ret' \in Returns
  BY <1>1, <1>3 DEF CallsOn
<1>5. r' \in [Registers -> Words] /\ pc' \in Int
  BY <1>1, <1>3 DEF CallsOn, SetReg, Advance, Typed
<1>6. Len(mem'.heap) >= HeapDefault
  <2>1. Len(mem'.heap) \in Nat /\ Len(mem.heap) \in Nat /\ HeapDefault \in Nat
    BY <1>4, MemParts, BpfAssumption DEF Regions, Typed
  <2>. QED
    BY <1>2, <1>4, <2>1 DEF Keeps, Typed
<1>7. status' \in {"run", "error"} /\ UNCHANGED <<context, frames, calls>>
  BY <1>2, <1>3
<1>. QED
  BY <1>2, <1>4, <1>5, <1>6, <1>7 DEF Typed, context

(* A frame is pushed while there is room.                                  *)
LEMMA PushTyped ==
    ASSUME Typed, Push
    PROVE  /\ r' \in [Registers -> Words] /\ frames' \in Seq(Frames)
           /\ Len(frames') <= StackDepth /\ calls' \in Seq(Calls)
<1>. DEFINE frame == [fp |-> r[10], ret |-> pc + 1, nv |-> [i \in CalleeSaved |-> r[i]]]
            call == [ret |-> pc + 1, r |-> r]
            v == (r[10] + StackFrameSize + StackGap) % Word
<1>1. r \in [Registers -> Words] /\ pc \in Int /\ frames \in Seq(Frames) /\ calls \in Seq(Calls)
  BY DEF Typed
<1>2. frame \in Frames
  BY <1>1 DEF Frames, Registers, CalleeSaved
<1>3. call \in Calls
  BY <1>1 DEF Calls
<1>4. v \in Words
  <2>1. r[10] \in Int /\ StackFrameSize \in Int /\ StackGap \in Int
    BY <1>1, SbpfAssumption DEF Registers, Words
  <2>. QED
    BY <2>1, Widths DEF Words
<1>5. frames' = Append(frames, frame) /\ calls' = Append(calls, call) /\ r' = [r EXCEPT ![10] = v]
      /\ Len(frames) < StackDepth
  BY DEF Push, PushOK, SetReg
<1>. HIDE DEF frame, call, v
<1>6. r' \in [Registers -> Words]
  BY <1>1, <1>4, <1>5
<1>7. frames' \in Seq(Frames) /\ Len(frames') = Len(frames) + 1 /\ calls' \in Seq(Calls)
  BY <1>1, <1>2, <1>3, <1>5
<1>8. Len(frames) + 1 <= StackDepth
  BY <1>1, <1>5, SbpfAssumption
<1>. QED
  BY <1>6, <1>7, <1>8

(* A call of a function.                                                   *)
LEMMA CallFunctionTyped == Typed /\ CallFunction => Typed'
<1>. SUFFICES ASSUME Typed, CallFunction PROVE Typed'
  OBVIOUS
<1>1. meter' \in 0..ComputeLimit /\ status = "run"
  BY InstructionTyped DEF CallFunction, Is
<1>2. pc' \in Int
  BY <1>1 DEF CallFunction, Typed, IsProgram
<1>3. /\ r' \in [Registers -> Words] /\ frames' \in Seq(Frames)
      /\ Len(frames') <= StackDepth /\ calls' \in Seq(Calls)
  BY PushTyped DEF CallFunction
<1>4. UNCHANGED <<context, mem, cu, ret, status, allocs>>
  BY DEF CallFunction
<1>. QED
  BY <1>1, <1>2, <1>3, <1>4 DEF Typed, context

(* A relative call.                                                        *)
LEMMA CallRelativeTyped == Typed /\ CallRelative => Typed'
<1>. SUFFICES ASSUME Typed, CallRelative PROVE Typed'
  OBVIOUS
<1>1. Ins \in Instructions /\ meter' \in 0..ComputeLimit
  BY InstructionTyped DEF CallRelative, Is
<1>2. pc' \in Int
  BY <1>1 DEF CallRelative, Typed, Instructions
<1>3. /\ r' \in [Registers -> Words] /\ frames' \in Seq(Frames)
      /\ Len(frames') <= StackDepth /\ calls' \in Seq(Calls)
  BY PushTyped DEF CallRelative
<1>4. UNCHANGED <<context, mem, cu, ret, status, allocs>>
  BY DEF CallRelative
<1>. QED
  BY <1>1, <1>2, <1>3, <1>4 DEF Typed, context

(* The last of a sequence, and all before it.                              *)
LEMMA LastAndFront ==
    ASSUME NEW S, NEW s \in Seq(S), s # <<>>
    PROVE  /\ Len(s) \in Nat \ {0} /\ Last(s) = s[Len(s)] /\ Last(s) \in S
           /\ Front(s) \in Seq(S) /\ Len(Front(s)) = Len(s) - 1
           /\ \A i \in 1..Len(s) - 1 : Front(s)[i] = s[i]
<1>1. Len(s) \in Nat \ {0}
  OBVIOUS
<1>2. Last(s) = s[Len(s)] /\ Last(s) \in S
  BY <1>1 DEF Last
<1>. DEFINE lo == 1 hi == Len(s) - 1
<1>3. lo \in Int /\ hi \in Int /\ lo <= hi + 1 /\ hi <= Len(s) /\ Front(s) = SubSeq(s, lo, hi)
  BY <1>1 DEF Front
<1>4. Front(s) \in Seq(S) /\ Len(Front(s)) = Len(s) - 1
  <2>. HIDE DEF hi
  <2>1. SubSeq(s, lo, hi) \in Seq(S) /\ Len(SubSeq(s, lo, hi)) = hi - lo + 1
    BY <1>3, PartOfSeq
  <2>. QED
    BY <1>1, <1>3, <2>1 DEF hi
<1>5. \A i \in 1..Len(s) - 1 : Front(s)[i] = s[i]
  BY <1>1 DEF Front
<1>. QED
  BY <1>1, <1>2, <1>4, <1>5

(* A return: to every frame there is a call.                               *)
LEMMA ReturnTyped ==
    ASSUME Typed, FramesMatch, Return
    PROVE  Typed'
<1>1. meter' \in 0..ComputeLimit
  BY InstructionTyped DEF Return, Is
<1>2. frames \in Seq(Frames) /\ frames # <<>> /\ calls \in Seq(Calls) /\ r \in [Registers -> Words]
      /\ Len(frames) <= StackDepth /\ StackDepth \in Nat
  BY SbpfAssumption DEF Return, Typed
<1>3. calls # <<>>
  BY <1>2 DEF FramesMatch
<1>4. /\ Last(frames) \in Frames /\ frames' \in Seq(Frames) /\ Len(frames') = Len(frames) - 1
      /\ calls' \in Seq(Calls)
  BY <1>2, <1>3, LastAndFront DEF Return
<1>5. Len(frames') <= StackDepth
  BY <1>2, <1>4
<1>6. Pop(Last(frames)) \in [Registers -> Words] /\ Last(frames).ret \in Int
  BY <1>2, <1>4 DEF Frames, Pop
<1>7. r' \in [Registers -> Words] /\ pc' \in Int
  BY <1>6 DEF Return
<1>8. UNCHANGED <<context, mem, cu, ret, status, allocs>>
  BY DEF Return
<1>. QED
  BY <1>1, <1>4, <1>5, <1>7, <1>8 DEF Typed, context

(* The end of a program.                                                   *)
LEMMA HaltTyped == Typed /\ Halt => Typed'
<1>. SUFFICES ASSUME Typed, Halt PROVE Typed'
  OBVIOUS
<1>1. meter' \in 0..ComputeLimit
  BY InstructionTyped DEF Halt, Is
<1>2. status' \in {"done", "error"} /\ UNCHANGED <<db, cache, left, pc, r, frames, mem, cu, ret, history>>
  BY DEF Halt
<1>. QED
  BY <1>1, <1>2 DEF Typed, history

(* An error.                                                               *)
LEMMA FaultTyped == Typed /\ Fault => Typed'
<1>. SUFFICES ASSUME Typed, Fault PROVE Typed'
  OBVIOUS
<1>1. meter' \in 0..ComputeLimit
  <2>1. meter \in 0..ComputeLimit /\ ComputeLimit \in Nat /\ Cost(Ins) \in Nat
    BY BpfAssumption DEF Typed, Cost
  <2>2. meter' \in {meter, 0} \/ (Cost(Ins) <= meter /\ meter' = meter - Cost(Ins))
    BY DEF Fault, Paid
  <2>. QED
    BY <2>1, <2>2
<1>2. status' = "error" /\ UNCHANGED <<context, pc, r, frames, mem, cu, ret, history>>
  BY DEF Fault
<1>. QED
  BY <1>1, <1>2 DEF Typed, context, history

(* The beginning of an execution, of a program loaded now or before.       *)
LEMMA ExecuteTyped == Typed /\ Execute => Typed'
<1>. SUFFICES ASSUME Typed, Execute PROVE Typed'
  OBVIOUS
<1>1. IsProgram(cache')
  <2>1. CASE cache # NoProgram
    BY <2>1 DEF Typed, Execute
  <2>2. CASE cache = NoProgram
    <3>1. db # NoProgram /\ LoadOK(db.elf) /\ db \in Elfs \cup Upgrades
      BY <2>2 DEF Execute, LoadProgramOK, Typed
    <3>2. IsElf(db.elf) /\ ".text" \in DOMAIN db.elf.sections
      BY <3>1, ElfAssumption DEF LoadOK, Has
    <3>3. cache' = Load(db.elf)
      BY <2>2 DEF Execute
    <3>. QED
      BY <3>2, <3>3, LoadedIsProgram
  <2>. QED
    BY <2>1, <2>2
<1>2. mem' \in Mems /\ Len(mem'.heap) >= HeapDefault
  <2>1. HeapDefault \in Nat /\ HeapDefault <= HeapMax
    BY BpfAssumption
  <2>2. Zeros(HeapDefault) \in Seq(Bytes) /\ Len(Zeros(HeapDefault)) = HeapDefault
    BY <2>1, ZerosAreBytes
  <2>3. Zeros(StackFrameSize * StackDepth) \in Seq(Bytes)
    <3>1. StackFrameSize * StackDepth \in Int
      BY SbpfAssumption
    <3>. QED
      BY <3>1, ZerosAreBytes
  <2>4. PICK in \in Inputs :
           mem' = [ro |-> cache'.ro, stack |-> Zeros(StackFrameSize * StackDepth),
                   heap |-> Zeros(HeapDefault), input |-> SerializeInput(in.accounts, in.data)]
    BY DEF Execute
  <2>5. SerializeInput(in.accounts, in.data) \in Seq(Bytes) /\ cache'.ro \in Seq(Bytes)
    BY <1>1, SerializeInputOK DEF IsProgram
  <2>. QED
    BY <2>1, <2>2, <2>3, <2>4, <2>5 DEF Mems
<1>3. r' \in [Registers -> Words]
  <2>1. VaddrInput \in Words /\ VaddrStack + StackFrameSize - 1 \in Words /\ 0 \in Words
    BY Sizes, Widths, WidthAssumption, SbpfAssumption DEF VaddrInput, VaddrStack, Words
  <2>. QED
    BY <2>1 DEF Execute
<1>4. pc' \in Int
  BY <1>1 DEF Execute, IsProgram
<1>5. ret' \in Returns
  <2>1. KeySize \in Nat /\ MaxReturnData \in Nat
    BY Sizes
  <2>2. Zeros(KeySize) \in Seq(Bytes) /\ <<>> \in {d \in Seq(Bytes) : Len(d) <= MaxReturnData}
    BY <2>1, ZerosAreBytes
  <2>. QED
    BY <2>2 DEF Execute, NoReturn, Returns
<1>6. /\ frames' = <<>> /\ calls' = <<>> /\ meter' = ComputeLimit /\ cu' = 0 /\ status' = "run"
      /\ UNCHANGED db
  BY DEF Execute
<1>7. ComputeLimit \in Nat /\ CuLimit \in Nat /\ StackDepth \in Nat
  BY BpfAssumption, Sizes, SbpfAssumption
<1>8. meter' \in 0..ComputeLimit /\ cu' \in 0..CuLimit /\ frames' \in Seq(Frames)
      /\ calls' \in Seq(Calls) /\ Len(frames') <= StackDepth
  BY <1>6, <1>7
<1>. QED
  BY <1>1, <1>2, <1>3, <1>4, <1>5, <1>6, <1>8 DEF Typed

(* What comes between executions leaves the machine as it is.              *)
LEMMA BetweenTyped == Typed /\ (Deploy \/ ClearCache \/ Refuse \/ UNCHANGED vars) => Typed'
<1>. SUFFICES ASSUME Typed, Deploy \/ ClearCache \/ Refuse \/ UNCHANGED vars PROVE Typed'
  OBVIOUS
<1>1. CASE Deploy
  BY <1>1 DEF Deploy, Typed, machine, history, Resting
<1>2. CASE ClearCache
  BY <1>2 DEF ClearCache, Typed, machine, history, Resting
<1>3. CASE Refuse
  BY <1>3 DEF Refuse, Typed, machine, history, Resting
<1>4. CASE UNCHANGED vars
  BY <1>4 DEF Typed, vars, context, history
<1>. QED
  BY <1>1, <1>2, <1>3, <1>4

(* A call adds its frame, and what it found.                               *)
LEMMA PushMatches == Typed /\ FramesMatch /\ Push => FramesMatch'
<1>. SUFFICES ASSUME Typed, FramesMatch, Push PROVE FramesMatch'
  OBVIOUS
<1>. DEFINE frame == [fp |-> r[10], ret |-> pc + 1, nv |-> [i \in CalleeSaved |-> r[i]]]
            call == [ret |-> pc + 1, r |-> r]
            n == Len(frames)
<1>1. frames' = Append(frames, frame) /\ calls' = Append(calls, call)
  BY DEF Push
<1>2. Matches(frame, call)
  BY DEF Matches
<1>. HIDE DEF frame, call
<1>3. frames \in Seq(Frames) /\ calls \in Seq(Calls) /\ n \in Nat /\ Len(calls) = n
  BY DEF Typed, FramesMatch
<1>4. Len(frames') = n + 1 /\ Len(calls') = n + 1
  BY <1>1, <1>3
<1>5. /\ \A i \in 1..n : frames'[i] = frames[i] /\ calls'[i] = calls[i]
      /\ frames'[n + 1] = frame /\ calls'[n + 1] = call
  BY <1>1, <1>3
<1>6. ASSUME NEW i \in 1..n + 1 PROVE Matches(frames'[i], calls'[i])
  <2>1. CASE i = n + 1
    BY <1>2, <1>5, <2>1
  <2>2. CASE i \in 1..n
    BY <1>5, <2>2 DEF FramesMatch
  <2>. QED
    BY <1>3, <2>1, <2>2
<1>. HIDE DEF n
<1>. QED
  BY <1>4, <1>6 DEF FramesMatch

(* A return takes the last of both away.                                   *)
LEMMA ReturnMatches == Typed /\ FramesMatch /\ Return => FramesMatch'
<1>. SUFFICES ASSUME Typed, FramesMatch, Return PROVE FramesMatch'
  OBVIOUS
<1>. DEFINE n == Len(frames)
<1>1. frames \in Seq(Frames) /\ calls \in Seq(Calls) /\ n \in Nat /\ Len(calls) = n /\ frames # <<>>
  BY DEF Typed, FramesMatch, Return
<1>2. calls # <<>>
  BY <1>1
<1>3. frames' = Front(frames) /\ calls' = Front(calls)
  BY DEF Return
<1>4. /\ Len(frames') = n - 1 /\ Len(calls') = n - 1
      /\ \A i \in 1..n - 1 : frames'[i] = frames[i] /\ calls'[i] = calls[i]
  BY <1>1, <1>2, <1>3, LastAndFront
<1>5. ASSUME NEW i \in 1..n - 1 PROVE Matches(frames'[i], calls'[i])
  <2>1. i \in 1..n
    BY <1>1
  <2>. QED
    BY <1>4, <2>1 DEF FramesMatch
<1>. HIDE DEF n
<1>. QED
  BY <1>4, <1>5 DEF FramesMatch

(* No other step changes the frames.                                       *)
LEMMA NextFrames ==
    ASSUME [Next]_vars
    PROVE  \/ UNCHANGED <<frames, calls>>
           \/ Execute /\ frames' = <<>> /\ calls' = <<>>
           \/ Push
           \/ Return
<1>. USE DEF vars, context, history, machine
<1>1. CASE AluStep
  BY <1>1 DEF AluStep
<1>2. CASE LoadImm
  BY <1>2 DEF LoadImm
<1>3. CASE LoadMem
  BY <1>3 DEF LoadMem
<1>4. CASE StoreMem
  BY <1>4 DEF StoreMem
<1>5. CASE Jump
  BY <1>5 DEF Jump
<1>6. CASE CallHost
  BY <1>6 DEF CallHost
<1>7. CASE CallFunction \/ CallRelative
  BY <1>7 DEF CallFunction, CallRelative
<1>8. CASE Halt
  BY <1>8 DEF Halt
<1>9. CASE Fault
  BY <1>9 DEF Fault
<1>10. CASE Deploy \/ ClearCache \/ Refuse
  BY <1>10 DEF Deploy, ClearCache, Refuse
<1>11. CASE Execute
  BY <1>11 DEF Execute
<1>. QED
  BY <1>1, <1>2, <1>3, <1>4, <1>5, <1>6, <1>7, <1>8, <1>9, <1>10, <1>11 DEF Next, Step

(* Frames and calls stay together.                                         *)
LEMMA FramesMatchStep == Typed /\ FramesMatch /\ [Next]_vars => FramesMatch'
<1>. SUFFICES ASSUME Typed, FramesMatch, [Next]_vars PROVE FramesMatch'
  OBVIOUS
<1>1. CASE UNCHANGED <<frames, calls>>
  BY <1>1 DEF FramesMatch
<1>2. CASE Execute /\ frames' = <<>> /\ calls' = <<>>
  BY <1>2 DEF FramesMatch
<1>. QED
  BY <1>1, <1>2, NextFrames, PushMatches, ReturnMatches

(* The heap an instruction leaves is as long as it was at least.           *)
LEMMA BlocksStay ==
    ASSUME BlocksApart, UNCHANGED allocs, Len(mem.heap) \in Nat, Len(mem'.heap) \in Nat,
           Len(mem'.heap) >= Len(mem.heap)
    PROVE  BlocksApart'
<1>1. \A i \in 1..Len(allocs) : allocs[i] \in Blocks
  BY DEF BlocksApart
<1>2. VaddrHeap \in Int
  BY Widths DEF VaddrHeap
<1>3. \A i \in 1..Len(allocs) : allocs[i].at \in Int /\ allocs[i].n \in Int
  BY <1>1 DEF Blocks
<1>4. \A i \in 1..Len(allocs) : allocs[i].at + allocs[i].n <= VaddrHeap + Len(mem'.heap)
  <2>1. \A i \in 1..Len(allocs) : allocs[i].at + allocs[i].n <= VaddrHeap + Len(mem.heap)
    BY DEF BlocksApart
  <2>2. \A v, l, k, e \in Int : k >= l /\ e <= v + l => e <= v + k
    OBVIOUS
  <2>3. \A i \in 1..Len(allocs) : allocs[i].at + allocs[i].n \in Int
    BY <1>3
  <2>. QED
    BY <1>2, <2>1, <2>2, <2>3
<1>. QED
  BY <1>4 DEF BlocksApart

(* A block that is handed out begins where the heap ended.                 *)
LEMMA BlocksGrow ==
    ASSUME Typed, BlocksApart, CallHost, allocs' # allocs
    PROVE  BlocksApart'
<1>. DEFINE st == [state |-> "go", r0 |-> 0, mem |-> mem, cu |-> cu, ret |-> ret]
            res == AllocFree(st, Args)
            block == [at |-> res.r0, n |-> r[1]]
            top == Len(mem.heap)
            n == Len(allocs)
<1>1. Ins.fn = "alloc" /\ Result = res
  <2>1. Ins.fn = "alloc"
    BY DEF CallHost
  <2>. QED
    BY <2>1 DEF Result, Invoked
<1>2. /\ allocs' = Append(allocs, block) /\ mem' = Result.mem
      /\ res.r0 # 0 /\ r[1] <= HeapMax
  BY <1>1 DEF CallHost
<1>3. r[1] \in Nat /\ Args[1] = r[1]
  <2>1. r[1] \in Words
    BY DEF Typed, Registers
  <2>2. Args[1] = r[1]
    BY DEF Args
  <2>. QED
    BY <2>1, <2>2, Sizes
<1>4. st \in CallsOn(mem) /\ Args \in Arguments /\ mem \in Mems
  <2>1. Len(mem.heap) \in Nat /\ mem \in Mems
    BY MemParts DEF Regions, Typed
  <2>2. Keeps(mem, mem)
    BY <2>1 DEF Keeps
  <2>3. st \in CallsOn(mem)
    BY <2>1, <2>2, Sizes DEF Typed, CallsOn
  <2>4. Args \in Arguments
    BY DEF Args, Arguments, Typed, Registers
  <2>. QED
    BY <2>1, <2>3, <2>4
<1>5. st.r0 = 0 /\ st.mem = mem
  OBVIOUS
<1>. HIDE DEF st
<1>6. res \in CallsOn(mem) /\ res.r0 = VaddrHeap + top /\ Len(res.mem.heap) >= top + r[1]
  BY <1>2, <1>3, <1>4, <1>5, AllocFreeOK
<1>7. Keeps(mem, res.mem) /\ Len(res.mem.heap) \in Nat /\ top \in Nat
  <2>1. Keeps(mem, res.mem) /\ res.mem \in Mems
    BY <1>6 DEF CallsOn
  <2>. QED
    BY <1>4, <2>1, MemParts DEF Regions
<1>8. mem' = res.mem
  BY <1>1, <1>2
<1>9. top >= HeapDefault
  BY DEF CallHost, Is, At, Typed
<1>10. /\ VaddrHeap \in Int /\ HeapMax \in Nat /\ HeapDefault \in Nat
  <2>1. VaddrHeap \in Int
    BY Widths DEF VaddrHeap
  <2>. QED
    BY <2>1, Sizes, BpfAssumption
<1>. HIDE DEF res
<1>11. block \in Blocks /\ block.at = VaddrHeap + top /\ block.n = r[1]
  BY <1>2, <1>3, <1>6, <1>7, <1>10 DEF Blocks
<1>. HIDE DEF block, top
<1>12. allocs \in Seq(Blocks) /\ n \in Nat
  BY DEF BlocksApart
<1>13. /\ allocs' \in Seq(Blocks) /\ Len(allocs') = n + 1 /\ allocs'[n + 1] = block
       /\ \A i \in 1..n : allocs'[i] = allocs[i]
  BY <1>2, <1>11, <1>12
<1>14. ASSUME NEW i \in 1..n
       PROVE  /\ allocs[i].at \in Int /\ allocs[i].n \in Int
              /\ allocs[i].at >= VaddrHeap + HeapDefault
              /\ allocs[i].at + allocs[i].n <= VaddrHeap + top
              /\ \A j \in 1..i - 1 : allocs[j].at + allocs[j].n <= allocs[i].at
  <2>1. allocs[i] \in Blocks
    BY <1>12
  <2>2. allocs[i].at \in Int /\ allocs[i].n \in Int
    BY <2>1 DEF Blocks
  <2>. QED
    BY <2>2 DEF BlocksApart, top
<1>. DEFINE end == VaddrHeap + Len(res.mem.heap)
<1>15. end \in Int /\ VaddrHeap + top \in Int /\ VaddrHeap + top <= end
       /\ VaddrHeap + top + r[1] <= end
  BY <1>3, <1>6, <1>7, <1>10
<1>16. ASSUME NEW i \in 1..n + 1
       PROVE  /\ allocs'[i].at >= VaddrHeap + HeapDefault
              /\ allocs'[i].at + allocs'[i].n <= end
              /\ \A j \in 1..i - 1 : allocs'[j].at + allocs'[j].n <= allocs'[i].at
  <2>. HIDE DEF end
  <2>1. CASE i \in 1..n
    <3>1. allocs'[i] = allocs[i] /\ \A j \in 1..i - 1 : allocs'[j] = allocs[j]
      BY <1>12, <1>13, <2>1
    <3>2. allocs[i].at + allocs[i].n <= end
      BY <1>14, <1>15, <2>1
    <3>. QED
      BY <1>14, <2>1, <3>1, <3>2
  <2>2. CASE i = n + 1
    <3>1. allocs'[i] = block /\ i - 1 = n
      BY <1>12, <1>13, <2>2
    <3>2. block.at >= VaddrHeap + HeapDefault
      BY <1>7, <1>9, <1>10, <1>11 DEF top
    <3>3. block.at + block.n <= end
      BY <1>11, <1>15
    <3>4. \A j \in 1..n : allocs'[j].at + allocs'[j].n <= block.at
      BY <1>11, <1>13, <1>14
    <3>. QED
      BY <3>1, <3>2, <3>3, <3>4
  <2>. QED
    BY <1>12, <2>1, <2>2
<1>17. VaddrHeap' = VaddrHeap
  BY DEF VaddrHeap
<1>. HIDE DEF n
<1>18. \A i \in 1..Len(allocs') :
          /\ allocs'[i].at >= VaddrHeap + HeapDefault
          /\ allocs'[i].at + allocs'[i].n <= VaddrHeap + Len(mem'.heap)
          /\ \A j \in 1..i - 1 : allocs'[j].at + allocs'[j].n <= allocs'[i].at
  BY <1>8, <1>13, <1>16
<1>. QED
  BY <1>13, <1>18 DEF BlocksApart

(* Memory and blocks, in any step but the first of an execution.           *)
LEMMA NextMemory ==
    ASSUME Typed, [Next]_vars
    PROVE  \/ UNCHANGED <<mem, allocs>>
           \/ status = "run" /\ Keeps(mem, mem') /\ (UNCHANGED allocs \/ CallHost)
           \/ status # "run" /\ allocs' = <<>> /\ mem' \in Mems
<1>. USE DEF vars, context, history, machine
<1>1. CASE AluStep
  BY <1>1 DEF AluStep
<1>2. CASE LoadImm
  BY <1>2 DEF LoadImm
<1>3. CASE LoadMem
  BY <1>3 DEF LoadMem
<1>4. CASE StoreMem
  <2>1. status = "run" /\ UNCHANGED allocs
    BY <1>4 DEF StoreMem, At
  <2>. QED
    BY <1>4, <2>1, StoreMemTyped
<1>5. CASE Jump
  BY <1>5 DEF Jump
<1>6. CASE CallHost
  <2>1. status = "run"
    BY <1>6 DEF CallHost, Is, At
  <2>. QED
    BY <1>6, <2>1, CallHostTyped
<1>7. CASE CallFunction \/ CallRelative \/ Return
  BY <1>7 DEF CallFunction, CallRelative, Return
<1>8. CASE Halt
  BY <1>8 DEF Halt
<1>9. CASE Fault
  BY <1>9 DEF Fault
<1>10. CASE Deploy \/ ClearCache \/ Refuse
  BY <1>10 DEF Deploy, ClearCache, Refuse
<1>11. CASE Execute
  <2>1. mem' \in Mems
    BY <1>11, ExecuteTyped DEF Typed
  <2>. QED
    BY <1>11, <2>1 DEF Execute, Resting
<1>. QED
  BY <1>1, <1>2, <1>3, <1>4, <1>5, <1>6, <1>7, <1>8, <1>9, <1>10, <1>11 DEF Next, Step

(* Blocks stay apart.                                                      *)
LEMMA BlocksApartStep == Typed /\ BlocksApart /\ [Next]_vars => BlocksApart'
<1>. SUFFICES ASSUME Typed, BlocksApart, [Next]_vars PROVE BlocksApart'
  OBVIOUS
<1>1. CASE UNCHANGED <<mem, allocs>>
  BY <1>1 DEF BlocksApart, VaddrHeap
<1>2. CASE status = "run" /\ Keeps(mem, mem') /\ (UNCHANGED allocs \/ CallHost)
  <2>1. Len(mem.heap) \in Nat /\ Len(mem'.heap) \in Nat /\ Len(mem'.heap) >= Len(mem.heap)
    BY <1>2, MemParts DEF Keeps, Regions, Typed
  <2>. QED
    BY <1>2, <2>1, BlocksStay, BlocksGrow
<1>3. CASE status # "run" /\ allocs' = <<>> /\ mem' \in Mems
  BY <1>3 DEF BlocksApart
<1>. QED
  BY <1>1, <1>2, <1>3, NextMemory

-----------------------------------------------------------------------------
(* The theorems                                                            *)

(* Every step keeps the types.                                             *)
LEMMA TypedStep == Typed /\ FramesMatch /\ [Next]_vars => Typed'
<1>. SUFFICES ASSUME Typed, FramesMatch, [Next]_vars PROVE Typed'
  OBVIOUS
<1>1. CASE AluStep
  BY <1>1, AluStepTyped
<1>2. CASE LoadImm
  BY <1>2, LoadImmTyped
<1>3. CASE LoadMem
  BY <1>3, LoadMemTyped
<1>4. CASE StoreMem
  BY <1>4, StoreMemTyped
<1>5. CASE Jump
  BY <1>5, JumpTyped
<1>6. CASE CallHost
  BY <1>6, CallHostTyped
<1>7. CASE CallFunction
  BY <1>7, CallFunctionTyped
<1>8. CASE CallRelative
  BY <1>8, CallRelativeTyped
<1>9. CASE Return
  BY <1>9, ReturnTyped
<1>10. CASE Halt
  BY <1>10, HaltTyped
<1>11. CASE Fault
  BY <1>11, FaultTyped
<1>12. CASE Execute
  BY <1>12, ExecuteTyped
<1>13. CASE Deploy \/ ClearCache \/ Refuse \/ UNCHANGED vars
  BY <1>13, BetweenTyped
<1>. QED
  BY <1>1, <1>2, <1>3, <1>4, <1>5, <1>6, <1>7, <1>8, <1>9, <1>10, <1>11, <1>12, <1>13
  DEF Next, Step

(* While a program runs, its accounts are what they were.                  *)
LEMMA RunKeepsAccounts ==
    ASSUME IInv, [Next]_vars, status = "run"
    PROVE  /\ mem'.ro = mem.ro /\ mem'.input = mem.input
           /\ accts' = accts /\ modified' = {}
<1>. USE DEF vars, context, history, machine
<1>1. mem'.ro = mem.ro /\ mem'.input = mem.input
  BY NextMemory DEF IInv, Keeps
<1>2. modified = {}
  BY DEF IInv, InputLaid
<1>3. CASE Halt
  <2>. DEFINE out == DeserializeOutput(mem.input, accts)
  <2>1. out.accts = accts /\ out.ok = TRUE
    <3>1. PICK in \in Inputs : /\ accts = in.accounts
                              /\ mem.input = SerializeInput(in.accounts, in.data)
      BY DEF IInv, InputLaid
    <3>. QED
      BY <3>1, InputRoundTrip
  <2>2. FindModified(accts, accts) = {}
    BY DEF FindModified
  <2>3. \/ accts' = accts /\ modified' = modified
        \/ accts' = out.accts /\ (modified' = FindModified(accts, out.accts) \/ modified' = modified)
    BY <1>3 DEF Halt
  <2>. HIDE DEF out
  <2>. QED
    BY <1>1, <1>2, <2>1, <2>2, <2>3
<1>4. CASE UNCHANGED <<accts, modified>>
  BY <1>1, <1>2, <1>4
<1>5. UNCHANGED <<accts, modified>> \/ Halt
  <2>1. ~ Deploy /\ ~ ClearCache /\ ~ Refuse /\ ~ Execute
    BY DEF Deploy, ClearCache, Refuse, Execute, Resting
  <2>2. AluStep \/ LoadImm \/ LoadMem \/ StoreMem \/ Jump => UNCHANGED <<accts, modified>>
    BY DEF AluStep, LoadImm, LoadMem, StoreMem, Jump
  <2>3. CallHost \/ CallFunction \/ CallRelative \/ Return \/ Fault => UNCHANGED <<accts, modified>>
    BY DEF CallHost, CallFunction, CallRelative, Return, Fault
  <2>. QED
    BY <2>1, <2>2, <2>3 DEF Next, Step
<1>. QED
  BY <1>3, <1>4, <1>5

(* Every step leaves the input as it was laid out.                         *)
LEMMA InputLaidStep == IInv /\ [Next]_vars => InputLaid'
<1>. SUFFICES ASSUME IInv, [Next]_vars, status' = "run" PROVE InputLaid'
  BY DEF InputLaid
<1>1. CASE status = "run"
  <2>1. mem'.input = mem.input /\ accts' = accts /\ modified' = {}
    BY <1>1, RunKeepsAccounts
  <2>. QED
    BY <1>1, <2>1 DEF IInv, InputLaid
<1>2. CASE Execute
  <2>1. PICK in \in Inputs :
           /\ accts' = in.accounts
           /\ mem' = [ro |-> cache'.ro, stack |-> Zeros(StackFrameSize * StackDepth),
                      heap |-> Zeros(HeapDefault),
                      input |-> SerializeInput(in.accounts, in.data)]
    BY <1>2 DEF Execute
  <2>2. modified' = {}
    BY <1>2 DEF Execute
  <2>. QED
    BY <2>1, <2>2 DEF InputLaid
<1>3. status = "run" \/ Execute
  <2>1. Deploy \/ ClearCache => UNCHANGED status
    BY DEF Deploy, ClearCache
  <2>2. ~ Refuse
    BY DEF Refuse
  <2>3. Step => status = "run"
    BY DEF Step, AluStep, LoadImm, LoadMem, StoreMem, Jump, CallHost, CallFunction,
           CallRelative, Return, Halt, Fault, Is, At
  <2>. QED
    BY <2>1, <2>2, <2>3 DEF Next, vars
<1>. QED
  BY <1>1, <1>2, <1>3

(* The invariant the theorems rest on.                                     *)
LEMMA Invariant == Spec => []IInv
<1>1. IInv /\ [Next]_vars => IInv'
  BY TypedStep, FramesMatchStep, BlocksApartStep, InputLaidStep DEF IInv
<1>. QED
  BY <1>1, InitIInv, PTL DEF Spec

(* Every value a program computes, loads or is given by the host, and      *)
(* every byte written to memory, keeps its width, and the depth of calls,  *)
(* the heap and the units stay within their limits, whatever the program.  *)
THEOREM TypeCorrect == Spec => []TypeOK
<1>1. IInv => TypeOK
  <2>. SUFFICES ASSUME IInv PROVE TypeOK
    OBVIOUS
  <2>1. \A region \in DOMAIN mem : ToSet(mem[region]) \subseteq Bytes
    <3>1. mem \in Mems /\ DOMAIN mem = Regions
      BY DEF IInv, Typed, Mems, Regions
    <3>2. ASSUME NEW region \in Regions PROVE ToSet(mem[region]) \subseteq Bytes
      <4>1. mem[region] \in Seq(Bytes)
        BY <3>1, MemParts
      <4>. QED
        BY <4>1 DEF ToSet
    <3>. QED
      BY <3>1, <3>2
  <2>2. Len(mem.heap) <= HeapMax /\ Len(ret.data) <= MaxReturnData
    BY DEF IInv, Typed, Mems, Returns
  <2>. QED
    BY <2>1, <2>2 DEF IInv, Typed, TypeOK
<1>. QED
  BY <1>1, Invariant, PTL

(* A place inside the heap can be written to.                              *)
LEMMA HeapWritable ==
    ASSUME NEW m \in Mems, NEW at \in Int, NEW n \in Nat, at >= VaddrHeap,
           at + n <= VaddrHeap + Len(m.heap)
    PROVE  CanWrite(m, at, n)
<1>. DEFINE top == Len(m.heap)
            lo == at - VaddrHeap
<1>1. top \in Nat /\ top <= HeapMax /\ HeapMax \in Nat /\ HeapMax < Half
  <2>1. top \in Nat /\ HeapMax \in Nat /\ 2 * HeapMax + Long < Half /\ Long \in Nat /\ Half \in Nat
    BY MemParts, Sizes, SyscallsAssumption, Widths DEF Regions
  <2>. QED
    BY <2>1 DEF Mems
<1>2. Half \in Nat \ {0} /\ Word \in Nat \ {0} /\ 5 * Half <= Word /\ VaddrHeap = 3 * Half
  BY Widths DEF VaddrHeap
<1>. HIDE DEF top
<1>3. lo \in 0..top /\ lo + n <= top /\ at = 3 * Half + lo
  <2>1. at + n <= VaddrHeap + top
    BY DEF top
  <2>2. 3 * Half \in Int
    BY <1>2
  <2>. QED
    BY <1>1, <1>2, <2>1, <2>2
<1>. HIDE DEF lo
<1>4. at \div Half = 3 /\ at % Half = lo
  <2>1. lo \in 0..Half - 1
    BY <1>1, <1>2, <1>3
  <2>. QED
    BY <1>2, <1>3, <2>1
<1>5. (lo + n) % Word = lo + n /\ ~ (n > 0 /\ lo > Word - 1 - n)
  <2>1. lo + n \in 0..Word - 1
    BY <1>1, <1>2, <1>3
  <2>. QED
    BY <1>2, <2>1, <1>3
<1>6. Translate(m, at, n, TRUE) = [region |-> "heap", at |-> lo]
  BY <1>3, <1>4, <1>5 DEF Translate, top
<1>7. Translate(m, at, n, TRUE).region = "heap"
  <2>1. [region |-> "heap", at |-> lo].region = "heap"
    OBVIOUS
  <2>. QED
    BY <1>6, <2>1, Zenon
<1>8. NoPlace.region = "none"
  BY DEF NoPlace
<1>. QED
  BY <1>7, <1>8 DEF CanWrite

(* The blocks the allocator hands out for sizes up to the largest heap     *)
(* never overlap, nor reach outside the heap or into what it held at       *)
(* first, whatever the program allocates, frees and calls in between.      *)
THEOREM AllocationsApart == Spec => []AllocsSound
<1>1. IInv => AllocsSound
  <2>. SUFFICES ASSUME IInv, NEW i \in DOMAIN allocs
                PROVE  /\ allocs[i].at >= VaddrHeap + HeapDefault
                       /\ CanWrite(mem, allocs[i].at, allocs[i].n)
                       /\ \A j \in 1..i - 1 : allocs[j].at + allocs[j].n <= allocs[i].at
    BY DEF AllocsSound
  <2>1. allocs \in Seq(Blocks) /\ i \in 1..Len(allocs)
    BY DEF IInv, BlocksApart
  <2>2. allocs[i] \in Blocks
    BY <2>1
  <2>3. /\ allocs[i].at >= VaddrHeap + HeapDefault
        /\ allocs[i].at + allocs[i].n <= VaddrHeap + Len(mem.heap)
        /\ \A j \in 1..i - 1 : allocs[j].at + allocs[j].n <= allocs[i].at
    BY <2>1 DEF IInv, BlocksApart
  <2>4. allocs[i].at \in Int /\ allocs[i].n \in Nat /\ mem \in Mems
    BY <2>2, Sizes DEF Blocks, IInv, Typed
  <2>5. VaddrHeap \in Int /\ HeapDefault \in Nat
    <3>1. VaddrHeap \in Int
      BY Widths DEF VaddrHeap
    <3>. QED
      BY <3>1, BpfAssumption
  <2>6. CanWrite(mem, allocs[i].at, allocs[i].n)
    <3>1. allocs[i].at >= VaddrHeap
      BY <2>3, <2>4, <2>5
    <3>. QED
      BY <2>3, <2>4, <3>1, HeapWritable
  <2>. QED
    BY <2>3, <2>6
<1>. QED
  BY <1>1, Invariant, PTL

(* However deep the calls of a program nest and whatever they do to the    *)
(* registers and the memory, a return goes to the instruction after its    *)
(* call, with r6 to r10 as the caller had them.                            *)
THEOREM CallsAreReturned == Spec => CallsReturn
<1>1. ASSUME IInv, [Next]_vars
      PROVE  [(status = "run" /\ Len(frames') < Len(frames)) =>
                 /\ pc' = Last(calls).ret
                 /\ \A i \in CalleeSaved \cup {10} : r'[i] = Last(calls).r[i]]_vars
  <2>. SUFFICES ASSUME status = "run", Len(frames') < Len(frames)
                PROVE  /\ pc' = Last(calls).ret
                       /\ \A i \in CalleeSaved \cup {10} : r'[i] = Last(calls).r[i]
    OBVIOUS
  <2>1. frames \in Seq(Frames) /\ calls \in Seq(Calls) /\ Len(frames) \in Nat
    BY <1>1 DEF IInv, Typed
  <2>2. Return
    <3>1. ~ Push
      <4>1. Push => Len(frames') = Len(frames) + 1
        BY <2>1 DEF Push
      <4>. QED
        BY <2>1, <4>1
    <3>2. ~ Execute
      BY DEF Execute, Resting
    <3>. QED
      BY <1>1, <2>1, <3>1, <3>2, NextFrames
  <2>3. frames # <<>> /\ calls # <<>>
    BY <1>1, <2>1, <2>2 DEF Return, IInv, FramesMatch
  <2>4. Matches(Last(frames), Last(calls))
    <3>1. Last(frames) = frames[Len(frames)] /\ Last(calls) = calls[Len(calls)]
      BY <2>1, <2>3, LastAndFront
    <3>2. Len(frames) \in 1..Len(frames) /\ Len(calls) = Len(frames)
      BY <1>1, <2>1, <2>3 DEF IInv, FramesMatch
    <3>. QED
      BY <1>1, <3>1, <3>2 DEF IInv, FramesMatch
  <2>5. r' = Pop(Last(frames)) /\ pc' = Last(frames).ret
    BY <2>2 DEF Return
  <2>. QED
    BY <2>4, <2>5 DEF Matches, Pop, CalleeSaved, Registers
<1>. QED
  BY <1>1, Invariant, PTL DEF Spec, CallsReturn

(* No instruction and no call of the host, failing or not, writes to the   *)
(* input or to the read-only data of a program.                            *)
THEOREM InputStays == Spec => InputIsKept
<1>1. ASSUME IInv, [Next]_vars
      PROVE  [status = "run" => mem'.ro = mem.ro /\ mem'.input = mem.input]_vars
  BY <1>1, RunKeepsAccounts
<1>. QED
  BY <1>1, Invariant, PTL DEF Spec, InputIsKept

(* What the executor makes of that (bpf_executor.go:126): reading back the *)
(* input gives each account as it was laid out, so that no instruction     *)
(* changes any, a writable one of the program's own included, and none is  *)
(* ever found modified.                                                    *)
THEOREM NothingModified == Spec => [][status = "run" => accts' = accts /\ modified' = {}]_vars
<1>1. ASSUME IInv, [Next]_vars
      PROVE  [status = "run" => accts' = accts /\ modified' = {}]_vars
  BY <1>1, RunKeepsAccounts
<1>. QED
  BY <1>1, Invariant, PTL DEF Spec
=============================================================================
