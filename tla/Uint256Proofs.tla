--------------------------- MODULE Uint256Proofs ----------------------------
(***************************************************************************)
(* TLAPS proofs about the operators of Uint256, for limbs and bytes of any *)
(* width: what each computes on the limbs is what the arithmetic of the    *)
(* numbers modulo 2^256 gives. Loops over limbs, bits and bytes are        *)
(* recursive functions; a lemma about one first takes the function itself  *)
(* out of its definition, then follows its steps.                          *)
(***************************************************************************)
EXTENDS Uint256, FiniteSetTheorems, TLAPS

-----------------------------------------------------------------------------
(* Induction and the powers of two. *)

(* A set of natural numbers that is not empty has a least element: the     *)
(* induction principle of all that follows.                                *)
LEMMA Least ==
  ASSUME NEW T, T \subseteq Nat, T # {}
  PROVE  \E m \in T : \A k \in T : m <= k
<1>1. PICK R : R = OpToRel(<, Nat)
  OBVIOUS
<1>2. \A x, y \in Nat : y < x => <<y, x>> \in R
  BY <1>1 DEF OpToRel
<1>3. IsWellFoundedOn(R, Nat)
  BY <1>1, NatLessThanWellFounded, Zenon
<1>4. PICK m \in T : \A k \in T : ~(<<k, m>> \in R)
  BY <1>3, WFMin, Zenon
<1>5. ASSUME NEW k \in T
      PROVE  m <= k
  <2>1. m \in Nat /\ k \in Nat /\ ~(<<k, m>> \in R)
    BY <1>4
  <2>2. ~(k < m)
    BY <2>1, <1>2
  <2>3. QED
    BY <2>1, <2>2
<1>6. QED
  BY <1>5

(* Induction up to a bound, over the set of the numbers the claim holds    *)
(* of.                                                                     *)
LEMMA UpTo ==
  ASSUME NEW n \in Nat, NEW T, 0 \in T, \A k \in 0 .. n - 1 : k \in T => k + 1 \in T
  PROVE  0 .. n \subseteq T
<1> DEFINE B == {k \in 0 .. n : k \notin T}
<1> SUFFICES ASSUME B # {} PROVE FALSE
  OBVIOUS
<1>1. B \subseteq Nat
  OBVIOUS
<1>2. PICK m \in B : \A k \in B : m <= k
  BY <1>1, Least
<1>3. m \in 0 .. n /\ m \notin T /\ m # 0
  BY <1>2
<1>4. m - 1 \in 0 .. n - 1 /\ m - 1 \notin B
  BY <1>2, <1>3
<1>5. m - 1 \in T /\ (m - 1) + 1 = m
  BY <1>4, <1>3
<1>6. QED
  BY <1>3, <1>4, <1>5

(* Induction over the natural numbers, over such a set.                    *)
LEMMA AllNat ==
  ASSUME NEW T, 0 \in T, \A k \in Nat : k \in T => k + 1 \in T
  PROVE  Nat \subseteq T
<1>1. ASSUME NEW n \in Nat
      PROVE  n \in T
  <2>1. \A k \in 0 .. n - 1 : k \in T => k + 1 \in T
    OBVIOUS
  <2>2. 0 .. n \subseteq T
    BY <2>1, UpTo
  <2>3. QED
    BY <2>2
<1>2. QED
  BY <1>1

(* 2^n counts the subsets of n things: what fixes the powers of two.       *)
LEMMA PowerCounts ==
  ASSUME NEW n \in Nat
  PROVE  /\ IsFiniteSet(SUBSET (1 .. n))
         /\ Cardinality(SUBSET (1 .. n)) = 2 ^ n
<1>1. IsFiniteSet(1 .. n) /\ Cardinality(1 .. n) = n
  BY FS_Interval
<1>2. QED
  BY <1>1, FS_SUBSET

(* A power of two is a natural number.                                     *)
LEMMA PowerIsNat ==
  ASSUME NEW n \in Nat
  PROVE  2 ^ n \in Nat
BY PowerCounts, FS_CardinalityType

(* The next power of two is twice the one before.                          *)
LEMMA PowerNext ==
  ASSUME NEW n \in Nat
  PROVE  2 ^ (n + 1) = 2 * 2 ^ n
<1> DEFINE A == SUBSET (1 .. n)
           B == {T \cup {n + 1} : T \in A}
           f == [T \in A |-> T \cup {n + 1}]
<1>1. SUBSET (1 .. n + 1) = A \cup B
  <2>1. ASSUME NEW U \in SUBSET (1 .. n + 1), n + 1 \in U
        PROVE  U \in B
    <3>1. U \ {n + 1} \in A /\ U = (U \ {n + 1}) \cup {n + 1}
      BY <2>1
    <3>2. QED
      BY <3>1
  <2>2. ASSUME NEW U \in SUBSET (1 .. n + 1), n + 1 \notin U
        PROVE  U \in A
    BY <2>2
  <2>3. ASSUME NEW U \in A \cup B
        PROVE  U \in SUBSET (1 .. n + 1)
    OBVIOUS
  <2>4. \A U : U \in SUBSET (1 .. n + 1) <=> U \in A \cup B
    BY <2>1, <2>2, <2>3, Zenon
  <2>5. QED
    BY <2>4, Zenon
<1>2. A \cap B = {}
  OBVIOUS
<1>3. f \in Bijection(A, B)
  <2>1. f \in [A -> B]
    OBVIOUS
  <2>2. ASSUME NEW S \in A, NEW T \in A, f[S] = f[T]
        PROVE  S = T
    <3>1. S \cup {n + 1} = T \cup {n + 1} /\ n + 1 \notin S /\ n + 1 \notin T
      BY <2>2
    <3>2. QED
      BY <3>1
  <2>3. \A U \in B : \E T \in A : f[T] = U
    OBVIOUS
  <2>4. QED
    <3>1. f \in Injection(A, B)
      BY <2>1, <2>2, Zenon DEF Injection, IsInjective
    <3>2. f \in Surjection(A, B)
      BY <2>1, <2>3, Zenon DEF Surjection
    <3>3. QED
      BY <3>1, <3>2, Zenon DEF Bijection
<1>4. IsFiniteSet(A) /\ Cardinality(A) = 2 ^ n /\ 2 ^ n \in Nat
  BY PowerCounts, PowerIsNat
<1>5. IsFiniteSet(B) /\ Cardinality(B) = 2 ^ n
  <2>1. ExistsBijection(A, B)
    BY <1>3 DEF ExistsBijection
  <2>2. QED
    BY <2>1, <1>4, FS_Bijection
<1> HIDE DEF A, B, f
<1>6. Cardinality(A \cup B) = 2 ^ n + 2 ^ n - 0
  <2>1. Cardinality(A \cap B) = 0
    BY <1>2, FS_EmptySet
  <2>2. QED
    BY <1>4, <1>5, <2>1, FS_Union
<1>7. Cardinality(SUBSET (1 .. n + 1)) = 2 ^ (n + 1)
  <2>1. PICK k \in Nat : k = n + 1
    OBVIOUS
  <2>2. QED
    BY <2>1, PowerCounts, Zenon
<1>8. PICK p \in Nat : p = 2 ^ n
  BY <1>4
<1>9. 2 ^ (n + 1) = p + p - 0
  BY <1>1, <1>6, <1>7, <1>8, Zenon
<1>10. p + p - 0 = 2 * p
  OBVIOUS
<1>11. QED
  BY <1>8, <1>9, <1>10, Zenon

(* The first power of two.                                                 *)
LEMMA PowerZero == 2 ^ 0 = 1
OBVIOUS

(* No power of two is zero.                                                *)
LEMMA PowerPositive ==
  ASSUME NEW n \in Nat
  PROVE  2 ^ n \in Nat \ {0}
<1> DEFINE T == {k \in Nat : 2 ^ k # 0}
<1>1. 0 \in T
  BY PowerZero
<1>2. ASSUME NEW k \in Nat, k \in T
      PROVE  k + 1 \in T
  <2>1. 2 ^ (k + 1) = 2 * 2 ^ k /\ 2 ^ k \in Nat /\ 2 ^ k # 0
    BY <1>2, PowerNext, PowerIsNat
  <2>2. QED
    BY <2>1
<1>3. Nat \subseteq T
  BY <1>1, <1>2, AllNat
<1>4. QED
  BY <1>3, PowerIsNat

(* The power of a sum is the product of the powers.                        *)
LEMMA PowerSum ==
  ASSUME NEW m \in Nat, NEW n \in Nat
  PROVE  2 ^ (m + n) = 2 ^ m * 2 ^ n
<1> DEFINE T == {k \in Nat : 2 ^ (m + k) = 2 ^ m * 2 ^ k}
<1>1. 0 \in T
  <2>1. m + 0 = m /\ 2 ^ m \in Nat
    BY PowerIsNat
  <2>2. QED
    BY <2>1, PowerZero
<1>2. ASSUME NEW k \in Nat, k \in T
      PROVE  k + 1 \in T
  <2>1. PICK a, b, c \in Nat : a = 2 ^ m /\ b = 2 ^ k /\ c = 2 ^ (m + k)
    BY PowerIsNat
  <2>2. c = a * b
    BY <1>2, <2>1
  <2>3. 2 ^ (k + 1) = 2 * b /\ 2 ^ ((m + k) + 1) = 2 * c
    BY <2>1, PowerNext
  <2>4. m + (k + 1) = (m + k) + 1
    OBVIOUS
  <2>5. 2 * c = a * (2 * b)
    BY <2>2
  <2>6. 2 ^ (m + (k + 1)) = 2 * c
    BY <2>3, <2>4, Zenon
  <2>7. QED
    BY <2>1, <2>3, <2>5, <2>6
<1>3. QED
  BY <1>1, <1>2, AllNat

-----------------------------------------------------------------------------
(* Quotients, remainders and products. *)

(* Quotient and remainder make up the number.                              *)
LEMMA DivSplit ==
  ASSUME NEW P \in Nat \ {0}, NEW a \in Int
  PROVE  /\ a \div P \in Int
         /\ a % P \in 0 .. P - 1
         /\ a = P * (a \div P) + (a % P)
<1>1. P \in Int /\ P > 0
  OBVIOUS
<1>2. a % P = a - P * (a \div P)
  BY <1>1
<1>3. a \div P \in Int
  BY <1>1
<1>4. a % P \in 0 .. P - 1
  BY <1>1
<1> DEFINE q == a \div P
           r == a % P
           pq == P * q
<1>5. pq \in Int
  BY <1>1, <1>3
<1>6. r = a - pq /\ r \in Int
  BY <1>2, <1>4
<1> HIDE DEF q, r, pq
<1>7. a = pq + r
  BY <1>5, <1>6
<1>8. QED
  BY <1>3, <1>4, <1>7, Zenon DEF q, r, pq

(* And only they do.                                                       *)
LEMMA DivOf ==
  ASSUME NEW P \in Nat \ {0}, NEW q \in Int, NEW r \in 0 .. P - 1,
         NEW a \in Int, a = P * q + r
  PROVE  a \div P = q /\ a % P = r
OBVIOUS

(* A product of integers is one.                                           *)
LEMMA ProductIsInt ==
  ASSUME NEW a \in Int, NEW b \in Int
  PROVE  a * b \in Int
OBVIOUS

(* A product of natural numbers is one.                                    *)
LEMMA ProductIsNat ==
  ASSUME NEW a \in Nat, NEW b \in Nat
  PROVE  a * b \in Nat
OBVIOUS

(* A product is zero only if a factor is.                                  *)
LEMMA ProductPositive ==
  ASSUME NEW a \in Nat \ {0}, NEW b \in Nat \ {0}
  PROVE  a * b \in Nat \ {0}
OBVIOUS

(* Products grow with their factors.                                       *)
LEMMA ProductAtMost ==
  ASSUME NEW a \in Nat, NEW b \in Nat, NEW c \in Nat, a <= b
  PROVE  c * a <= c * b
OBVIOUS

(* Multiplication is associative.                                          *)
LEMMA Associate ==
  ASSUME NEW a \in Int, NEW b \in Int, NEW c \in Int
  PROVE  (a * b) * c = a * (b * c)
OBVIOUS

(* Multiplication distributes over addition.                               *)
LEMMA Distribute ==
  ASSUME NEW a \in Int, NEW b \in Int, NEW c \in Int
  PROVE  a * (b + c) = a * b + a * c
OBVIOUS

(* A natural number has a natural quotient. *)
LEMMA DivIsNat ==
  ASSUME NEW P \in Nat \ {0}, NEW a \in Nat
  PROVE  a \div P \in Nat
<1>1. PICK q, r \in Int : q = a \div P /\ r \in 0 .. P - 1 /\ a = P * q + r
  BY DivSplit
<1>2. ASSUME q < 0
      PROVE  FALSE
  <2>1. PICK k \in Nat : q = -1 - k
    BY <1>2
  <2>2. P * q = -P - P * k
    BY <2>1
  <2>3. P * k \in Nat
    OBVIOUS
  <2>4. QED
    BY <1>1, <2>2, <2>3
<1>3. QED
  BY <1>1, <1>2

(* Digits: a number below P times Q. *)
LEMMA DivBelow ==
  ASSUME NEW P \in Nat \ {0}, NEW Q \in Nat \ {0}, NEW a \in Nat, a < P * Q
  PROVE  a \div P \in 0 .. Q - 1
<1>1. PICK q \in Nat, r \in 0 .. P - 1 : q = a \div P /\ a = P * q + r
  BY DivSplit, DivIsNat
<1>2. ASSUME q >= Q
      PROVE  FALSE
  <2>1. P * Q <= P * q
    BY <1>2, ProductAtMost
  <2>2. P * Q \in Nat /\ P * q \in Nat
    BY ProductIsNat
  <2>3. QED
    BY <1>1, <2>1, <2>2
<1>3. QED
  BY <1>1, <1>2

(* Dividing twice. *)
LEMMA DivDiv ==
  ASSUME NEW P \in Nat \ {0}, NEW Q \in Nat \ {0}, NEW a \in Int
  PROVE  (a \div P) \div Q = a \div (P * Q)
<1>1. PICK q \in Int, r \in 0 .. P - 1 : q = a \div P /\ a = P * q + r
  BY DivSplit
<1>2. PICK p \in Int, s \in 0 .. Q - 1 : p = q \div Q /\ q = Q * p + s
  BY DivSplit
<1>3. PICK M \in Nat \ {0} : M = P * Q
  BY ProductPositive
<1>4. PICK t : t = P * s + r
  OBVIOUS
<1>5. t \in 0 .. M - 1
  <2>1. PICK u \in Nat : s + u = Q - 1
    BY <1>2
  <2>2. P * (s + u) = P * s + P * u /\ P * (Q - 1) = M - P
    BY <1>3
  <2>3. P * s \in Nat /\ P * u \in Nat
    BY <2>1
  <2>4. QED
    BY <1>4, <2>1, <2>2, <2>3
<1>6. a = M * p + t
  <2>1. P * (Q * p + s) = M * p + P * s
    BY <1>3
  <2>2. PICK x \in Int, y \in Int : x = M * p /\ y = P * s
    BY ProductIsInt
  <2>3. a = x + y + r
    BY <1>1, <1>2, <2>1, <2>2
  <2>4. QED
    BY <1>4, <2>2, <2>3
<1>7. a \div M = p
  BY <1>5, <1>6, DivOf
<1>8. QED
  BY <1>1, <1>2, <1>3, <1>7

(* A multiple of the divisor more. *)
LEMMA DivPlusMultiple ==
  ASSUME NEW P \in Nat \ {0}, NEW a \in Int, NEW k \in Int
  PROVE  /\ (a + P * k) \div P = a \div P + k
         /\ (a + P * k) % P = a % P
<1>1. PICK q \in Int, r \in 0 .. P - 1 : q = a \div P /\ r = a % P /\ a = P * q + r
  BY DivSplit
<1>2. PICK b \in Int : b = a + P * k
  BY ProductIsInt
<1>3. b = P * (q + k) + r
  BY <1>1, <1>2
<1>4. b \div P = q + k /\ b % P = r
  BY <1>3, DivOf
<1>5. QED
  BY <1>1, <1>2, <1>4

(* A number below the divisor is its own remainder.                        *)
LEMMA Small ==
  ASSUME NEW P \in Nat \ {0}, NEW a \in 0 .. P - 1
  PROVE  a \div P = 0 /\ a % P = a
<1>1. a = P * 0 + a
  OBVIOUS
<1>2. QED
  BY <1>1, DivOf

-----------------------------------------------------------------------------
(* Bits. *)

(* The larger power is a multiple of the smaller.                          *)
LEMMA PowerMonotone ==
  ASSUME NEW m \in Nat, NEW n \in Nat, m <= n
  PROVE  /\ n - m \in Nat
         /\ 2 ^ n = 2 ^ m * 2 ^ (n - m)
         /\ 2 ^ m <= 2 ^ n
<1>1. PICK k \in Nat : k = n - m /\ m + k = n
  OBVIOUS
<1>2. 2 ^ (m + k) = 2 ^ m * 2 ^ k
  BY PowerSum
<1>3. PICK a \in Nat \ {0}, b \in Nat \ {0} : a = 2 ^ m /\ b = 2 ^ k
  BY PowerPositive
<1>4. a * 1 <= a * b
  BY ProductAtMost
<1>5. 2 ^ n = a * b
  BY <1>1, <1>2, <1>3, Zenon
<1>6. a * b \in Nat /\ a <= a * b
  BY <1>4, ProductIsNat
<1>7. QED
  BY <1>1, <1>3, <1>5, <1>6

(* It is at least twice the smaller if the exponents differ.               *)
LEMMA PowerStrict ==
  ASSUME NEW m \in Nat, NEW n \in Nat, m < n
  PROVE  2 * 2 ^ m <= 2 ^ n
<1>1. 2 ^ (m + 1) = 2 * 2 ^ m
  BY PowerNext
<1>2. PICK k \in Nat : k = m + 1 /\ k <= n
  OBVIOUS
<1>3. 2 ^ k <= 2 ^ n
  BY <1>2, PowerMonotone
<1>4. QED
  BY <1>1, <1>2, <1>3

(* The power of one.                                                       *)
LEMMA PowerOne == 2 ^ 1 = 2
OBVIOUS

(* One bit more. *)
LEMMA BitSplit ==
  ASSUME NEW v \in Nat, NEW k \in Nat
  PROVE  /\ BitOf(v, k) \in {0, 1}
         /\ v \div 2 ^ k = 2 * (v \div 2 ^ (k + 1)) + BitOf(v, k)
         /\ v % 2 ^ (k + 1) = (v % 2 ^ k) + 2 ^ k * BitOf(v, k)
<1>1. PICK P \in Nat \ {0} : P = 2 ^ k
  BY PowerPositive
<1>2. 2 ^ (k + 1) = 2 * P
  BY <1>1, PowerNext
<1>3. PICK q \in Nat, r \in 0 .. P - 1 : q = v \div P /\ r = v % P /\ v = P * q + r
  BY DivSplit, DivIsNat
<1>4. PICK h \in Nat, b \in 0 .. 1 : h = q \div 2 /\ b = q % 2 /\ q = 2 * h + b
  OBVIOUS
<1>5. BitOf(v, k) = b
  BY <1>1, <1>3, <1>4 DEF BitOf
<1>6. v \div (2 * P) = h /\ v % (2 * P) = P * b + r
  <2>1. PICK M \in Nat \ {0} : M = 2 * P
    OBVIOUS
  <2>2. PICK t : t = P * b + r
    OBVIOUS
  <2>3. t \in 0 .. M - 1
    BY <2>1, <2>2, <1>4
  <2>4. P * (2 * h + b) = M * h + P * b
    BY <2>1
  <2>5. v = M * h + t
    <3>1. PICK x \in Int, y \in Int : x = M * h /\ y = P * b
      BY ProductIsInt
    <3>2. v = x + y + r
      BY <1>3, <1>4, <2>4, <3>1
    <3>3. QED
      BY <3>1, <3>2, <2>2
  <2>6. v \div M = h /\ v % M = t
    BY <2>3, <2>5, DivOf
  <2>7. QED
    BY <2>1, <2>2, <2>6
<1>7. v \div P = 2 * (v \div (2 * P)) + b
  BY <1>3, <1>4, <1>6
<1>8. v % (2 * P) = (v % P) + P * b
  <2>1. PICK x \in Int : x = P * b
    BY ProductIsInt
  <2>2. QED
    BY <1>3, <1>6, <2>1
<1>9. b \in {0, 1}
  OBVIOUS
<1>10. QED
  BY <1>1, <1>2, <1>5, <1>7, <1>8, <1>9, Zenon

(* A bit is 0 or 1.                                                        *)
LEMMA BitIsBit ==
  ASSUME NEW v \in Nat, NEW k \in Nat
  PROVE  BitOf(v, k) \in {0, 1}
BY BitSplit

(* A number below a power of two has no bit there or above. *)
LEMMA NoHighBit ==
  ASSUME NEW v \in Nat, NEW s \in Nat, v < 2 ^ s, NEW k \in Nat, s <= k
  PROVE  BitOf(v, k) = 0
<1>1. PICK P \in Nat \ {0} : P = 2 ^ k
  BY PowerPositive
<1>2. 2 ^ s <= P /\ 2 ^ s \in Nat
  BY <1>1, PowerMonotone, PowerIsNat
<1>3. v \in 0 .. P - 1
  BY <1>2
<1>4. v \div P = 0
  BY <1>3, Small
<1>5. QED
  BY <1>1, <1>4 DEF BitOf

(* A multiple of a power of two has no bit below. *)
LEMMA NoLowBit ==
  ASSUME NEW q \in Nat, NEW s \in Nat, NEW k \in Nat, k < s
  PROVE  BitOf(2 ^ s * q, k) = 0
<1>1. PICK d \in Nat : d = s - (k + 1) /\ s = k + 1 + d
  OBVIOUS
<1>2. PICK P \in Nat \ {0}, D \in Nat \ {0} : P = 2 ^ k /\ D = 2 ^ d
  BY PowerPositive
<1>3. 2 ^ s = (2 * P) * D
  <2>1. PICK m \in Nat : m = k + 1
    OBVIOUS
  <2>2. 2 ^ m = 2 * P
    BY <1>2, <2>1, PowerNext
  <2>3. 2 ^ (m + d) = 2 ^ m * 2 ^ d
    BY PowerSum
  <2>4. m + d = s
    BY <1>1, <2>1
  <2>5. QED
    BY <2>2, <2>3, <2>4, <1>2
<1>4. PICK e \in Nat : e = D * q
  BY ProductIsNat
<1>5. ((2 * P) * D) * q = P * (2 * e) + 0
  <2>1. PICK T \in Nat : T = 2 * P
    OBVIOUS
  <2>2. (T * D) * q = T * e
    BY <1>4, Associate
  <2>3. T * e = P * (2 * e)
    BY <2>1
  <2>4. P * (2 * e) \in Int
    BY ProductIsInt
  <2>5. QED
    BY <2>1, <2>2, <2>3, <2>4
<1>6. PICK v \in Int : v = 2 ^ s * q
  BY PowerIsNat, ProductIsInt
<1>7. v = P * (2 * e) + 0
  BY <1>3, <1>5, <1>6
<1>8. v \div P = 2 * e
  BY <1>7, DivOf
<1>9. (2 * e) % 2 = 0
  OBVIOUS
<1>10. QED
  BY <1>2, <1>6, <1>8, <1>9 DEF BitOf

(* The bits of a power of two. *)
LEMMA BitOfPower ==
  ASSUME NEW s \in Nat, NEW k \in Nat
  PROVE  BitOf(2 ^ s, k) = IF k = s THEN 1 ELSE 0
<1>1. PICK P \in Nat \ {0} : P = 2 ^ s
  BY PowerPositive
<1>2. CASE k < s
  <2>1. BitOf(2 ^ s * 1, k) = 0
    BY <1>2, NoLowBit
  <2>2. 2 ^ s * 1 = 2 ^ s
    BY <1>1
  <2>3. QED
    BY <2>1, <2>2, <1>2
<1>3. CASE k > s
  <2>1. PICK t \in Nat : t = s + 1 /\ t <= k
    BY <1>3
  <2>2. 2 ^ t = 2 * P
    BY <1>1, <2>1, PowerNext
  <2>3. BitOf(P, k) = 0
    BY <2>1, <2>2, NoHighBit
  <2>4. QED
    BY <2>3, <1>1, <1>3
<1>4. CASE k = s
  <2>1. P \div P = 1
    <3>1. P = P * 1 + 0
      OBVIOUS
    <3>2. QED
      BY <3>1, DivOf
  <2>2. QED
    BY <2>1, <1>1, <1>4 DEF BitOf
<1>5. QED
  BY <1>2, <1>3, <1>4

(* The bits of what is below a power of two, all of them one. *)
LEMMA BitOfMask ==
  ASSUME NEW s \in Nat, NEW k \in Nat
  PROVE  /\ 2 ^ s - 1 \in Nat
         /\ BitOf(2 ^ s - 1, k) = IF k < s THEN 1 ELSE 0
<1>1. PICK P \in Nat \ {0} : P = 2 ^ s
  BY PowerPositive
<1>2. P - 1 \in Nat
  OBVIOUS
<1>3. CASE k >= s
  <2>1. P - 1 < 2 ^ s
    BY <1>1
  <2>2. BitOf(P - 1, k) = 0
    BY <1>2, <1>3, <2>1, NoHighBit
  <2>3. QED
    BY <2>2, <1>1, <1>2, <1>3
<1>4. CASE k < s
  <2>1. PICK K \in Nat \ {0} : K = 2 ^ k
    BY PowerPositive
  <2>2. PICK d \in Nat : d = s - (k + 1)
    BY <1>4
  <2>3. PICK D \in Nat \ {0} : D = 2 ^ d
    BY PowerPositive
  <2>4. P = K * (2 * D)
    <3>1. PICK m \in Nat : m = d + 1 /\ m = s - k
      BY <2>2
    <3>2. 2 ^ m = 2 * D
      BY <2>3, <3>1, PowerNext
    <3>3. P = K * 2 ^ m
      BY <3>1, <1>1, <2>1, <1>4, PowerMonotone
    <3>4. QED
      BY <3>2, <3>3
  <2>5. PICK q \in Nat : q = 2 * D - 1
    OBVIOUS
  <2>6. P - 1 = K * q + (K - 1)
    <3>1. K * q = K * (2 * D) - K
      BY <2>5
    <3>2. QED
      BY <3>1, <2>4
  <2>7. (P - 1) \div K = q
    BY <2>6, <1>2, DivOf
  <2>8. q % 2 = 1
    BY <2>5
  <2>9. QED
    BY <2>7, <2>8, <2>1, <1>1, <1>2, <1>4 DEF BitOf
<1>5. QED
  BY <1>3, <1>4

-----------------------------------------------------------------------------
(* Sums, and the limbs' & and |. *)

(* The recursion of SumOf has a solution. *)
LEMMA SumExists ==
  ASSUME NEW t, NEW count \in Nat
  PROVE  \E f : f = [k \in 0 .. count |-> IF k = 0 THEN 0 ELSE f[k - 1] + t[k]]
<1> DEFINE T == {n \in 0 .. count :
                   \E f : f = [k \in 0 .. n |-> IF k = 0 THEN 0 ELSE f[k - 1] + t[k]]}
<1>1. 0 \in T
  <2>1. PICK f : f = [k \in 0 .. 0 |-> 0]
    OBVIOUS
  <2>2. f = [k \in 0 .. 0 |-> IF k = 0 THEN 0 ELSE f[k - 1] + t[k]]
    BY <2>1
  <2>3. QED
    BY <2>2
<1>2. ASSUME NEW n \in 0 .. count - 1, n \in T
      PROVE  n + 1 \in T
  <2>1. PICK f : f = [k \in 0 .. n |-> IF k = 0 THEN 0 ELSE f[k - 1] + t[k]]
    BY <1>2
  <2>2. PICK g : g = [k \in 0 .. n + 1 |-> IF k = n + 1 THEN f[n] + t[k] ELSE f[k]]
    OBVIOUS
  <2>3. ASSUME NEW k \in 0 .. n + 1
        PROVE  g[k] = IF k = 0 THEN 0 ELSE g[k - 1] + t[k]
    <3>1. CASE k = n + 1
      BY <3>1, <2>2
    <3>2. CASE k = 0
      BY <3>2, <2>1, <2>2
    <3>3. CASE k \in 1 .. n
      <4>1. g[k] = f[k] /\ g[k - 1] = f[k - 1]
        BY <3>3, <2>2
      <4>2. f[k] = f[k - 1] + t[k]
        BY <3>3, <2>1
      <4>3. QED
        BY <4>1, <4>2, <3>3
    <3>4. QED
      BY <3>1, <3>2, <3>3
  <2>4. g = [k \in 0 .. n + 1 |-> IF k = 0 THEN 0 ELSE g[k - 1] + t[k]]
    BY <2>2, <2>3
  <2>5. QED
    BY <2>4
<1>3. 0 .. count \subseteq T
  <2> HIDE DEF T
  <2> QED BY <1>1, <1>2, UpTo
<1>4. QED
  BY <1>3

(* Partial sums. *)
LEMMA SumSteps ==
  ASSUME NEW t, NEW count \in Nat
  PROVE  \E f : /\ f[0] = 0
                /\ \A k \in 1 .. count : f[k] = f[k - 1] + t[k]
                /\ SumOf(t, count) = f[count]
<1>1. PICK f : f = CHOOSE sum : sum = [k \in 0 .. count |-> IF k = 0 THEN 0 ELSE sum[k - 1] + t[k]]
  OBVIOUS
<1>2. f = [k \in 0 .. count |-> IF k = 0 THEN 0 ELSE f[k - 1] + t[k]]
  <2> DEFINE Step(g) == [k \in 0 .. count |-> IF k = 0 THEN 0 ELSE g[k - 1] + t[k]]
  <2>1. \E g : g = Step(g)
    BY SumExists
  <2>2. f = CHOOSE g : g = Step(g)
    BY <1>1
  <2>3. f = Step(f)
    <3> HIDE DEF Step
    <3> QED BY <2>1, <2>2, Zenon
  <2>4. QED
    BY <2>3
<1>3. SumOf(t, count) = f[count]
  BY <1>1 DEF SumOf
<1>4. QED
  BY <1>2, <1>3

(* Terms that are all zero. *)
LEMMA SumZero ==
  ASSUME NEW t, NEW count \in Nat, \A k \in 1 .. count : t[k] = 0
  PROVE  SumOf(t, count) = 0
<1>1. PICK f : /\ f[0] = 0
               /\ \A k \in 1 .. count : f[k] = f[k - 1] + t[k]
               /\ SumOf(t, count) = f[count]
  BY SumSteps
<1> DEFINE T == {k \in 0 .. count : f[k] = 0}
<1>2. 0 \in T
  BY <1>1
<1>3. ASSUME NEW k \in 0 .. count - 1, k \in T
      PROVE  k + 1 \in T
  <2>1. k + 1 \in 1 .. count /\ (k + 1) - 1 = k
    OBVIOUS
  <2>2. f[k + 1] = f[k] + t[k + 1] /\ t[k + 1] = 0
    BY <2>1, <1>1
  <2>3. QED
    BY <2>1, <2>2, <1>3
<1>4. 0 .. count \subseteq T
  BY <1>2, <1>3, UpTo
<1>5. QED
  BY <1>1, <1>4

(* Terms that are the digits of a number, from the lowest on: any P[k]     *)
(* that divides what the first k terms leave.                              *)
LEMMA SumOfRests ==
  ASSUME NEW t, NEW count \in Nat, NEW rest,
         rest[0] = 0, \A k \in 0 .. count : rest[k] \in Nat,
         \A k \in 1 .. count : rest[k] = rest[k - 1] + t[k]
  PROVE  SumOf(t, count) = rest[count]
<1>1. PICK f : /\ f[0] = 0
               /\ \A k \in 1 .. count : f[k] = f[k - 1] + t[k]
               /\ SumOf(t, count) = f[count]
  BY SumSteps
<1> DEFINE T == {k \in 0 .. count : f[k] = rest[k]}
<1>2. 0 \in T
  BY <1>1
<1>3. ASSUME NEW k \in 0 .. count - 1, k \in T
      PROVE  k + 1 \in T
  <2>1. k + 1 \in 1 .. count /\ (k + 1) - 1 = k
    OBVIOUS
  <2>2. f[k + 1] = f[k] + t[k + 1] /\ rest[k + 1] = rest[k] + t[k + 1]
    BY <2>1, <1>1
  <2>3. QED
    BY <2>1, <2>2, <1>3
<1>4. 0 .. count \subseteq T
  BY <1>2, <1>3, UpTo
<1>5. QED
  BY <1>1, <1>4

-----------------------------------------------------------------------------

(* Numbers with no bit in common. *)
LEMMA OrDisjoint ==
  ASSUME NEW a \in Nat, NEW b \in Nat,
         \A k \in 0 .. 2 * LimbBits - 1 : BitOf(a, k) = 0 \/ BitOf(b, k) = 0
  PROVE  LimbAnd(a, b) = 0 /\ LimbOr(a, b) = a + b
<1>1. PICK count \in Nat : count = 2 * LimbBits
  BY WidthAssumption
<1>2. PICK t : t = [k \in 1 .. count |-> 2 ^ (k - 1) * (BitOf(a, k - 1) * BitOf(b, k - 1))]
  OBVIOUS
<1>3. ASSUME NEW k \in 1 .. count
      PROVE  t[k] = 0
  <2>1. PICK j \in Nat : j = k - 1 /\ j \in 0 .. count - 1
    OBVIOUS
  <2>2. BitOf(a, j) \in {0, 1} /\ BitOf(b, j) \in {0, 1}
    BY BitIsBit
  <2>3. PICK x \in {0, 1}, y \in {0, 1} : x = BitOf(a, j) /\ y = BitOf(b, j) /\ (x = 0 \/ y = 0)
    BY <2>1, <2>2, <1>1
  <2>4. t[k] = 2 ^ j * (x * y)
    BY <1>2, <2>1, <2>3
  <2>5. x * y = 0
    BY <2>3
  <2>6. 2 ^ j \in Nat
    BY PowerIsNat
  <2>7. QED
    BY <2>4, <2>5, <2>6
<1>4. SumOf(t, count) = 0
  BY <1>3, SumZero
<1>5. LimbAnd(a, b) = 0
  BY <1>1, <1>2, <1>4, Zenon DEF LimbAnd
<1>6. QED
  BY <1>5 DEF LimbOr

(* A multiple of a power of two and a number below the power. *)
LEMMA OrOfParts ==
  ASSUME NEW s \in Nat, NEW q \in Nat, NEW r \in Nat, r < 2 ^ s
  PROVE  LimbOr(2 ^ s * q, r) = 2 ^ s * q + r
<1>1. PICK a \in Nat : a = 2 ^ s * q
  BY PowerIsNat, ProductIsNat
<1>2. ASSUME NEW k \in Nat
      PROVE  BitOf(a, k) = 0 \/ BitOf(r, k) = 0
  <2>1. CASE k < s
    BY <2>1, <1>1, NoLowBit
  <2>2. CASE s <= k
    BY <2>2, NoHighBit
  <2>3. QED
    BY <2>1, <2>2
<1>3. \A k \in 0 .. 2 * LimbBits - 1 : BitOf(a, k) = 0 \/ BitOf(r, k) = 0
  BY <1>2
<1>4. LimbOr(a, r) = a + r
  BY <1>3, OrDisjoint
<1>5. QED
  BY <1>1, <1>4

(* A bit that is not there yet. *)
LEMMA OrNewBit ==
  ASSUME NEW v \in Nat, NEW b \in Nat, BitOf(v, b) = 0
  PROVE  LimbOr(v, 2 ^ b) = v + 2 ^ b
<1>1. ASSUME NEW k \in Nat
      PROVE  BitOf(v, k) = 0 \/ BitOf(2 ^ b, k) = 0
  BY BitOfPower
<1>2. \A k \in 0 .. 2 * LimbBits - 1 : BitOf(v, k) = 0 \/ BitOf(2 ^ b, k) = 0
  BY <1>1
<1>3. PICK p \in Nat : p = 2 ^ b
  BY PowerIsNat
<1>4. LimbOr(v, p) = v + p
  BY <1>2, <1>3, OrDisjoint
<1>5. QED
  BY <1>3, <1>4

(* The lowest bits of a limb. *)
LEMMA AndMask ==
  ASSUME NEW v \in 0 .. Limb - 1, NEW b \in 0 .. LimbBits
  PROVE  LimbAnd(v, 2 ^ b - 1) = v % 2 ^ b
<1>0. LimbBits \in Nat /\ v \in Nat /\ v < 2 ^ LimbBits
  BY WidthAssumption, PowerIsNat DEF Limb
<1>1. PICK count \in Nat : count = 2 * LimbBits
  BY <1>0
<1>2. PICK m \in Nat : m = 2 ^ b - 1 /\ \A k \in Nat : BitOf(m, k) = IF k < b THEN 1 ELSE 0
  BY BitOfMask
<1>3. PICK t : t = [k \in 1 .. count |-> 2 ^ (k - 1) * (BitOf(v, k - 1) * BitOf(m, k - 1))]
  OBVIOUS
<1>4. PICK rest : rest = [k \in 0 .. count |-> IF k < b THEN v % 2 ^ k ELSE v % 2 ^ b]
  OBVIOUS
<1>5. ASSUME NEW k \in 1 .. count
      PROVE  rest[k] = rest[k - 1] + t[k]
  <2>1. PICK j \in Nat : j = k - 1 /\ j + 1 = k /\ j \in 0 .. count - 1
    OBVIOUS
  <2>2. PICK x \in {0, 1} : x = BitOf(v, j)
    BY <1>0, BitIsBit
  <2>3. PICK p \in Nat \ {0} : p = 2 ^ j
    BY PowerPositive
  <2>4. CASE j < b
    <3>1. rest[k] = v % 2 ^ (j + 1)
      BY <2>1, <2>4, <1>4
    <3>2. rest[k - 1] = v % 2 ^ j
      BY <2>1, <2>4, <1>4
    <3>3. t[k] = p * (x * 1)
      BY <1>2, <1>3, <2>1, <2>2, <2>3, <2>4
    <3>4. v % 2 ^ (j + 1) = (v % 2 ^ j) + p * x
      BY <1>0, <2>2, <2>3, BitSplit
    <3>5. x * 1 = x
      OBVIOUS
    <3>6. QED
      BY <3>1, <3>2, <3>3, <3>4, <3>5
  <2>5. CASE ~(j < b)
    <3>1. rest[k] = v % 2 ^ b /\ rest[k - 1] = v % 2 ^ b
      BY <2>1, <2>5, <1>4
    <3>2. t[k] = p * (x * 0)
      BY <1>2, <1>3, <2>1, <2>2, <2>3, <2>5
    <3>3. p * (x * 0) = 0
      OBVIOUS
    <3>4. v % 2 ^ b \in Nat
      BY <1>0, DivSplit, PowerPositive
    <3>5. QED
      BY <3>1, <3>2, <3>3, <3>4
  <2>6. QED
    BY <2>4, <2>5
<1>6. rest[0] = 0 /\ rest[count] = v % 2 ^ b /\ \A k \in 0 .. count : rest[k] \in Nat
  <2>1. v % 2 ^ 0 = 0
    BY <1>0, PowerZero
  <2>2. ASSUME NEW k \in Nat
        PROVE  v % 2 ^ k \in Nat
    BY <1>0, DivSplit, PowerPositive
  <2>3. count >= b
    BY <1>0, <1>1
  <2>4. rest[0] = v % 2 ^ 0
    <3>1. CASE b = 0
      BY <3>1, <1>4
    <3>2. CASE b # 0
      BY <3>2, <1>4
    <3>3. QED
      BY <3>1, <3>2
  <2>5. rest[count] = v % 2 ^ b
    BY <1>4, <2>3
  <2>6. QED
    BY <2>1, <2>2, <2>4, <2>5, <1>4
<1>7. SumOf(t, count) = rest[count]
  BY <1>5, <1>6, SumOfRests
<1>8. LimbAnd(v, m) = SumOf(t, count)
  BY <1>1, <1>3, Zenon DEF LimbAnd
<1>9. QED
  BY <1>2, <1>6, <1>7, <1>8

-----------------------------------------------------------------------------
(* Limbs and the numbers they stand for. *)

(* The widths as numbers.                                                  *)
LEMMA LimbFacts ==
  /\ LimbBits \in Nat \ {0} /\ bit_width_v \in Nat \ {0}
  /\ Limb \in Nat \ {0} /\ Limb >= 2
  /\ DoubleLimb = Limb * Limb
  /\ Modulus = Limb * (Limb * (Limb * Limb))
  /\ Modulus \in Nat \ {0}
<1>1. PICK m \in Nat \ {0} : m = LimbBits
  BY WidthAssumption
<1>2. PICK L \in Nat \ {0} : L = 2 ^ m
  BY PowerPositive
<1>3. L >= 2
  <2>1. 2 ^ 0 = 1 /\ 0 < m
    BY PowerZero, <1>1
  <2>2. 2 * 2 ^ 0 <= 2 ^ m
    BY <2>1, PowerStrict
  <2>3. QED
    BY <2>1, <2>2, <1>2
<1>4. bit_width_v = m + (m + (m + m))
  BY <1>1 DEF bit_width_v, limb_count
<1>5. 2 ^ (m + (m + (m + m))) = L * (L * (L * L))
  <2>1. 2 ^ (m + m) = L * L
    BY <1>2, PowerSum
  <2>2. 2 ^ (m + (m + m)) = L * (L * L)
    <3>1. PICK k \in Nat : k = m + m
      OBVIOUS
    <3>2. 2 ^ (m + k) = 2 ^ m * 2 ^ k
      BY PowerSum
    <3>3. QED
      BY <3>1, <3>2, <2>1, <1>2
  <2>3. PICK k \in Nat : k = m + (m + m)
    OBVIOUS
  <2>4. 2 ^ (m + k) = 2 ^ m * 2 ^ k
    BY PowerSum
  <2>5. QED
    BY <2>3, <2>4, <2>2, <1>2
<1>6. L * (L * (L * L)) \in Nat \ {0}
  BY ProductPositive
<1>7. Modulus = L * (L * (L * L))
  BY <1>4, <1>5 DEF Modulus
<1>8. Limb = L
  BY <1>1, <1>2 DEF Limb
<1>9. bit_width_v \in Nat \ {0}
  BY <1>4
<1>10. QED
  BY <1>1, <1>3, <1>6, <1>7, <1>8, <1>9 DEF DoubleLimb

(* Each limb is below the limb's modulus.                                  *)
LEMMA LimbsOf ==
  ASSUME NEW x \in uint256
  PROVE  /\ x[0] \in 0 .. Limb - 1 /\ x[1] \in 0 .. Limb - 1
         /\ x[2] \in 0 .. Limb - 1 /\ x[3] \in 0 .. Limb - 1
BY DEF uint256, Indices, limb_count

(* Four equal limbs make equal numbers.                                    *)
LEMMA LimbsEqual ==
  ASSUME NEW x \in uint256, NEW y \in uint256,
         x[0] = y[0], x[1] = y[1], x[2] = y[2], x[3] = y[3]
  PROVE  x = y
BY DEF uint256, Indices, limb_count

(* Four limbs make a number.                                               *)
LEMMA IsLimbs ==
  ASSUME NEW f, f = [i \in Indices |-> f[i]],
         f[0] \in 0 .. Limb - 1, f[1] \in 0 .. Limb - 1,
         f[2] \in 0 .. Limb - 1, f[3] \in 0 .. Limb - 1
  PROVE  f \in uint256
BY DEF uint256, Indices, limb_count

(* One digit below the others. *)
LEMMA HornerRange ==
  ASSUME NEW L \in Nat \ {0}, NEW M \in Nat \ {0},
         NEW x \in 0 .. L - 1, NEW X \in 0 .. M - 1
  PROVE  /\ x + L * X \in 0 .. L * M - 1
         /\ (x + L * X) \div L = X /\ (x + L * X) % L = x
<1>1. PICK p \in Nat : p = L * X
  BY ProductIsNat
<1>2. PICK u \in Nat : X + u = M - 1
  OBVIOUS
<1>3. L * (X + u) = L * X + L * u /\ L * (M - 1) = L * M - L
  OBVIOUS
<1>4. L * u \in Nat /\ L * M \in Nat
  BY ProductIsNat
<1>5. x + p \in 0 .. L * M - 1
  BY <1>1, <1>2, <1>3, <1>4
<1>6. (x + p) \div L = X /\ (x + p) % L = x
  BY <1>1, DivOf
<1>7. QED
  BY <1>1, <1>5, <1>6

(* Numbers of two digits compare by the upper digit first.                 *)
LEMMA HornerLess ==
  ASSUME NEW L \in Nat \ {0}, NEW x \in 0 .. L - 1, NEW y \in 0 .. L - 1,
         NEW X \in Nat, NEW Y \in Nat
  PROVE  x + L * X < y + L * Y <=> X < Y \/ (X = Y /\ x < y)
<1>1. PICK p \in Nat, q \in Nat : p = L * X /\ q = L * Y
  BY ProductIsNat
<1>2. CASE X = Y
  BY <1>1, <1>2
<1>3. CASE X < Y
  <2>1. PICK d \in Nat : Y = X + 1 + d
    BY <1>3
  <2>2. q = p + L + L * d
    BY <2>1, <1>1
  <2>3. L * d \in Nat
    BY ProductIsNat
  <2>4. QED
    BY <2>2, <2>3, <1>1, <1>3
<1>4. CASE Y < X
  <2>1. PICK d \in Nat : X = Y + 1 + d
    BY <1>4
  <2>2. p = q + L + L * d
    BY <2>1, <1>1
  <2>3. L * d \in Nat
    BY ProductIsNat
  <2>4. QED
    BY <2>2, <2>3, <1>1, <1>4
<1>5. QED
  BY <1>2, <1>3, <1>4

(* The digits of a number are unique.                                      *)
LEMMA HornerDigits ==
  ASSUME NEW L \in Nat \ {0}, NEW x \in 0 .. L - 1, NEW y \in 0 .. L - 1,
         NEW X \in Nat, NEW Y \in Nat, x + L * X = y + L * Y
  PROVE  x = y /\ X = Y
<1>1. PICK v \in Nat : v = x + L * X /\ v = y + L * Y
  <2>1. L * X \in Nat
    BY ProductIsNat
  <2>2. QED
    BY <2>1
<1>2. v = L * X + x /\ v = L * Y + y
  BY <1>1
<1>3. v % L = x /\ v \div L = X
  BY <1>2, DivOf
<1>4. v % L = y /\ v \div L = Y
  BY <1>2, DivOf
<1>5. QED
  BY <1>3, <1>4

(* The number, digit by digit. *)
LEMMA ValueRests ==
  ASSUME NEW x \in uint256
  PROVE  \E x1, x2 \in Nat :
           /\ x2 = x[2] + Limb * x[3] /\ x2 \in 0 .. Limb * Limb - 1
           /\ x1 = x[1] + Limb * x2 /\ x1 \in 0 .. Limb * (Limb * Limb) - 1
           /\ Value(x) = x[0] + Limb * x1 /\ Value(x) \in 0 .. Modulus - 1
<1>1. PICK L \in Nat \ {0} : L = Limb /\ Modulus = L * (L * (L * L))
  BY LimbFacts
<1>2. x[0] \in 0 .. L - 1 /\ x[1] \in 0 .. L - 1 /\ x[2] \in 0 .. L - 1 /\ x[3] \in 0 .. L - 1
  BY <1>1, LimbsOf
<1>3. PICK LL \in Nat \ {0}, LLL \in Nat \ {0} : LL = L * L /\ LLL = L * LL
  BY ProductPositive
<1>4. PICK x2 \in Nat : x2 = x[2] + L * x[3] /\ x2 \in 0 .. LL - 1
  <2>1. x[2] + L * x[3] \in 0 .. L * L - 1
    BY <1>2, HornerRange
  <2>2. QED
    BY <2>1, <1>3
<1>5. PICK x1 \in Nat : x1 = x[1] + L * x2 /\ x1 \in 0 .. LLL - 1
  <2>1. x[1] + L * x2 \in 0 .. L * LL - 1
    BY <1>2, <1>4, HornerRange
  <2>2. QED
    BY <2>1, <1>3
<1>6. x[0] + L * x1 \in 0 .. L * LLL - 1
  BY <1>2, <1>5, HornerRange
<1>7. Value(x) = x[0] + L * x1
  BY <1>1, <1>4, <1>5, Zenon DEF Value
<1>8. QED
  BY <1>1, <1>3, <1>4, <1>5, <1>6, <1>7, Zenon

(* The number an array stands for is below 2^256.                          *)
LEMMA ValueRange ==
  ASSUME NEW x \in uint256
  PROVE  Value(x) \in 0 .. Modulus - 1 /\ Value(x) \in Nat
<1>1. Value(x) \in 0 .. Modulus - 1
  BY ValueRests
<1>2. QED
  BY <1>1, LimbFacts

(* Four digits compare from the top, and are unique.                       *)
LEMMA Four ==
  ASSUME NEW L \in Nat \ {0},
         NEW x0 \in 0 .. L - 1, NEW x1 \in 0 .. L - 1, NEW x2 \in 0 .. L - 1, NEW x3 \in 0 .. L - 1,
         NEW y0 \in 0 .. L - 1, NEW y1 \in 0 .. L - 1, NEW y2 \in 0 .. L - 1, NEW y3 \in 0 .. L - 1
  PROVE  /\ x0 + L * (x1 + L * (x2 + L * x3)) < y0 + L * (y1 + L * (y2 + L * y3)) <=>
              \/ x3 < y3
              \/ x3 = y3 /\ x2 < y2
              \/ x3 = y3 /\ x2 = y2 /\ x1 < y1
              \/ x3 = y3 /\ x2 = y2 /\ x1 = y1 /\ x0 < y0
         /\ x0 + L * (x1 + L * (x2 + L * x3)) = y0 + L * (y1 + L * (y2 + L * y3)) =>
              x0 = y0 /\ x1 = y1 /\ x2 = y2 /\ x3 = y3
<1>1. x3 \in Nat /\ y3 \in Nat
  OBVIOUS
<1>2. PICK X2 \in Nat, Y2 \in Nat : X2 = x2 + L * x3 /\ Y2 = y2 + L * y3
  BY ProductIsNat
<1>3. PICK X1 \in Nat, Y1 \in Nat : X1 = x1 + L * X2 /\ Y1 = y1 + L * Y2
  BY ProductIsNat
<1>4. x2 + L * x3 < y2 + L * y3 <=> x3 < y3 \/ (x3 = y3 /\ x2 < y2)
  BY <1>1, HornerLess
<1>5. x1 + L * X2 < y1 + L * Y2 <=> X2 < Y2 \/ (X2 = Y2 /\ x1 < y1)
  BY <1>2, <1>3, HornerLess
<1>6. x0 + L * X1 < y0 + L * Y1 <=> X1 < Y1 \/ (X1 = Y1 /\ x0 < y0)
  BY <1>2, <1>3, HornerLess
<1>7. x2 + L * x3 = y2 + L * y3 => x2 = y2 /\ x3 = y3
  BY <1>1, HornerDigits
<1>8. x1 + L * X2 = y1 + L * Y2 => x1 = y1 /\ X2 = Y2
  BY <1>2, <1>3, HornerDigits
<1>9. x0 + L * X1 = y0 + L * Y1 => x0 = y0 /\ X1 = Y1
  BY <1>2, <1>3, HornerDigits
<1>10. X2 < Y2 <=> x3 < y3 \/ (x3 = y3 /\ x2 < y2)
  BY <1>2, <1>4, Zenon
<1>11. X2 = Y2 <=> x3 = y3 /\ x2 = y2
  BY <1>2, <1>7, Zenon
<1>12. X1 < Y1 <=> X2 < Y2 \/ (X2 = Y2 /\ x1 < y1)
  BY <1>3, <1>5, Zenon
<1>13. X1 = Y1 <=> X2 = Y2 /\ x1 = y1
  BY <1>3, <1>8, Zenon
<1>14. /\ x0 + L * (x1 + L * (x2 + L * x3)) = x0 + L * X1
       /\ y0 + L * (y1 + L * (y2 + L * y3)) = y0 + L * Y1
  BY <1>2, <1>3, Zenon
<1>15. x0 + L * X1 = y0 + L * Y1 => x0 = y0 /\ x1 = y1 /\ x2 = y2 /\ x3 = y3
  BY <1>9, <1>11, <1>13, Zenon
<1>16. x0 + L * X1 < y0 + L * Y1 <=>
              \/ x3 < y3
              \/ x3 = y3 /\ x2 < y2
              \/ x3 = y3 /\ x2 = y2 /\ x1 < y1
              \/ x3 = y3 /\ x2 = y2 /\ x1 = y1 /\ x0 < y0
  BY <1>6, <1>10, <1>11, <1>12, <1>13, Zenon
<1>17. QED
  BY <1>14, <1>15, <1>16, Zenon

(* The order of the numbers in terms of their limbs.                       *)
LEMMA LimbOrder ==
  ASSUME NEW a \in uint256, NEW b \in uint256
  PROVE  /\ Value(a) < Value(b) <=>
              \/ a[3] < b[3]
              \/ a[3] = b[3] /\ a[2] < b[2]
              \/ a[3] = b[3] /\ a[2] = b[2] /\ a[1] < b[1]
              \/ a[3] = b[3] /\ a[2] = b[2] /\ a[1] = b[1] /\ a[0] < b[0]
         /\ Value(a) = Value(b) => a[0] = b[0] /\ a[1] = b[1] /\ a[2] = b[2] /\ a[3] = b[3]
<1>1. PICK L \in Nat \ {0} : L = Limb
  BY LimbFacts
<1>2. PICK x0 \in 0 .. L - 1, x1 \in 0 .. L - 1, x2 \in 0 .. L - 1, x3 \in 0 .. L - 1 :
        x0 = a[0] /\ x1 = a[1] /\ x2 = a[2] /\ x3 = a[3]
  BY <1>1, LimbsOf
<1>3. PICK y0 \in 0 .. L - 1, y1 \in 0 .. L - 1, y2 \in 0 .. L - 1, y3 \in 0 .. L - 1 :
        y0 = b[0] /\ y1 = b[1] /\ y2 = b[2] /\ y3 = b[3]
  BY <1>1, LimbsOf
<1>4. /\ Value(a) = x0 + L * (x1 + L * (x2 + L * x3))
      /\ Value(b) = y0 + L * (y1 + L * (y2 + L * y3))
  BY <1>1, <1>2, <1>3, Zenon DEF Value
<1>a. /\ L \in Nat \ {0}
      /\ x0 \in 0 .. L - 1 /\ x1 \in 0 .. L - 1 /\ x2 \in 0 .. L - 1 /\ x3 \in 0 .. L - 1
      /\ y0 \in 0 .. L - 1 /\ y1 \in 0 .. L - 1 /\ y2 \in 0 .. L - 1 /\ y3 \in 0 .. L - 1
  BY <1>1, <1>2, <1>3
<1> DEFINE A == x0 + L * (x1 + L * (x2 + L * x3))
           B == y0 + L * (y1 + L * (y2 + L * y3))
<1>5. /\ A < B <=>
              \/ x3 < y3
              \/ x3 = y3 /\ x2 < y2
              \/ x3 = y3 /\ x2 = y2 /\ x1 < y1
              \/ x3 = y3 /\ x2 = y2 /\ x1 = y1 /\ x0 < y0
      /\ A = B => x0 = y0 /\ x1 = y1 /\ x2 = y2 /\ x3 = y3
  BY <1>a, Four, SMTT(40)
<1> HIDE DEF A, B
<1>6. Value(a) = A /\ Value(b) = B
  BY <1>4 DEF A, B
<1>7. QED
  BY <1>2, <1>3, <1>5, <1>6, Zenon

(* operator< orders the arrays as their numbers.                           *)
LEMMA Uint256LessThan ==
  ASSUME NEW a \in uint256, NEW b \in uint256
  PROVE  LessThan(a, b) <=> Value(a) < Value(b)
<1>3. Value(a) < Value(b) <=>
         \/ a[3] < b[3]
         \/ a[3] = b[3] /\ a[2] < b[2]
         \/ a[3] = b[3] /\ a[2] = b[2] /\ a[1] < b[1]
         \/ a[3] = b[3] /\ a[2] = b[2] /\ a[1] = b[1] /\ a[0] < b[0]
  BY LimbOrder, Zenon
<1>4. LessThan(a, b) <=>
         \/ a[3] < b[3]
         \/ a[3] = b[3] /\ a[2] < b[2]
         \/ a[3] = b[3] /\ a[2] = b[2] /\ a[1] < b[1]
         \/ a[3] = b[3] /\ a[2] = b[2] /\ a[1] = b[1] /\ a[0] < b[0]
  BY DEF LessThan, Indices, limb_count
<1>5. QED
  BY <1>3, <1>4, Zenon

(* A number has one array.                                                 *)
LEMMA ValueDetermines ==
  ASSUME NEW a \in uint256, NEW b \in uint256, Value(a) = Value(b)
  PROVE  a = b
BY LimbOrder, LimbsEqual

-----------------------------------------------------------------------------
(* Addition and subtraction. *)

(* One limb more of a sum with its carries.                                *)
LEMMA HornerStep ==
  ASSUME NEW L \in Int, NEW x \in Int, NEW y \in Int, NEW c \in Int,
         NEW l \in Int, NEW e \in Int, NEW X \in Int, NEW Y \in Int,
         NEW Z \in Int, NEW t \in Int,
         x + y + c = l + L * e, X + Y + e = Z + t
  PROVE  (x + L * X) + (y + L * Y) + c = (l + L * Z) + L * t
<1>1. L * (X + Y + e) = L * (Z + t)
  OBVIOUS
<1>2. L * (X + Y + e) = L * X + L * Y + L * e /\ L * (Z + t) = L * Z + L * t
  OBVIOUS
<1>3. L * X \in Int /\ L * Y \in Int /\ L * e \in Int /\ L * Z \in Int /\ L * t \in Int
  OBVIOUS
<1>4. PICK p, q, r, z, u \in Int : p = L * X /\ q = L * Y /\ r = L * e /\ z = L * Z /\ u = L * t
  BY <1>3
<1>5. p + q + r = z + u /\ x + y + c = l + r
  BY <1>1, <1>2, <1>4
<1>6. (x + p) + (y + q) + c = (l + z) + u
  BY <1>5
<1>7. QED
  BY <1>4, <1>6

(* Limbwise sums whose carries chain are sums of the numbers.              *)
LEMMA ValueSum ==
  ASSUME NEW x \in uint256, NEW y \in uint256, NEW z \in uint256, NEW e \in [1 .. 4 -> Int],
         x[0] + y[0] + 0 = z[0] + Limb * e[1],
         x[1] + y[1] + e[1] = z[1] + Limb * e[2],
         x[2] + y[2] + e[2] = z[2] + Limb * e[3],
         x[3] + y[3] + e[3] = z[3] + Limb * e[4]
  PROVE  Value(x) + Value(y) = Value(z) + Modulus * e[4]
<1>1. PICK L \in Int : L = Limb /\ Modulus = L * (L * (L * L))
  BY LimbFacts
<1>2. PICK x0 \in Int, x1 \in Int, x2 \in Int, x3 \in Int :
        x0 = x[0] /\ x1 = x[1] /\ x2 = x[2] /\ x3 = x[3]
  BY LimbsOf, SMTT(40)
<1>3. PICK y0 \in Int, y1 \in Int, y2 \in Int, y3 \in Int :
        y0 = y[0] /\ y1 = y[1] /\ y2 = y[2] /\ y3 = y[3]
  BY LimbsOf, SMTT(40)
<1>4. PICK l0 \in Int, l1 \in Int, l2 \in Int, l3 \in Int :
        l0 = z[0] /\ l1 = z[1] /\ l2 = z[2] /\ l3 = z[3]
  BY LimbsOf, SMTT(40)
<1>a. PICK e1 \in Int, e2 \in Int, e3 \in Int, e4 \in Int :
        e1 = e[1] /\ e2 = e[2] /\ e3 = e[3] /\ e4 = e[4]
  OBVIOUS
<1>b. /\ x0 + y0 + 0 = l0 + L * e1 /\ x1 + y1 + e1 = l1 + L * e2
      /\ x2 + y2 + e2 = l2 + L * e3 /\ x3 + y3 + e3 = l3 + L * e4
  BY <1>1, <1>2, <1>3, <1>4, <1>a, Zenon
<1>c. /\ x0 \in Int /\ x1 \in Int /\ x2 \in Int /\ x3 \in Int
      /\ y0 \in Int /\ y1 \in Int /\ y2 \in Int /\ y3 \in Int
      /\ l0 \in Int /\ l1 \in Int /\ l2 \in Int /\ l3 \in Int
      /\ e1 \in Int /\ e2 \in Int /\ e3 \in Int /\ e4 \in Int /\ L \in Int
  BY <1>1, <1>2, <1>3, <1>4, <1>a
<1>5. PICK t4 \in Int : t4 = L * e4
  BY <1>c
<1>6. PICK X2 \in Int, Y2 \in Int, Z2 \in Int : X2 = x2 + L * x3 /\ Y2 = y2 + L * y3 /\ Z2 = l2 + L * l3
  BY <1>b, <1>c, ProductIsInt
<1>7. PICK X1 \in Int, Y1 \in Int, Z1 \in Int : X1 = x1 + L * X2 /\ Y1 = y1 + L * Y2 /\ Z1 = l1 + L * Z2
  BY <1>b, <1>c, ProductIsInt, <1>6
<1>8. PICK X0 \in Int, Y0 \in Int, Z0 \in Int : X0 = x0 + L * X1 /\ Y0 = y0 + L * Y1 /\ Z0 = l0 + L * Z1
  BY <1>b, <1>c, ProductIsInt, <1>7
<1>9. PICK t3 \in Int, t2 \in Int, t1 \in Int : t3 = L * t4 /\ t2 = L * t3 /\ t1 = L * t2
  <2>1. PICK t3 \in Int : t3 = L * t4
    BY <1>b, <1>c, <1>5, ProductIsInt
  <2>2. PICK t2 \in Int : t2 = L * t3
    BY <1>b, <1>c, <2>1, ProductIsInt
  <2>3. PICK t1 \in Int : t1 = L * t2
    BY <1>b, <1>c, <2>2, ProductIsInt
  <2>4. QED
    BY <1>b, <1>c, <2>1, <2>2, <2>3
<1>10. x3 + y3 + e3 = l3 + t4
  BY <1>b, <1>c, <1>5
<1>11. X2 + Y2 + e2 = Z2 + t3
  <2>1. (x2 + L * x3) + (y2 + L * y3) + e2 = (l2 + L * l3) + L * t4
    BY <1>b, <1>c, <1>10, HornerStep
  <2>2. QED
    BY <1>b, <1>c, <2>1, <1>6, <1>9
<1>12. X1 + Y1 + e1 = Z1 + t2
  <2>1. (x1 + L * X2) + (y1 + L * Y2) + e1 = (l1 + L * Z2) + L * t3
    BY <1>b, <1>c, <1>11, HornerStep
  <2>2. QED
    BY <1>b, <1>c, <2>1, <1>7, <1>9
<1>13. X0 + Y0 + 0 = Z0 + t1
  <2>1. (x0 + L * X1) + (y0 + L * Y1) + 0 = (l0 + L * Z1) + L * t2
    BY <1>b, <1>c, <1>12, HornerStep
  <2>2. QED
    BY <1>b, <1>c, <2>1, <1>8, <1>9
<1>14. t1 = (L * (L * (L * L))) * e4
  BY <1>b, <1>c, <1>5, <1>9
<1>15. X0 + Y0 = Z0 + (L * (L * (L * L))) * e4
  BY <1>b, <1>c, <1>13, <1>14
<1>16. /\ Value(x) = X0 /\ Value(y) = Y0 /\ Value(z) = Z0
  BY <1>1, <1>2, <1>3, <1>4, <1>6, <1>7, <1>8, Zenon DEF Value
<1>17. QED
  BY <1>1, <1>a, <1>15, <1>16, Zenon

(* What the loop of operator+= leaves in each turn.                        *)
LEMMA PlusSteps ==
  ASSUME NEW a, NEW b
  PROVE  \E s : /\ s[0] = add_carry(a[0], b[0], 0)
                /\ s[1] = add_carry(a[1], b[1], s[0].carry)
                /\ s[2] = add_carry(a[2], b[2], s[1].carry)
                /\ s[3] = add_carry(a[3], b[3], s[2].carry)
                /\ Plus(a, b) = [i \in Indices |-> s[i].limb]
<1> DEFINE Step(g) == [i \in Indices |-> add_carry(a[i], b[i], IF i = 0 THEN 0 ELSE g[i - 1].carry)]
<1>1. PICK s0, s1, s2, s3 :
        /\ s0 = add_carry(a[0], b[0], 0)
        /\ s1 = add_carry(a[1], b[1], s0.carry)
        /\ s2 = add_carry(a[2], b[2], s1.carry)
        /\ s3 = add_carry(a[3], b[3], s2.carry)
  OBVIOUS
<1>2. PICK g : g = [i \in Indices |->
                      IF i = 0 THEN s0 ELSE IF i = 1 THEN s1 ELSE IF i = 2 THEN s2 ELSE s3]
  OBVIOUS
<1>3. g = Step(g)
  BY <1>1, <1>2 DEF Indices, limb_count
<1>4. PICK s : s = CHOOSE x : x = Step(x)
  OBVIOUS
<1>5. s = Step(s)
  <2> HIDE DEF Step
  <2> QED BY <1>3, <1>4, Zenon
<1>6. Plus(a, b) = [i \in Indices |-> s[i].limb]
  BY <1>4 DEF Plus
<1>7. QED
  BY <1>5, <1>6 DEF Indices, limb_count

(* What the loop of operator-= leaves in each turn.                        *)
LEMMA MinusSteps ==
  ASSUME NEW a, NEW b
  PROVE  \E s : /\ s[0] = sub_borrow(a[0], b[0], 0)
                /\ s[1] = sub_borrow(a[1], b[1], s[0].borrow)
                /\ s[2] = sub_borrow(a[2], b[2], s[1].borrow)
                /\ s[3] = sub_borrow(a[3], b[3], s[2].borrow)
                /\ Minus(a, b) = [i \in Indices |-> s[i].limb]
<1> DEFINE Step(g) == [i \in Indices |-> sub_borrow(a[i], b[i], IF i = 0 THEN 0 ELSE g[i - 1].borrow)]
<1>1. PICK s0, s1, s2, s3 :
        /\ s0 = sub_borrow(a[0], b[0], 0)
        /\ s1 = sub_borrow(a[1], b[1], s0.borrow)
        /\ s2 = sub_borrow(a[2], b[2], s1.borrow)
        /\ s3 = sub_borrow(a[3], b[3], s2.borrow)
  OBVIOUS
<1>2. PICK g : g = [i \in Indices |->
                      IF i = 0 THEN s0 ELSE IF i = 1 THEN s1 ELSE IF i = 2 THEN s2 ELSE s3]
  OBVIOUS
<1>3. g = Step(g)
  BY <1>1, <1>2 DEF Indices, limb_count
<1>4. PICK s : s = CHOOSE x : x = Step(x)
  OBVIOUS
<1>5. s = Step(s)
  <2> HIDE DEF Step
  <2> QED BY <1>3, <1>4, Zenon
<1>6. Minus(a, b) = [i \in Indices |-> s[i].limb]
  BY <1>4 DEF Minus
<1>7. QED
  BY <1>5, <1>6 DEF Indices, limb_count

(* add_carry splits the sum into a limb and a carry.                       *)
LEMMA AddCarry ==
  ASSUME NEW x \in 0 .. Limb - 1, NEW y \in 0 .. Limb - 1, NEW c \in 0 .. 1
  PROVE  /\ add_carry(x, y, c).limb \in 0 .. Limb - 1
         /\ add_carry(x, y, c).carry \in 0 .. 1
         /\ x + y + c = add_carry(x, y, c).limb + Limb * add_carry(x, y, c).carry
<1>1. PICK L \in Nat : L = Limb /\ L >= 2
  BY LimbFacts
<1>2. PICK D \in Nat \ {0} : D = L * L /\ D = DoubleLimb
  BY <1>1, LimbFacts, ProductPositive
<1>3. PICK v \in Nat : v = x + y + c
  BY <1>1
<1>4. v < 2 * L
  BY <1>1, <1>3
<1>5. 2 * L <= D
  <2>1. L * 2 <= L * L
    BY <1>1, ProductAtMost
  <2>2. QED
    BY <2>1, <1>1, <1>2
<1>6. v % D = v
  <2>1. v \in 0 .. D - 1
    BY <1>4, <1>5
  <2>2. QED
    BY <2>1, Small
<1>7. add_carry(x, y, c) = [limb |-> v % L, carry |-> v \div L]
  BY <1>1, <1>2, <1>3, <1>6 DEF add_carry
<1>8. PICK q \in Int, r \in 0 .. L - 1 : q = v \div L /\ r = v % L /\ v = L * q + r
  BY <1>1, DivSplit
<1>9. q \in 0 .. 1
  <2>1. v < L * 2
    BY <1>4
  <2>2. v \div L \in 0 .. 2 - 1
    BY <2>1, <1>1, DivBelow
  <2>3. QED
    BY <2>2, <1>8
<1>10. add_carry(x, y, c).limb = r /\ add_carry(x, y, c).carry = q
  BY <1>7, <1>8
<1>11. PICK p \in Int : p = L * q
  BY ProductIsInt
<1>12. v = r + p
  BY <1>8, <1>11
<1>13. QED
  BY <1>1, <1>3, <1>8, <1>9, <1>10, <1>11, <1>12

(* sub_borrow splits the difference into a limb and a borrow.              *)
LEMMA SubBorrow ==
  ASSUME NEW x \in 0 .. Limb - 1, NEW y \in 0 .. Limb - 1, NEW c \in 0 .. 1
  PROVE  /\ sub_borrow(x, y, c).limb \in 0 .. Limb - 1
         /\ sub_borrow(x, y, c).borrow \in 0 .. 1
         /\ x - y - c = sub_borrow(x, y, c).limb - Limb * sub_borrow(x, y, c).borrow
<1>1. PICK L \in Nat : L = Limb /\ L >= 2
  BY LimbFacts
<1>2. PICK D \in Nat \ {0} : D = L * L /\ D = DoubleLimb
  BY <1>1, LimbFacts, ProductPositive
<1>3. PICK v \in Nat : v = y + c
  BY <1>1
<1>4. v <= L
  BY <1>1, <1>3
<1>5. 2 * L <= D
  <2>1. L * 2 <= L * L
    BY <1>1, ProductAtMost
  <2>2. QED
    BY <2>1, <1>1, <1>2
<1>6. v % D = v
  <2>1. v \in 0 .. D - 1
    BY <1>1, <1>4, <1>5
  <2>2. QED
    BY <2>1, Small
<1>7. sub_borrow(x, y, c) = [limb |-> (x - v) % L, borrow |-> IF x < v THEN 1 ELSE 0]
  BY <1>1, <1>2, <1>3, <1>6 DEF sub_borrow
<1>8. CASE x < v
  <2>1. x - v = L * (-1) + (x - v + L) /\ x - v + L \in 0 .. L - 1 /\ x - v \in Int
    BY <1>1, <1>4, <1>8
  <2>2. PICK u \in 0 .. L - 1 : u = x - v + L
    BY <2>1
  <2>3. PICK z \in Int : z = x - v /\ z = L * (-1) + u
    BY <2>1, <2>2
  <2>4. z % L = u
    BY <2>3, <1>1, DivOf
  <2>5. sub_borrow(x, y, c) = [limb |-> u, borrow |-> 1]
    BY <2>3, <2>4, <1>7, <1>8
  <2>6. QED
    BY <2>5, <2>2, <1>1, <1>3
<1>9. CASE ~(x < v)
  <2>1. PICK z \in 0 .. L - 1 : z = x - v
    BY <1>1, <1>9, <1>3
  <2>2. z % L = z
    BY <2>1, <1>1, Small
  <2>3. sub_borrow(x, y, c) = [limb |-> z, borrow |-> 0]
    BY <2>1, <2>2, <1>7, <1>9
  <2>4. QED
    BY <2>3, <2>1, <1>1, <1>3
<1>10. QED
  BY <1>8, <1>9

(* So does each turn of the addition.                                      *)
LEMMA AddCarryStep ==
  ASSUME NEW x \in 0 .. Limb - 1, NEW y \in 0 .. Limb - 1, NEW c \in 0 .. 1,
         NEW s, s = add_carry(x, y, c)
  PROVE  s.limb \in 0 .. Limb - 1 /\ s.carry \in 0 .. 1 /\ x + y + c = s.limb + Limb * s.carry
BY AddCarry, Zenon

(* So does each turn of the subtraction.                                   *)
LEMMA SubBorrowStep ==
  ASSUME NEW x \in 0 .. Limb - 1, NEW y \in 0 .. Limb - 1, NEW c \in 0 .. 1,
         NEW s, s = sub_borrow(x, y, c)
  PROVE  /\ s.limb \in 0 .. Limb - 1 /\ s.borrow \in 0 .. 1
         /\ s.limb + y + c = x + Limb * s.borrow
<1>1. /\ s.limb \in 0 .. Limb - 1 /\ s.borrow \in 0 .. 1
      /\ x - y - c = s.limb - Limb * s.borrow
  BY SubBorrow, Zenon
<1>2. PICK L \in Nat : L = Limb
  BY LimbFacts
<1>3. PICK p \in Int : p = L * s.borrow
  BY <1>1, ProductIsInt
<1>4. x - y - c = s.limb - p
  BY <1>1, <1>2, <1>3
<1>5. s.limb + y + c = x + p
  BY <1>1, <1>2, <1>4
<1>6. QED
  BY <1>1, <1>2, <1>3, <1>5

(* operator+ adds modulo 2^256.                                            *)
LEMMA PlusExact ==
  ASSUME NEW a \in uint256, NEW b \in uint256
  PROVE  /\ Plus(a, b) \in uint256
         /\ Value(Plus(a, b)) = (Value(a) + Value(b)) % Modulus
<1>1. PICK s : /\ s[0] = add_carry(a[0], b[0], 0)
               /\ s[1] = add_carry(a[1], b[1], s[0].carry)
               /\ s[2] = add_carry(a[2], b[2], s[1].carry)
               /\ s[3] = add_carry(a[3], b[3], s[2].carry)
               /\ Plus(a, b) = [i \in Indices |-> s[i].limb]
  BY PlusSteps
<1>2. /\ a[0] \in 0 .. Limb - 1 /\ a[1] \in 0 .. Limb - 1 /\ a[2] \in 0 .. Limb - 1 /\ a[3] \in 0 .. Limb - 1
      /\ b[0] \in 0 .. Limb - 1 /\ b[1] \in 0 .. Limb - 1 /\ b[2] \in 0 .. Limb - 1 /\ b[3] \in 0 .. Limb - 1
  BY LimbsOf, Zenon
<1>3. 0 \in 0 .. 1
  OBVIOUS
<1>4. /\ s[0].limb \in 0 .. Limb - 1 /\ s[0].carry \in 0 .. 1
      /\ a[0] + b[0] + 0 = s[0].limb + Limb * s[0].carry
  BY <1>1, <1>2, <1>3, AddCarryStep, SMTT(40)
<1>5. /\ s[1].limb \in 0 .. Limb - 1 /\ s[1].carry \in 0 .. 1
      /\ a[1] + b[1] + s[0].carry = s[1].limb + Limb * s[1].carry
  BY <1>1, <1>2, <1>4, AddCarryStep, SMTT(40)
<1>6. /\ s[2].limb \in 0 .. Limb - 1 /\ s[2].carry \in 0 .. 1
      /\ a[2] + b[2] + s[1].carry = s[2].limb + Limb * s[2].carry
  BY <1>1, <1>2, <1>5, AddCarryStep, SMTT(40)
<1>7. /\ s[3].limb \in 0 .. Limb - 1 /\ s[3].carry \in 0 .. 1
      /\ a[3] + b[3] + s[2].carry = s[3].limb + Limb * s[3].carry
  BY <1>1, <1>2, <1>6, AddCarryStep, SMTT(40)
<1>8. PICK z : z = Plus(a, b)
  OBVIOUS
<1>9. PICK e : e = [i \in 1 .. 4 |-> s[i - 1].carry]
  OBVIOUS
<1>10. e[1] = s[0].carry /\ e[2] = s[1].carry /\ e[3] = s[2].carry /\ e[4] = s[3].carry
  BY <1>9
<1>11. e \in [1 .. 4 -> Int]
  BY <1>4, <1>5, <1>6, <1>7, <1>9
<1>12. z[0] = s[0].limb /\ z[1] = s[1].limb /\ z[2] = s[2].limb /\ z[3] = s[3].limb
  BY <1>1, <1>8 DEF Indices, limb_count
<1>13. z \in uint256
  BY <1>1, <1>4, <1>5, <1>6, <1>7, <1>8 DEF uint256, Indices, limb_count
<1>14. Value(a) + Value(b) = Value(z) + Modulus * e[4]
  <2>1. /\ a[0] + b[0] + 0 = z[0] + Limb * e[1]
        /\ a[1] + b[1] + e[1] = z[1] + Limb * e[2]
        /\ a[2] + b[2] + e[2] = z[2] + Limb * e[3]
        /\ a[3] + b[3] + e[3] = z[3] + Limb * e[4]
    BY <1>4, <1>5, <1>6, <1>7, <1>10, <1>12, Zenon
  <2>2. QED
    BY <2>1, <1>11, <1>13, ValueSum, Zenon
<1>15. PICK M \in Nat \ {0}, A \in Nat, B \in Nat, V \in Nat, k \in Int :
         M = Modulus /\ A = Value(a) /\ B = Value(b) /\ V = Value(z) /\ V \in 0 .. M - 1 /\ k = e[4]
  <2>1. Modulus \in Nat \ {0} /\ Value(a) \in Nat /\ Value(b) \in Nat
    BY LimbFacts, ValueRange
  <2>2. Value(z) \in Nat /\ Value(z) \in 0 .. Modulus - 1
    BY <1>13, ValueRange
  <2>3. e[4] \in Int
    BY <1>11
  <2>4. QED
    BY <2>1, <2>2, <2>3, Zenon
<1>16. A + B = V + M * k
  BY <1>14, <1>15, Zenon
<1>17. PICK u \in Int : u = A + B /\ u = M * k + V
  BY <1>15, <1>16, ProductIsInt
<1>18. u % M = V
  <2>1. /\ M \in Nat \ {0} /\ V \in 0 .. M - 1 /\ k \in Int /\ u \in Int
        /\ u = M * k + V
    BY <1>15, <1>17
  <2>2. QED
    BY <2>1, DivOf
<1>19. QED
  BY <1>8, <1>13, <1>15, <1>17, <1>18

(* operator- subtracts modulo 2^256.                                       *)
LEMMA MinusExact ==
  ASSUME NEW a \in uint256, NEW b \in uint256
  PROVE  /\ Minus(a, b) \in uint256
         /\ Value(Minus(a, b)) = (Value(a) - Value(b)) % Modulus
<1>1. PICK s : /\ s[0] = sub_borrow(a[0], b[0], 0)
               /\ s[1] = sub_borrow(a[1], b[1], s[0].borrow)
               /\ s[2] = sub_borrow(a[2], b[2], s[1].borrow)
               /\ s[3] = sub_borrow(a[3], b[3], s[2].borrow)
               /\ Minus(a, b) = [i \in Indices |-> s[i].limb]
  BY MinusSteps
<1>2. /\ a[0] \in 0 .. Limb - 1 /\ a[1] \in 0 .. Limb - 1 /\ a[2] \in 0 .. Limb - 1 /\ a[3] \in 0 .. Limb - 1
      /\ b[0] \in 0 .. Limb - 1 /\ b[1] \in 0 .. Limb - 1 /\ b[2] \in 0 .. Limb - 1 /\ b[3] \in 0 .. Limb - 1
  BY LimbsOf, Zenon
<1>3. 0 \in 0 .. 1
  OBVIOUS
<1>4. /\ s[0].limb \in 0 .. Limb - 1 /\ s[0].borrow \in 0 .. 1
      /\ s[0].limb + b[0] + 0 = a[0] + Limb * s[0].borrow
  BY <1>1, <1>2, <1>3, SubBorrowStep, SMTT(40)
<1>5. /\ s[1].limb \in 0 .. Limb - 1 /\ s[1].borrow \in 0 .. 1
      /\ s[1].limb + b[1] + s[0].borrow = a[1] + Limb * s[1].borrow
  BY <1>1, <1>2, <1>4, SubBorrowStep, SMTT(40)
<1>6. /\ s[2].limb \in 0 .. Limb - 1 /\ s[2].borrow \in 0 .. 1
      /\ s[2].limb + b[2] + s[1].borrow = a[2] + Limb * s[2].borrow
  BY <1>1, <1>2, <1>5, SubBorrowStep, SMTT(40)
<1>7. /\ s[3].limb \in 0 .. Limb - 1 /\ s[3].borrow \in 0 .. 1
      /\ s[3].limb + b[3] + s[2].borrow = a[3] + Limb * s[3].borrow
  BY <1>1, <1>2, <1>6, SubBorrowStep, SMTT(40)
<1>8. PICK z : z = Minus(a, b)
  OBVIOUS
<1>9. PICK e : e = [i \in 1 .. 4 |-> s[i - 1].borrow]
  OBVIOUS
<1>10. e[1] = s[0].borrow /\ e[2] = s[1].borrow /\ e[3] = s[2].borrow /\ e[4] = s[3].borrow
  BY <1>9
<1>11. e \in [1 .. 4 -> Int]
  BY <1>4, <1>5, <1>6, <1>7, <1>9
<1>12. z[0] = s[0].limb /\ z[1] = s[1].limb /\ z[2] = s[2].limb /\ z[3] = s[3].limb
  BY <1>1, <1>8 DEF Indices, limb_count
<1>13. z \in uint256
  BY <1>1, <1>4, <1>5, <1>6, <1>7, <1>8 DEF uint256, Indices, limb_count
<1>14. Value(z) + Value(b) = Value(a) + Modulus * e[4]
  <2>1. /\ z[0] + b[0] + 0 = a[0] + Limb * e[1]
        /\ z[1] + b[1] + e[1] = a[1] + Limb * e[2]
        /\ z[2] + b[2] + e[2] = a[2] + Limb * e[3]
        /\ z[3] + b[3] + e[3] = a[3] + Limb * e[4]
    BY <1>4, <1>5, <1>6, <1>7, <1>10, <1>12, Zenon
  <2>2. QED
    BY <2>1, <1>11, <1>13, ValueSum, Zenon
<1>15. PICK M \in Nat \ {0}, A \in Nat, B \in Nat, V \in Nat, k \in Int :
         M = Modulus /\ A = Value(a) /\ B = Value(b) /\ V = Value(z) /\ V \in 0 .. M - 1 /\ k = e[4]
  <2>1. Modulus \in Nat \ {0} /\ Value(a) \in Nat /\ Value(b) \in Nat
    BY LimbFacts, ValueRange
  <2>2. Value(z) \in Nat /\ Value(z) \in 0 .. Modulus - 1
    BY <1>13, ValueRange
  <2>3. e[4] \in Int
    BY <1>11
  <2>4. QED
    BY <2>1, <2>2, <2>3, Zenon
<1>16. V + B = A + M * k
  BY <1>14, <1>15, Zenon
<1>17. PICK u \in Int : u = A - B /\ u = M * (-k) + V
  BY <1>15, <1>16, ProductIsInt
<1>18. u % M = V
  <2>1. /\ M \in Nat \ {0} /\ V \in 0 .. M - 1 /\ (-k) \in Int /\ u \in Int
        /\ u = M * (-k) + V
    BY <1>15, <1>17
  <2>2. QED
    BY <2>1, DivOf
<1>19. QED
  BY <1>8, <1>13, <1>15, <1>17, <1>18

-----------------------------------------------------------------------------
(* Shifts. *)

(* Quotient and remainder of a natural number. *)
LEMMA DivParts ==
  ASSUME NEW P \in Nat \ {0}, NEW v \in Nat
  PROVE  \E q \in Nat, r \in 0 .. P - 1 : q = v \div P /\ r = v % P /\ v = P * q + r
BY DivSplit, DivIsNat

(* One limb of a chain of carries.                                         *)
LEMMA ChainStep ==
  ASSUME NEW L \in Int, NEW x \in Int, NEW d \in Int, NEW z \in Int, NEW e \in Int,
         NEW X \in Int, NEW Z \in Int, NEW t \in Int,
         x + d = z + L * e, X + e = Z + t
  PROVE  (x + L * X) + d = (z + L * Z) + L * t
<1>1. L * (X + e) = L * (Z + t)
  OBVIOUS
<1>2. L * (X + e) = L * X + L * e /\ L * (Z + t) = L * Z + L * t
  BY Distribute
<1>3. PICK u \in Int, v \in Int, w \in Int, s \in Int : u = L * X /\ v = L * e /\ w = L * Z /\ s = L * t
  BY ProductIsInt
<1>4. u + v = w + s /\ x + d = z + v
  BY <1>1, <1>2, <1>3
<1>5. (x + u) + d = (z + w) + s
  BY <1>4
<1>6. QED
  BY <1>3, <1>5

(* Limbs that pass carries e upwards change the number by the last carry   *)
(* only.                                                                   *)
LEMMA Chain ==
  ASSUME NEW x \in [Indices -> Int], NEW z \in [Indices -> Int], NEW e \in [0 .. 4 -> Int],
         x[0] + e[0] = z[0] + Limb * e[1],
         x[1] + e[1] = z[1] + Limb * e[2],
         x[2] + e[2] = z[2] + Limb * e[3],
         x[3] + e[3] = z[3] + Limb * e[4]
  PROVE  Value(x) + e[0] = Value(z) + Modulus * e[4]
<1>1. PICK L \in Int : L = Limb /\ Modulus = L * (L * (L * L))
  BY LimbFacts
<1>2. PICK x0 \in Int, x1 \in Int, x2 \in Int, x3 \in Int :
        x0 = x[0] /\ x1 = x[1] /\ x2 = x[2] /\ x3 = x[3]
  BY DEF Indices, limb_count
<1>3. PICK z0 \in Int, z1 \in Int, z2 \in Int, z3 \in Int :
        z0 = z[0] /\ z1 = z[1] /\ z2 = z[2] /\ z3 = z[3]
  BY DEF Indices, limb_count
<1>4. PICK e0 \in Int, e1 \in Int, e2 \in Int, e3 \in Int, e4 \in Int :
        e0 = e[0] /\ e1 = e[1] /\ e2 = e[2] /\ e3 = e[3] /\ e4 = e[4]
  OBVIOUS
<1>5. /\ x0 + e0 = z0 + L * e1 /\ x1 + e1 = z1 + L * e2
      /\ x2 + e2 = z2 + L * e3 /\ x3 + e3 = z3 + L * e4
  BY <1>1, <1>2, <1>3, <1>4, Zenon
<1>6. /\ x0 \in Int /\ x1 \in Int /\ x2 \in Int /\ x3 \in Int
      /\ z0 \in Int /\ z1 \in Int /\ z2 \in Int /\ z3 \in Int
      /\ e0 \in Int /\ e1 \in Int /\ e2 \in Int /\ e3 \in Int /\ e4 \in Int /\ L \in Int
  BY <1>1, <1>2, <1>3, <1>4
<1>7. PICK t4 \in Int : t4 = L * e4
  BY <1>6, ProductIsInt
<1>8. PICK t3 \in Int : t3 = L * t4
  BY <1>6, <1>7, ProductIsInt
<1>9. PICK t2 \in Int : t2 = L * t3
  BY <1>6, <1>8, ProductIsInt
<1>10. PICK X2 \in Int, Z2 \in Int : X2 = x2 + L * x3 /\ Z2 = z2 + L * z3
  BY <1>6, ProductIsInt
<1>11. PICK X1 \in Int, Z1 \in Int : X1 = x1 + L * X2 /\ Z1 = z1 + L * Z2
  BY <1>6, <1>10, ProductIsInt
<1>12. PICK X0 \in Int, Z0 \in Int : X0 = x0 + L * X1 /\ Z0 = z0 + L * Z1
  BY <1>6, <1>11, ProductIsInt
<1>13. X2 + e2 = Z2 + t3
  <2>1. x3 + e3 = z3 + t4
    BY <1>5, <1>7
  <2>2. (x2 + L * x3) + e2 = (z2 + L * z3) + L * t4
    BY <2>1, <1>5, <1>6, <1>7, ChainStep
  <2>3. QED
    BY <2>2, <1>8, <1>10, Zenon
<1>14. X1 + e1 = Z1 + t2
  <2>1. X2 \in Int /\ Z2 \in Int /\ t3 \in Int
    BY <1>8, <1>10
  <2>2. (x1 + L * X2) + e1 = (z1 + L * Z2) + L * t3
    BY <2>1, <1>5, <1>6, <1>13, ChainStep
  <2>3. QED
    BY <2>2, <1>9, <1>11, Zenon
<1>15. X0 + e0 = Z0 + L * t2
  <2>1. X1 \in Int /\ Z1 \in Int /\ t2 \in Int
    BY <1>9, <1>11
  <2>2. (x0 + L * X1) + e0 = (z0 + L * Z1) + L * t2
    BY <2>1, <1>5, <1>6, <1>14, ChainStep
  <2>3. QED
    BY <2>2, <1>12, Zenon
<1>16. L * t2 = Modulus * e4
  BY <1>1, <1>4, <1>7, <1>8, <1>9
<1>17. Value(x) = X0 /\ Value(z) = Z0
  BY <1>1, <1>2, <1>3, <1>10, <1>11, <1>12, Zenon DEF Value
<1>18. QED
  BY <1>4, <1>15, <1>16, <1>17, Zenon

(* One limb of a multiple.                                                 *)
LEMMA ScaleStep ==
  ASSUME NEW L \in Int, NEW c \in Int, NEW y \in Int, NEW Y \in Int
  PROVE  c * y + L * (c * Y) = c * (y + L * Y)
OBVIOUS

(* A multiple of each limb is a multiple of the number.                    *)
LEMMA Scaled ==
  ASSUME NEW c \in Int, NEW y \in [Indices -> Int]
  PROVE  /\ [i \in Indices |-> c * y[i]] \in [Indices -> Int]
         /\ Value([i \in Indices |-> c * y[i]]) = c * Value(y)
<1>1. PICK L \in Int : L = Limb
  BY LimbFacts
<1>2. PICK y0 \in Int, y1 \in Int, y2 \in Int, y3 \in Int :
        y0 = y[0] /\ y1 = y[1] /\ y2 = y[2] /\ y3 = y[3]
  BY DEF Indices, limb_count
<1>3. PICK x : x = [i \in Indices |-> c * y[i]]
  OBVIOUS
<1>4. x[0] = c * y0 /\ x[1] = c * y1 /\ x[2] = c * y2 /\ x[3] = c * y3
  BY <1>2, <1>3 DEF Indices, limb_count
<1>5. x \in [Indices -> Int]
  BY <1>3, ProductIsInt
<1>6. Value(x) = c * y0 + L * (c * y1 + L * (c * y2 + L * (c * y3)))
  BY <1>1, <1>4, Zenon DEF Value
<1>7. Value(y) = y0 + L * (y1 + L * (y2 + L * y3))
  BY <1>1, <1>2, Zenon DEF Value
<1>8. PICK Y2 \in Int : Y2 = y2 + L * y3 /\ c * y2 + L * (c * y3) = c * Y2
  BY <1>1, ProductIsInt, ScaleStep
<1>9. PICK Y1 \in Int : Y1 = y1 + L * Y2 /\ c * y1 + L * (c * Y2) = c * Y1
  BY <1>1, ProductIsInt, ScaleStep
<1>10. PICK Y0 \in Int : Y0 = y0 + L * Y1 /\ c * y0 + L * (c * Y1) = c * Y0
  BY <1>1, ProductIsInt, ScaleStep
<1>11. Value(x) = c * Y0 /\ Value(y) = Y0
  BY <1>6, <1>7, <1>8, <1>9, <1>10, Zenon
<1>12. QED
  BY <1>3, <1>5, <1>11, Zenon

(* A chain of carries over multiples of limbs.                             *)
LEMMA ScaledChain ==
  ASSUME NEW c \in Int, NEW y \in [Indices -> Int], NEW z \in [Indices -> Int],
         NEW e \in [0 .. 4 -> Int],
         c * y[0] + e[0] = z[0] + Limb * e[1],
         c * y[1] + e[1] = z[1] + Limb * e[2],
         c * y[2] + e[2] = z[2] + Limb * e[3],
         c * y[3] + e[3] = z[3] + Limb * e[4]
  PROVE  c * Value(y) + e[0] = Value(z) + Modulus * e[4]
<1>1. PICK x : x = [i \in Indices |-> c * y[i]]
  OBVIOUS
<1>2. x[0] = c * y[0] /\ x[1] = c * y[1] /\ x[2] = c * y[2] /\ x[3] = c * y[3]
  BY <1>1 DEF Indices, limb_count
<1>3. x \in [Indices -> Int] /\ Value(x) = c * Value(y)
  BY <1>1, Scaled
<1>4. /\ x[0] + e[0] = z[0] + Limb * e[1]
      /\ x[1] + e[1] = z[1] + Limb * e[2]
      /\ x[2] + e[2] = z[2] + Limb * e[3]
      /\ x[3] + e[3] = z[3] + Limb * e[4]
  BY <1>2, Zenon
<1>5. Value(x) + e[0] = Value(z) + Modulus * e[4]
  BY <1>3, <1>4, Chain, Zenon
<1>6. QED
  BY <1>3, <1>5, Zenon

(* The limbs are numbers.                                                  *)
LEMMA IntLimbs ==
  ASSUME NEW x \in uint256
  PROVE  x \in [Indices -> Int] /\ x \in [Indices -> Nat]
<1>1. Limb \in Nat \ {0}
  BY LimbFacts
<1>2. QED
  BY <1>1 DEF uint256

(* Shifting by less than a limb: P = 2^b, Q = 2^(LimbBits - b). *)
LEMMA LimbSplit ==
  ASSUME NEW b \in 0 .. LimbBits
  PROVE  /\ b \in Nat /\ LimbBits - b \in Nat
         /\ 2 ^ b \in Nat \ {0} /\ 2 ^ (LimbBits - b) \in Nat \ {0}
         /\ Limb = 2 ^ b * 2 ^ (LimbBits - b)
<1>1. PICK m \in Nat : m = LimbBits
  BY WidthAssumption
<1>2. PICK c \in Nat : c = m - b /\ b + c = m /\ b \in Nat
  BY <1>1
<1>3. 2 ^ (b + c) = 2 ^ b * 2 ^ c /\ 2 ^ b \in Nat \ {0} /\ 2 ^ c \in Nat \ {0}
  BY <1>2, PowerSum, PowerPositive
<1>4. QED
  BY <1>1, <1>2, <1>3 DEF Limb

(* The high part second. *)
LEMMA OrOfPartsSwapped ==
  ASSUME NEW s \in Nat, NEW q \in Nat, NEW r \in Nat, r < 2 ^ s
  PROVE  LimbOr(r, 2 ^ s * q) = r + 2 ^ s * q
<1>1. PICK h \in Nat : h = 2 ^ s * q
  BY PowerIsNat, ProductIsNat
<1>2. ASSUME NEW k \in 0 .. 2 * LimbBits - 1
      PROVE  BitOf(r, k) = 0 \/ BitOf(h, k) = 0
  <2>1. k \in Nat
    BY WidthAssumption
  <2>2. CASE k < s
    BY <2>1, <2>2, <1>1, NoLowBit
  <2>3. CASE s <= k
    BY <2>1, <2>3, NoHighBit
  <2>4. QED
    BY <2>1, <2>2, <2>3
<1>3. LimbOr(r, h) = r + h
  BY <1>1, <1>2, OrDisjoint
<1>4. QED
  BY <1>1, <1>3, Zenon

(* The values of a limb.                                                   *)
Digit == 0 .. Limb - 1

(* The distances within a limb, both ends included.                        *)
Shift == 0 .. LimbBits

(* The bits a right shift drops.                                           *)
LowBits(x, b) == x % 2 ^ b

(* The bits a left shift drops.                                            *)
HighBits(x, b) == x \div 2 ^ (LimbBits - b)

(* A limb of a right shift.                                                *)
JoinRight(lo, hi, b) == LimbOr(LimbShiftRight(lo, b), LimbShiftLeft(hi, LimbBits - b))

(* A limb of a left shift.                                                 *)
JoinLeft(x, lo, b) == LimbOr(LimbShiftLeft(x, b), LimbShiftRight(lo, LimbBits - b))

(* The two halves of a limb, moved and joined. *)
LEMMA RightLimb ==
  ASSUME NEW lo \in Digit, NEW hi \in Digit, NEW b \in Shift
  PROVE  /\ JoinRight(lo, hi, b) \in Digit
         /\ LowBits(lo, b) \in Nat /\ LowBits(hi, b) \in Nat /\ LowBits(lo, b) < 2 ^ b
         /\ 2 ^ b * JoinRight(lo, hi, b) + LowBits(lo, b) = lo + Limb * LowBits(hi, b)
<1>c. PICK c, z : c = LimbBits - b /\ z = JoinRight(lo, hi, b)
  OBVIOUS
<1>1. PICK P \in Nat \ {0}, Q \in Nat \ {0}, L \in Nat \ {0} :
        P = 2 ^ b /\ Q = 2 ^ c /\ L = Limb /\ L = P * Q /\ c \in Nat /\ b \in Nat
  BY <1>c, LimbSplit, LimbFacts DEF Shift
<1>a. P \in Nat \ {0} /\ Q \in Nat \ {0} /\ L \in Nat \ {0}
  BY <1>1
<1>2. L = P * Q
  BY <1>1
<1>b. PICK u0 \in Nat, v0 \in Nat : u0 = lo /\ v0 = hi /\ u0 < L /\ v0 < L
  BY <1>a, <1>1 DEF Digit
<1>3. u0 \in Nat /\ v0 \in Nat /\ u0 < L /\ v0 < L
  BY <1>b
<1>5. PICK q \in Nat, r \in 0 .. P - 1 : q = u0 \div P /\ r = u0 % P /\ u0 = P * q + r
  BY <1>a, <1>3, DivParts
<1>6. PICK k \in Nat, s \in 0 .. P - 1 : k = v0 \div P /\ s = v0 % P /\ v0 = P * k + s
  BY <1>a, <1>3, DivParts
<1>7. q \in 0 .. Q - 1
  <2>1. u0 < P * Q
    BY <1>a, <1>2, <1>3
  <2>2. u0 \div P \in 0 .. Q - 1
    BY <1>a, <2>1, <1>3, DivBelow
  <2>3. QED
    BY <1>a, <2>2, <1>5
<1>8. s \in 0 .. P - 1
  BY <1>a, <1>6
<1>9. q + Q * s \in 0 .. Q * P - 1
  BY <1>a, <1>7, <1>8, HornerRange
<1>10. Q * P = L
  BY <1>a, <1>2
<1>11. q + Q * s \in 0 .. L - 1
  BY <1>9, <1>10, Zenon
<1>12. PICK h \in Nat : h = Q * s
  BY <1>a, <1>6, ProductIsNat
<1>13. h \in 0 .. L - 1
  BY <1>a, <1>5, <1>11, <1>12
<1>14. (v0 * Q) % L = h
  <2>1. PICK u \in Int : u = v0 * Q
    BY <1>a, <1>3, ProductIsInt
  <2>2. u = (P * k + s) * Q
    BY <2>1, <1>6, Zenon
  <2>3. (P * k + s) * Q = (P * Q) * k + Q * s
    <3>1. k \in Int /\ s \in Int
      BY <1>a, <1>6
    <3>2. QED
      BY <1>a, <3>1
  <2>4. u = L * k + h
    <3>1. k \in Int /\ s \in Int
      BY <1>a, <1>6
    <3>2. (P * Q) * k + Q * s = L * k + h
      BY <1>a, <3>1, <1>2, <1>12
    <3>3. QED
      BY <2>2, <2>3, <3>2, Zenon
  <2>5. k \in Int
    BY <1>a, <1>6
  <2>6. u % L = h
    BY <1>a, <2>4, <2>5, <1>13, DivOf
  <2>7. QED
    BY <1>a, <2>1, <2>6
<1>15. P * (q + Q * s) + r = u0 + L * s
  <2>0. q \in Nat /\ s \in Nat
    BY <1>a, <1>5, <1>6
  <2>1. P * (q + Q * s) = P * q + (P * Q) * s
    BY <1>a, <2>0
  <2>2. PICK a \in Int, e \in Int : a = P * q /\ e = L * s
    BY <1>a, <1>5, <1>6, ProductIsInt
  <2>3. P * (q + Q * s) = a + e
    BY <1>a, <2>0, <2>1, <2>2, <1>2
  <2>4. u0 = a + r
    BY <1>a, <1>5, <2>2
  <2>5. (a + e) + r = (a + r) + e
    BY <1>a, <1>5, <2>2
  <2>6. P * (q + Q * s) + r = (a + e) + r
    BY <2>3, Zenon
  <2>7. u0 + L * s = (a + r) + e
    <3>1. L * s = e
      BY <2>2, Zenon
    <3>2. u0 + L * s = u0 + e
      BY <3>1, Zenon
    <3>3. u0 + e = (a + r) + e
      BY <2>4, Zenon
    <3>4. QED
      BY <3>2, <3>3, Zenon
  <2>8. QED
    BY <2>5, <2>6, <2>7, Zenon
<1>16. z = LimbOr(q, h)
  BY <1>c, <1>b, <1>1, <1>5, <1>14, Zenon DEF LimbShiftRight, LimbShiftLeft, JoinRight
<1>17. LimbOr(q, Q * s) = q + Q * s
  <2>1. q < Q /\ q \in Nat /\ s \in Nat
    BY <1>a, <1>5, <1>6, <1>7
  <2>2. q < 2 ^ c
    BY <1>a, <2>1, <1>1
  <2>c. c \in Nat
    BY <1>1
  <2>3. LimbOr(q, 2 ^ c * s) = q + 2 ^ c * s
    BY <2>1, <2>2, <2>c, OrOfPartsSwapped
  <2>4. QED
    BY <2>3, <1>1, Zenon
<1>18. z = q + Q * s
  BY <1>12, <1>16, <1>17, Zenon
<1>19. z \in 0 .. L - 1
  BY <1>11, <1>18, Zenon
<1>20. P * z + r = u0 + L * s
  BY <1>15, <1>18, Zenon
<1>21. r \in Nat /\ s \in Nat /\ r < P
  BY <1>a, <1>5, <1>6
<1>22. r = u0 % P /\ s = v0 % P
  BY <1>a, <1>5, <1>6
<1>23. LowBits(lo, b) = r /\ LowBits(hi, b) = s
  BY <1>1, <1>b, <1>22, Zenon DEF LowBits
<1>24. JoinRight(lo, hi, b) \in Digit
  <2>1. z \in 0 .. Limb - 1
    BY <1>1, <1>19, Zenon
  <2>2. QED
    BY <2>1, <1>c, Zenon DEF Digit
<1>25. QED
  BY <1>1, <1>b, <1>c, <1>20, <1>21, <1>23, <1>24, Zenon

(* A limb shifted left: its own lower bits and the upper bits of the limb  *)
(* below.                                                                  *)
LEMMA LeftLimb ==
  ASSUME NEW x \in Digit, NEW lo \in Digit, NEW b \in Shift
  PROVE  /\ JoinLeft(x, lo, b) \in Digit
         /\ HighBits(x, b) \in Nat /\ HighBits(lo, b) \in Nat
         /\ 2 ^ b * x + HighBits(lo, b) = JoinLeft(x, lo, b) + Limb * HighBits(x, b)
<1>c. PICK c, z : c = LimbBits - b /\ z = JoinLeft(x, lo, b)
  OBVIOUS
<1>1. PICK P \in Nat \ {0}, Q \in Nat \ {0}, L \in Nat \ {0} :
        P = 2 ^ b /\ Q = 2 ^ c /\ L = Limb /\ L = P * Q /\ c \in Nat /\ b \in Nat
  BY <1>c, LimbSplit, LimbFacts DEF Shift
<1>a. P \in Nat \ {0} /\ Q \in Nat \ {0} /\ L \in Nat \ {0}
  BY <1>1
<1>2. L = P * Q
  BY <1>1
<1>b. PICK u0 \in Nat, v0 \in Nat : u0 = lo /\ v0 = x /\ u0 < L /\ v0 < L
  BY <1>a, <1>1 DEF Digit
<1>3. u0 \in Nat /\ v0 \in Nat /\ u0 < L /\ v0 < L
  BY <1>b
<1>5. PICK q \in Nat, r \in 0 .. Q - 1 : q = v0 \div Q /\ r = v0 % Q /\ v0 = Q * q + r
  BY <1>a, <1>3, DivParts
<1>6. u0 \div Q \in 0 .. P - 1
  <2>1. u0 < Q * P
    BY <1>a, <1>2, <1>3
  <2>2. QED
    BY <1>a, <2>1, <1>3, DivBelow
<1>7. PICK k \in 0 .. P - 1 : k = u0 \div Q
  BY <1>a, <1>6
<1>8. r \in 0 .. Q - 1 /\ k \in 0 .. P - 1
  BY <1>a, <1>5, <1>7
<1>9. k + P * r \in 0 .. P * Q - 1
  BY <1>a, <1>8, HornerRange
<1>10. PICK h \in Nat : h = P * r
  BY <1>a, <1>5, ProductIsNat
<1>11. h + k \in 0 .. L - 1 /\ h \in 0 .. L - 1
  BY <1>a, <1>2, <1>7, <1>9, <1>10
<1>12. P * v0 = L * q + h
  <2>0. q \in Int /\ r \in Int
    BY <1>a, <1>5
  <2>1. P * (Q * q + r) = (P * Q) * q + P * r
    BY <1>a, <2>0
  <2>2. QED
    BY <1>a, <2>1, <1>2, <1>5, <1>10
<1>13. (v0 * P) % L = h
  <2>1. PICK u \in Int : u = P * v0
    BY <1>a, <1>3, ProductIsInt
  <2>2. u = L * q + h /\ q \in Int
    BY <1>a, <2>1, <1>5, <1>12
  <2>3. u % L = h
    BY <1>a, <2>2, <1>11, DivOf
  <2>4. v0 * P = P * v0
    BY <1>a, <1>3
  <2>5. QED
    BY <2>1, <2>3, <2>4, Zenon
<1>14. P * v0 + k = (h + k) + L * q
  <2>1. PICK a \in Int : a = L * q
    BY <1>a, <1>5, ProductIsInt
  <2>2. (a + h) + k = (h + k) + a
    BY <1>a, <2>1, <1>7, <1>10
  <2>3. QED
    BY <1>a, <2>1, <2>2, <1>5, <1>7, <1>10, <1>12
<1>16. z = LimbOr(h, k)
  BY <1>c, <1>b, <1>1, <1>7, <1>13, Zenon DEF LimbShiftRight, LimbShiftLeft, JoinLeft
<1>17. LimbOr(P * r, k) = P * r + k
  <2>1. k < P /\ k \in Nat /\ r \in Nat
    BY <1>a, <1>5, <1>7
  <2>2. k < 2 ^ b
    BY <1>a, <2>1, <1>1
  <2>c. b \in Nat
    BY <1>1
  <2>3. LimbOr(2 ^ b * r, k) = 2 ^ b * r + k
    BY <2>1, <2>2, <2>c, OrOfParts
  <2>4. QED
    BY <2>3, <1>1, Zenon
<1>18. z = h + k
  BY <1>10, <1>16, <1>17, Zenon
<1>19. z \in 0 .. L - 1
  BY <1>11, <1>18, Zenon
<1>20. P * v0 + k = z + L * q
  BY <1>14, <1>18, Zenon
<1>21. q \in Nat /\ k \in Nat
  BY <1>a, <1>5, <1>7
<1>22. q = v0 \div Q /\ k = u0 \div Q
  BY <1>a, <1>5, <1>7
<1>23. HighBits(x, b) = q /\ HighBits(lo, b) = k
  BY <1>1, <1>b, <1>c, <1>22, Zenon DEF HighBits
<1>24. JoinLeft(x, lo, b) \in Digit
  <2>1. z \in 0 .. Limb - 1
    BY <1>1, <1>19, Zenon
  <2>2. QED
    BY <2>1, <1>c, Zenon DEF Digit
<1>25. QED
  BY <1>1, <1>b, <1>c, <1>20, <1>21, <1>23, <1>24, Zenon

(* A zero limb moved is zero. *)
LEMMA NoLimb ==
  ASSUME NEW b \in Shift
  PROVE  /\ 0 \in Digit
         /\ LimbShiftLeft(0, LimbBits - b) = 0 /\ LimbShiftRight(0, LimbBits - b) = 0
         /\ LowBits(0, b) = 0 /\ HighBits(0, b) = 0
<1>0. PICK c : c = LimbBits - b
  OBVIOUS
<1>1. PICK L \in Nat \ {0}, P \in Nat \ {0}, Q \in Nat \ {0} :
        L = Limb /\ P = 2 ^ b /\ Q = 2 ^ c
  BY <1>0, LimbSplit, LimbFacts DEF Shift
<1>2. 0 \in 0 .. L - 1 /\ 0 \in 0 .. P - 1 /\ 0 \in 0 .. Q - 1
  BY <1>1
<1>3. 0 % L = 0 /\ 0 % P = 0 /\ 0 \div Q = 0
  BY <1>1, <1>2, Small
<1>4. 0 * Q = 0
  BY <1>1
<1>5. QED
  BY <1>0, <1>1, <1>2, <1>3, <1>4, Zenon DEF LimbShiftRight, LimbShiftLeft, Digit, LowBits, HighBits

(* A right shift by less than a limb divides by the power of two.          *)
LEMMA BitsRight ==
  ASSUME NEW x \in uint256, NEW b \in Shift, NEW z,
         z = [i \in Indices |->
                LimbOr(LimbShiftRight(x[i], b),
                       IF i + 1 < limb_count THEN LimbShiftLeft(x[i + 1], LimbBits - b) ELSE 0)]
  PROVE  z \in uint256 /\ Value(z) = Value(x) \div 2 ^ b
<1>1. /\ z[0] = JoinRight(x[0], x[1], b)
      /\ z[1] = JoinRight(x[1], x[2], b)
      /\ z[2] = JoinRight(x[2], x[3], b)
      /\ z[3] = LimbOr(LimbShiftRight(x[3], b), 0)
  BY DEF Indices, limb_count, JoinRight, JoinLeft
<1>2. z[3] = JoinRight(x[3], 0, b) /\ LowBits(0, b) = 0
  BY <1>1, NoLimb, Zenon DEF JoinRight, JoinLeft
<1>3. /\ x[0] \in Digit /\ x[1] \in Digit /\ x[2] \in Digit /\ x[3] \in Digit
  BY LimbsOf DEF Digit
<1>4. /\ z[0] \in Digit
      /\ LowBits(x[0], b) \in Nat /\ LowBits(x[0], b) < 2 ^ b /\ LowBits(x[1], b) \in Nat
      /\ 2 ^ b * z[0] + LowBits(x[0], b) = x[0] + Limb * (LowBits(x[1], b))
  <2>1. /\ JoinRight(x[0], x[1], b) \in Digit
        /\ LowBits(x[0], b) \in Nat /\ LowBits(x[0], b) < 2 ^ b /\ LowBits(x[1], b) \in Nat
        /\ 2 ^ b * JoinRight(x[0], x[1], b) + LowBits(x[0], b) = x[0] + Limb * (LowBits(x[1], b))
    BY <1>3, NoLimb, RightLimb
  <2>2. QED
    BY <2>1, <1>1, <1>2, Zenon
<1>5. /\ z[1] \in Digit
      /\ LowBits(x[2], b) \in Nat
      /\ 2 ^ b * z[1] + LowBits(x[1], b) = x[1] + Limb * (LowBits(x[2], b))
  <2>1. /\ JoinRight(x[1], x[2], b) \in Digit
        /\ LowBits(x[2], b) \in Nat
        /\ 2 ^ b * JoinRight(x[1], x[2], b) + LowBits(x[1], b) = x[1] + Limb * (LowBits(x[2], b))
    BY <1>3, NoLimb, RightLimb
  <2>2. QED
    BY <2>1, <1>1, <1>2, Zenon
<1>6. /\ z[2] \in Digit
      /\ LowBits(x[3], b) \in Nat
      /\ 2 ^ b * z[2] + LowBits(x[2], b) = x[2] + Limb * (LowBits(x[3], b))
  <2>1. /\ JoinRight(x[2], x[3], b) \in Digit
        /\ LowBits(x[3], b) \in Nat
        /\ 2 ^ b * JoinRight(x[2], x[3], b) + LowBits(x[2], b) = x[2] + Limb * (LowBits(x[3], b))
    BY <1>3, NoLimb, RightLimb
  <2>2. QED
    BY <2>1, <1>1, <1>2, Zenon
<1>7. /\ z[3] \in Digit
      /\ 2 ^ b * z[3] + LowBits(x[3], b) = x[3] + Limb * (LowBits(0, b))
  <2>1. /\ JoinRight(x[3], 0, b) \in Digit
        /\ 2 ^ b * JoinRight(x[3], 0, b) + LowBits(x[3], b) = x[3] + Limb * (LowBits(0, b))
    BY <1>3, NoLimb, RightLimb
  <2>2. QED
    BY <2>1, <1>1, <1>2, Zenon
<1>8. z \in uint256
  BY <1>4, <1>5, <1>6, <1>7, IsLimbs DEF Digit
<1>9. PICK e : e = [i \in 0 .. 4 |-> IF i < 4 THEN LowBits(x[i], b) ELSE 0]
  OBVIOUS
<1>10. e[0] = LowBits(x[0], b) /\ e[1] = LowBits(x[1], b) /\ e[2] = LowBits(x[2], b) /\ e[3] = LowBits(x[3], b) /\ e[4] = 0
  BY <1>9
<1>11. e \in [0 .. 4 -> Int]
  <2>1. 2 ^ b \in Nat
    BY LimbSplit DEF Shift
  <2>2. e[0] \in Int /\ e[1] \in Int /\ e[2] \in Int /\ e[3] \in Int /\ e[4] \in Int
    BY <2>1, <1>4, <1>5, <1>6, <1>10
  <2>3. QED
    BY <2>2, <1>9
<1>12. PICK P \in Nat \ {0} : P = 2 ^ b
  BY LimbSplit DEF Shift
<1>13. P * Value(z) + e[0] = Value(x) + Modulus * e[4]
  <2>1. /\ P * z[0] + e[0] = x[0] + Limb * e[1]
        /\ P * z[1] + e[1] = x[1] + Limb * e[2]
        /\ P * z[2] + e[2] = x[2] + Limb * e[3]
        /\ P * z[3] + e[3] = x[3] + Limb * e[4]
    BY <1>2, <1>4, <1>5, <1>6, <1>7, <1>10, <1>12, Zenon
  <2>2. P \in Int /\ z \in [Indices -> Int] /\ x \in [Indices -> Int]
    BY <1>8, <1>12, IntLimbs
  <2>3. QED
    BY <2>1, <2>2, <1>11, ScaledChain, Zenon
<1>14. PICK V \in Nat, W \in Nat, r \in 0 .. P - 1 : V = Value(x) /\ W = Value(z) /\ r = e[0]
  <2>1. Value(x) \in Nat /\ Value(z) \in Nat
    BY <1>8, ValueRange
  <2>2. e[0] \in 0 .. P - 1
    <3>1. PICK r \in Nat : r = LowBits(x[0], b) /\ r < P
      BY <1>4, <1>12
    <3>2. QED
      BY <3>1, <1>10, <1>12
  <2>3. QED
    BY <2>1, <2>2, Zenon
<1>15. Modulus * e[4] = 0
  BY <1>10, LimbFacts
<1>16. V = P * W + r
  <2>1. P * W \in Int
    BY <1>12, <1>14, ProductIsInt
  <2>2. P * W + r = V + 0
    BY <1>13, <1>14, <1>15, Zenon
  <2>3. QED
    BY <2>1, <2>2, <1>14
<1>17. V \div P = W
  <2>1. P \in Nat \ {0} /\ W \in Int /\ r \in 0 .. P - 1 /\ V \in Int
    BY <1>12, <1>14
  <2>2. QED
    BY <2>1, <1>16, DivOf
<1>18. QED
  BY <1>8, <1>12, <1>14, <1>17

(* A left shift by less than a limb multiplies, modulo 2^256.              *)
LEMMA BitsLeft ==
  ASSUME NEW x \in uint256, NEW b \in Shift, NEW z,
         z = [i \in Indices |->
                LimbOr(LimbShiftLeft(x[i], b),
                       IF i > 0 THEN LimbShiftRight(x[i - 1], LimbBits - b) ELSE 0)]
  PROVE  z \in uint256 /\ Value(z) = (Value(x) * 2 ^ b) % Modulus
<1>1. /\ z[0] = LimbOr(LimbShiftLeft(x[0], b), 0)
      /\ z[1] = JoinLeft(x[1], x[0], b)
      /\ z[2] = JoinLeft(x[2], x[1], b)
      /\ z[3] = JoinLeft(x[3], x[2], b)
  BY DEF Indices, limb_count, JoinRight, JoinLeft
<1>2. z[0] = JoinLeft(x[0], 0, b) /\ HighBits(0, b) = 0
  BY <1>1, NoLimb, Zenon DEF JoinRight, JoinLeft
<1>3. /\ x[0] \in Digit /\ x[1] \in Digit /\ x[2] \in Digit /\ x[3] \in Digit
  BY LimbsOf DEF Digit
<1>4. /\ z[0] \in Digit /\ HighBits(x[0], b) \in Nat
      /\ 2 ^ b * x[0] + HighBits(0, b) = z[0] + Limb * (HighBits(x[0], b))
  <2>1. /\ JoinLeft(x[0], 0, b) \in Digit /\ HighBits(x[0], b) \in Nat
        /\ 2 ^ b * x[0] + HighBits(0, b) = JoinLeft(x[0], 0, b) + Limb * (HighBits(x[0], b))
    BY <1>3, NoLimb, LeftLimb
  <2>2. QED
    BY <2>1, <1>1, <1>2, Zenon
<1>5. /\ z[1] \in Digit /\ HighBits(x[1], b) \in Nat
      /\ 2 ^ b * x[1] + HighBits(x[0], b) = z[1] + Limb * (HighBits(x[1], b))
  <2>1. /\ JoinLeft(x[1], x[0], b) \in Digit /\ HighBits(x[1], b) \in Nat
        /\ 2 ^ b * x[1] + HighBits(x[0], b) = JoinLeft(x[1], x[0], b) + Limb * (HighBits(x[1], b))
    BY <1>3, NoLimb, LeftLimb
  <2>2. QED
    BY <2>1, <1>1, <1>2, Zenon
<1>6. /\ z[2] \in Digit /\ HighBits(x[2], b) \in Nat
      /\ 2 ^ b * x[2] + HighBits(x[1], b) = z[2] + Limb * (HighBits(x[2], b))
  <2>1. /\ JoinLeft(x[2], x[1], b) \in Digit /\ HighBits(x[2], b) \in Nat
        /\ 2 ^ b * x[2] + HighBits(x[1], b) = JoinLeft(x[2], x[1], b) + Limb * (HighBits(x[2], b))
    BY <1>3, NoLimb, LeftLimb
  <2>2. QED
    BY <2>1, <1>1, <1>2, Zenon
<1>7. /\ z[3] \in Digit /\ HighBits(x[3], b) \in Nat
      /\ 2 ^ b * x[3] + HighBits(x[2], b) = z[3] + Limb * (HighBits(x[3], b))
  <2>1. /\ JoinLeft(x[3], x[2], b) \in Digit /\ HighBits(x[3], b) \in Nat
        /\ 2 ^ b * x[3] + HighBits(x[2], b) = JoinLeft(x[3], x[2], b) + Limb * (HighBits(x[3], b))
    BY <1>3, NoLimb, LeftLimb
  <2>2. QED
    BY <2>1, <1>1, <1>2, Zenon
<1>8. z \in uint256
  BY <1>4, <1>5, <1>6, <1>7, IsLimbs DEF Digit
<1>9. PICK e : e = [i \in 0 .. 4 |-> IF i > 0 THEN HighBits(x[i - 1], b) ELSE 0]
  OBVIOUS
<1>10. e[0] = 0 /\ e[1] = HighBits(x[0], b) /\ e[2] = HighBits(x[1], b) /\ e[3] = HighBits(x[2], b) /\ e[4] = HighBits(x[3], b)
  BY <1>9
<1>11. e \in [0 .. 4 -> Int]
  <2>1. e[0] \in Int /\ e[1] \in Int /\ e[2] \in Int /\ e[3] \in Int /\ e[4] \in Int
    BY <1>4, <1>5, <1>6, <1>7, <1>10
  <2>2. QED
    BY <2>1, <1>9
<1>12. PICK P \in Nat \ {0} : P = 2 ^ b
  BY LimbSplit DEF Shift
<1>13. P * Value(x) + e[0] = Value(z) + Modulus * e[4]
  <2>1. /\ P * x[0] + e[0] = z[0] + Limb * e[1]
        /\ P * x[1] + e[1] = z[1] + Limb * e[2]
        /\ P * x[2] + e[2] = z[2] + Limb * e[3]
        /\ P * x[3] + e[3] = z[3] + Limb * e[4]
    BY <1>2, <1>4, <1>5, <1>6, <1>7, <1>10, <1>12, Zenon
  <2>2. P \in Int /\ z \in [Indices -> Int] /\ x \in [Indices -> Int]
    BY <1>8, <1>12, IntLimbs
  <2>3. QED
    BY <2>1, <2>2, <1>11, ScaledChain, Zenon
<1>14. PICK M \in Nat \ {0}, V \in Nat, W \in Nat, k \in Int :
         V = Value(x) /\ W = Value(z) /\ W \in 0 .. M - 1 /\ k = e[4] /\ M = Modulus
  <2>1. Value(x) \in Nat /\ Value(z) \in Nat /\ Value(z) \in 0 .. Modulus - 1
    BY <1>8, ValueRange
  <2>2. Modulus \in Nat \ {0} /\ e[4] \in Int
    BY <1>11, LimbFacts
  <2>3. QED
    BY <2>1, <2>2, Zenon
<1>15. PICK u \in Int : u = V * P /\ u = M * k + W
  <2>1. PICK p \in Int, m \in Int : p = P * V /\ m = M * k
    BY <1>12, <1>14, ProductIsInt
  <2>2. p + 0 = W + m
    BY <1>10, <1>13, <1>14, <2>1, Zenon
  <2>3. p = m + W
    BY <2>1, <2>2, <1>14
  <2>4. V * P = P * V
    BY <1>12, <1>14
  <2>5. QED
    BY <2>1, <2>3, <2>4
<1>16. u % M = W
  <2>1. M \in Nat \ {0} /\ W \in 0 .. M - 1 /\ k \in Int /\ u \in Int /\ u = M * k + W
    BY <1>14, <1>15
  <2>2. QED
    BY <2>1, DivOf
<1>17. QED
  BY <1>8, <1>12, <1>14, <1>15, <1>16, Zenon

(* x moved down by k limbs.                                                *)
LimbsDown(x, k) == [i \in Indices |-> IF i + k < limb_count THEN x[i + k] ELSE 0]

(* x moved up by k limbs.                                                  *)
LimbsUp(x, k) == [i \in Indices |-> IF i >= k THEN x[i - k] ELSE 0]

(* One limb down divides by the limb's modulus.                            *)
LEMMA DownOne ==
  ASSUME NEW x \in uint256
  PROVE  LimbsDown(x, 1) \in uint256 /\ Value(LimbsDown(x, 1)) = Value(x) \div Limb
<1>1. PICK z : z = LimbsDown(x, 1)
  OBVIOUS
<1>2. z[0] = x[1] /\ z[1] = x[2] /\ z[2] = x[3] /\ z[3] = 0
  BY <1>1 DEF LimbsDown, Indices, limb_count
<1>3. z = [i \in Indices |-> z[i]]
  BY <1>1 DEF LimbsDown
<1>4. PICK L \in Nat \ {0} : L = Limb
  BY LimbFacts
<1>5. /\ x[0] \in 0 .. L - 1 /\ x[1] \in 0 .. L - 1 /\ x[2] \in 0 .. L - 1 /\ x[3] \in 0 .. L - 1
      /\ 0 \in 0 .. L - 1
  BY <1>4, LimbsOf
<1>6. z \in uint256
  BY <1>2, <1>3, <1>4, <1>5, IsLimbs
<1>7. PICK e : e = [i \in 0 .. 4 |-> IF i < 4 THEN x[i] ELSE 0]
  OBVIOUS
<1>8. e[0] = x[0] /\ e[1] = x[1] /\ e[2] = x[2] /\ e[3] = x[3] /\ e[4] = 0
  BY <1>7
<1>9. e \in [0 .. 4 -> Int]
  BY <1>5, <1>7
<1>10. L \in Int /\ x \in [Indices -> Int] /\ z \in [Indices -> Int]
  BY <1>4, <1>6, IntLimbs
<1>11. /\ L * z[0] + e[0] = x[0] + Limb * e[1]
       /\ L * z[1] + e[1] = x[1] + Limb * e[2]
       /\ L * z[2] + e[2] = x[2] + Limb * e[3]
       /\ L * z[3] + e[3] = x[3] + Limb * e[4]
  BY <1>2, <1>4, <1>5, <1>8
<1>12. L * Value(z) + e[0] = Value(x) + Modulus * e[4]
  BY <1>9, <1>10, <1>11, ScaledChain, Zenon
<1>13. PICK V \in Nat, W \in Nat, r \in 0 .. L - 1 : V = Value(x) /\ W = Value(z) /\ r = e[0]
  <2>1. Value(x) \in Nat /\ Value(z) \in Nat
    BY <1>6, ValueRange
  <2>2. QED
    BY <2>1, <1>5, <1>8, Zenon
<1>14. V = L * W + r
  <2>1. Modulus * e[4] = 0
    BY <1>8, LimbFacts
  <2>2. L * W \in Int
    BY <1>4, <1>13, ProductIsInt
  <2>3. L * W + r = V + 0
    BY <1>12, <1>13, <2>1, Zenon
  <2>4. QED
    BY <2>2, <2>3, <1>13
<1>15. V \div L = W
  <2>1. L \in Nat \ {0} /\ W \in Int /\ r \in 0 .. L - 1 /\ V \in Int
    BY <1>4, <1>13
  <2>2. QED
    BY <2>1, <1>14, DivOf
<1>16. QED
  BY <1>1, <1>4, <1>6, <1>13, <1>15, Zenon

(* One limb up multiplies by it.                                           *)
LEMMA UpOne ==
  ASSUME NEW x \in uint256
  PROVE  LimbsUp(x, 1) \in uint256 /\ Value(LimbsUp(x, 1)) = (Value(x) * Limb) % Modulus
<1>1. PICK z : z = LimbsUp(x, 1)
  OBVIOUS
<1>2. z[0] = 0 /\ z[1] = x[0] /\ z[2] = x[1] /\ z[3] = x[2]
  BY <1>1 DEF LimbsUp, Indices, limb_count
<1>3. z = [i \in Indices |-> z[i]]
  BY <1>1 DEF LimbsUp
<1>4. PICK L \in Nat \ {0} : L = Limb
  BY LimbFacts
<1>5. /\ x[0] \in 0 .. L - 1 /\ x[1] \in 0 .. L - 1 /\ x[2] \in 0 .. L - 1 /\ x[3] \in 0 .. L - 1
      /\ 0 \in 0 .. L - 1
  BY <1>4, LimbsOf
<1>6. z \in uint256
  BY <1>2, <1>3, <1>4, <1>5, IsLimbs
<1>7. PICK e : e = [i \in 0 .. 4 |-> IF i > 0 THEN x[i - 1] ELSE 0]
  OBVIOUS
<1>8. e[0] = 0 /\ e[1] = x[0] /\ e[2] = x[1] /\ e[3] = x[2] /\ e[4] = x[3]
  BY <1>7
<1>9. e \in [0 .. 4 -> Int]
  BY <1>5, <1>7
<1>10. L \in Int /\ x \in [Indices -> Int] /\ z \in [Indices -> Int]
  BY <1>4, <1>6, IntLimbs
<1>11. /\ L * x[0] + e[0] = z[0] + Limb * e[1]
       /\ L * x[1] + e[1] = z[1] + Limb * e[2]
       /\ L * x[2] + e[2] = z[2] + Limb * e[3]
       /\ L * x[3] + e[3] = z[3] + Limb * e[4]
  BY <1>2, <1>4, <1>5, <1>8
<1>12. L * Value(x) + e[0] = Value(z) + Modulus * e[4]
  BY <1>9, <1>10, <1>11, ScaledChain, Zenon
<1>13. PICK M \in Nat \ {0}, V \in Nat, W \in Nat, k \in Int :
         V = Value(x) /\ W = Value(z) /\ W \in 0 .. M - 1 /\ k = e[4] /\ M = Modulus
  <2>1. Value(x) \in Nat /\ Value(z) \in Nat /\ Value(z) \in 0 .. Modulus - 1
    BY <1>6, ValueRange
  <2>2. Modulus \in Nat \ {0} /\ e[4] \in Int
    BY <1>9, LimbFacts
  <2>3. QED
    BY <2>1, <2>2, Zenon
<1>14. PICK u \in Int : u = V * L /\ u = M * k + W
  <2>1. PICK p \in Int, m \in Int : p = L * V /\ m = M * k
    BY <1>4, <1>13, ProductIsInt
  <2>2. p + 0 = W + m
    BY <1>8, <1>12, <1>13, <2>1, Zenon
  <2>3. p = m + W
    BY <2>1, <2>2, <1>13
  <2>4. V * L = L * V
    BY <1>4, <1>13
  <2>5. QED
    BY <2>1, <2>3, <2>4
<1>15. u % M = W
  <2>1. M \in Nat \ {0} /\ W \in 0 .. M - 1 /\ k \in Int /\ u \in Int /\ u = M * k + W
    BY <1>13, <1>14
  <2>2. QED
    BY <2>1, DivOf
<1>16. QED
  BY <1>1, <1>4, <1>6, <1>13, <1>14, <1>15, Zenon

(* No limb up or down is no change.                                        *)
LEMMA MovesZero ==
  ASSUME NEW x \in uint256
  PROVE  LimbsDown(x, 0) = x /\ LimbsUp(x, 0) = x
<1>1. x = [i \in Indices |-> x[i]]
  BY DEF uint256
<1>2. LimbsDown(x, 0) = [i \in Indices |-> x[i]] /\ LimbsUp(x, 0) = [i \in Indices |-> x[i]]
  BY DEF LimbsDown, LimbsUp, Indices, limb_count
<1>3. QED
  BY <1>1, <1>2, Zenon

(* Limbs are moved one after the other.                                    *)
LEMMA MovesNext ==
  ASSUME NEW x, NEW k \in 0 .. 2
  PROVE  /\ LimbsDown(x, k + 1) = LimbsDown(LimbsDown(x, k), 1)
         /\ LimbsUp(x, k + 1) = LimbsUp(LimbsUp(x, k), 1)
<1>1. LimbsDown(x, k + 1) = LimbsDown(LimbsDown(x, k), 1)
  BY DEF LimbsDown, Indices, limb_count
<1>2. LimbsUp(x, k + 1) = LimbsUp(LimbsUp(x, k), 1)
  BY DEF LimbsUp, Indices, limb_count
<1>3. QED
  BY <1>1, <1>2

(* A remainder times a number. *)
LEMMA ModTimes ==
  ASSUME NEW M \in Nat \ {0}, NEW a \in Int, NEW b \in Int
  PROVE  ((a % M) * b) % M = (a * b) % M
<1>1. PICK q \in Int, r \in 0 .. M - 1 : q = a \div M /\ r = a % M /\ a = M * q + r
  BY DivSplit
<1>2. PICK u \in Int, k \in Int : u = r * b /\ k = q * b
  BY <1>1, ProductIsInt
<1>3. a * b = u + M * k
  <2>1. q \in Int /\ r \in Int
    BY <1>1
  <2>2. (M * q + r) * b = r * b + M * (q * b)
    BY <2>1
  <2>3. QED
    BY <2>2, <1>1, <1>2, Zenon
<1>4. (u + M * k) % M = u % M
  BY <1>2, DivPlusMultiple
<1>5. QED
  BY <1>1, <1>2, <1>3, <1>4, Zenon

(* The weight of a limb.                                                   *)
LEMMA LimbPower ==
  ASSUME NEW k \in Nat
  PROVE  /\ LimbBits * k \in Nat /\ 2 ^ (LimbBits * k) \in Nat \ {0}
         /\ 2 ^ (LimbBits * (k + 1)) = 2 ^ (LimbBits * k) * Limb
<1>1. PICK m \in Nat : m = LimbBits
  BY WidthAssumption
<1>2. PICK j \in Nat : j = m * k /\ m * (k + 1) = j + m
  BY ProductIsNat
<1>3. 2 ^ (j + m) = 2 ^ j * 2 ^ m /\ 2 ^ j \in Nat \ {0}
  BY <1>1, <1>2, PowerSum, PowerPositive
<1>4. QED
  BY <1>1, <1>2, <1>3, Zenon DEF Limb

(* One limb further.                                                       *)
LEMMA MovesStep ==
  ASSUME NEW x \in uint256, NEW k \in 0 .. 2,
         LimbsDown(x, k) \in uint256, Value(LimbsDown(x, k)) = Value(x) \div 2 ^ (LimbBits * k),
         LimbsUp(x, k) \in uint256,
         Value(LimbsUp(x, k)) = (Value(x) * 2 ^ (LimbBits * k)) % Modulus
  PROVE  /\ LimbsDown(x, k + 1) \in uint256
         /\ Value(LimbsDown(x, k + 1)) = Value(x) \div 2 ^ (LimbBits * (k + 1))
         /\ LimbsUp(x, k + 1) \in uint256
         /\ Value(LimbsUp(x, k + 1)) = (Value(x) * 2 ^ (LimbBits * (k + 1))) % Modulus
<1>0. k \in Nat
  OBVIOUS
<1>1. PICK P \in Nat \ {0}, L \in Nat \ {0}, M \in Nat \ {0}, V \in Nat :
        P = 2 ^ (LimbBits * k) /\ L = Limb /\ M = Modulus /\ V = Value(x)
  <2>1. 2 ^ (LimbBits * k) \in Nat \ {0}
    BY <1>0, LimbPower
  <2>2. Value(x) \in Nat /\ Limb \in Nat \ {0} /\ Modulus \in Nat \ {0}
    BY ValueRange, LimbFacts
  <2>3. QED
    BY <2>1, <2>2, Zenon
<1>2. 2 ^ (LimbBits * (k + 1)) = P * L
  <2>1. 2 ^ (LimbBits * (k + 1)) = 2 ^ (LimbBits * k) * Limb
    BY <1>0, LimbPower
  <2>2. QED
    BY <1>1, <2>1, Zenon
<1>a. P \in Nat \ {0} /\ L \in Nat \ {0} /\ M \in Nat \ {0} /\ V \in Nat /\ V \in Int
  BY <1>1
<1>3. PICK y, z : y = LimbsDown(x, k) /\ z = LimbsUp(x, k)
  OBVIOUS
<1>4. y \in uint256 /\ z \in uint256 /\ Value(y) = V \div P /\ Value(z) = (V * P) % M
  BY <1>1, <1>3, Zenon
<1>5. /\ LimbsDown(x, k + 1) = LimbsDown(y, 1) /\ LimbsUp(x, k + 1) = LimbsUp(z, 1)
  BY <1>3, MovesNext, Zenon
<1>6. LimbsDown(y, 1) \in uint256 /\ Value(LimbsDown(y, 1)) = (V \div P) \div L
  BY <1>1, <1>4, DownOne, Zenon
<1>7. LimbsUp(z, 1) \in uint256 /\ Value(LimbsUp(z, 1)) = (((V * P) % M) * L) % M
  BY <1>1, <1>4, UpOne, Zenon
<1>8. (V \div P) \div L = V \div (P * L)
  BY <1>a, DivDiv
<1>9. (((V * P) % M) * L) % M = (V * (P * L)) % M
  <2>1. PICK u \in Int : u = V * P
    BY <1>a, ProductIsInt
  <2>2. ((u % M) * L) % M = (u * L) % M
    <3>1. u \in Int /\ L \in Int
      BY <1>a, <2>1
    <3>2. QED
      BY <1>a, <3>1, ModTimes
  <2>3. (V * P) * L = V * (P * L)
    BY <1>a, Associate
  <2>4. QED
    BY <2>1, <2>2, <2>3, Zenon
<1>10. QED
  BY <1>1, <1>2, <1>5, <1>6, <1>7, <1>8, <1>9, Zenon

(* Moving k limbs divides, or multiplies, by the weight of limb k.         *)
LEMMA MovesExact ==
  ASSUME NEW x \in uint256, NEW k \in 0 .. 3
  PROVE  /\ LimbsDown(x, k) \in uint256
         /\ Value(LimbsDown(x, k)) = Value(x) \div 2 ^ (LimbBits * k)
         /\ LimbsUp(x, k) \in uint256
         /\ Value(LimbsUp(x, k)) = (Value(x) * 2 ^ (LimbBits * k)) % Modulus
<1> DEFINE T == {j \in 0 .. 3 : /\ LimbsDown(x, j) \in uint256
                                /\ Value(LimbsDown(x, j)) = Value(x) \div 2 ^ (LimbBits * j)
                                /\ LimbsUp(x, j) \in uint256
                                /\ Value(LimbsUp(x, j)) = (Value(x) * 2 ^ (LimbBits * j)) % Modulus}
<1>1. 0 \in T
  <2>1. LimbBits * 0 = 0
    BY WidthAssumption
  <2>2. 2 ^ (LimbBits * 0) = 1
    BY <2>1, PowerZero, Zenon
  <2>3. PICK V \in Nat, M \in Nat \ {0} : V = Value(x) /\ M = Modulus /\ V \in 0 .. M - 1
    <3>1. Value(x) \in Nat /\ Modulus \in Nat \ {0} /\ Value(x) \in 0 .. Modulus - 1
      BY ValueRange, LimbFacts
    <3>2. QED
      BY <3>1, Zenon
  <2>4. V \div 1 = V /\ V * 1 = V
    BY <2>3
  <2>5. V % M = V
    BY <2>3, Small
  <2>6. Value(x) = Value(x) \div 2 ^ (LimbBits * 0) /\ Value(x) = (Value(x) * 2 ^ (LimbBits * 0)) % Modulus
    BY <2>2, <2>3, <2>4, <2>5, Zenon
  <2>7. 0 \in 0 .. 3
    OBVIOUS
  <2>8. QED
    BY <2>6, <2>7, MovesZero, Zenon
<1>2. ASSUME NEW j \in 0 .. 3 - 1, j \in T
      PROVE  j + 1 \in T
  <2>1. j \in 0 .. 2 /\ j + 1 \in 0 .. 3
    OBVIOUS
  <2>2. QED
    BY <1>2, <2>1, MovesStep, Zenon
<1> HIDE DEF T
<1>3. 3 \in Nat
  OBVIOUS
<1>4. 0 .. 3 \subseteq T
  BY <1>1, <1>2, <1>3, UpTo, Zenon
<1>5. QED
  BY <1>4 DEF T

(* The array of a single limb.                                             *)
LEMMA FromLimbExact ==
  ASSUME NEW v \in Digit
  PROVE  FromLimb(v) \in uint256 /\ Value(FromLimb(v)) = v
<1>1. PICK L \in Nat \ {0}, u \in Nat : L = Limb /\ u = v /\ u < L
  BY LimbFacts DEF Digit
<1>2. u % L = u
  <2>1. u \in 0 .. L - 1 /\ L \in Nat \ {0}
    BY <1>1
  <2>2. QED
    BY <2>1, Small
<1>3. PICK z : z = FromLimb(v)
  OBVIOUS
<1>4. z = [i \in Indices |-> IF i = 0 THEN v ELSE 0]
  <2>1. v % Limb = v
    BY <1>1, <1>2, Zenon
  <2>2. QED
    BY <1>3, <2>1, Zenon DEF FromLimb
<1>5. z[0] = v /\ z[1] = 0 /\ z[2] = 0 /\ z[3] = 0 /\ z = [i \in Indices |-> z[i]]
  BY <1>4 DEF Indices, limb_count
<1>6. v \in 0 .. Limb - 1 /\ 0 \in 0 .. Limb - 1
  BY LimbFacts DEF Digit
<1>7. z \in uint256
  BY <1>5, <1>6, IsLimbs
<1>8. Value(z) = u + L * (0 + L * (0 + L * 0))
  BY <1>1, <1>5, Zenon DEF Value
<1>9. u + L * (0 + L * (0 + L * 0)) = u
  BY <1>1
<1>10. QED
  BY <1>1, <1>3, <1>7, <1>8, <1>9, Zenon

(* The array of zero.                                                      *)
LEMMA ZeroExact ==
  Zero \in uint256 /\ Value(Zero) = 0
<1>1. 0 \in Digit
  BY LimbFacts DEF Digit
<1>2. QED
  BY <1>1, FromLimbExact, Zenon DEF Zero

(* A distance is whole limbs and bits below a limb.                        *)
LEMMA Distance ==
  ASSUME NEW s \in Nat, s < bit_width_v
  PROVE  \E k \in 0 .. 3, b \in Nat :
           /\ k = s \div LimbBits /\ b = s % LimbBits /\ b < LimbBits /\ b \in Shift
           /\ LimbBits * k \in Nat /\ LimbBits * k + b = s
           /\ 2 ^ s = 2 ^ (LimbBits * k) * 2 ^ b
<1>1. PICK m \in Nat \ {0} : m = LimbBits
  BY WidthAssumption
<1>2. bit_width_v = m * 4
  BY <1>1 DEF bit_width_v, limb_count
<1>3. PICK k \in Nat, b \in 0 .. m - 1 : k = s \div m /\ b = s % m /\ s = m * k + b
  BY <1>1, DivParts
<1>4. k \in 0 .. 3
  <2>1. s < m * 4 /\ m \in Nat \ {0} /\ 4 \in Nat \ {0}
    BY <1>1, <1>2
  <2>2. s \div m \in 0 .. 4 - 1
    BY <2>1, DivBelow
  <2>3. QED
    BY <2>2, <1>3
<1>5. PICK j \in Nat : j = m * k
  BY <1>1, <1>3, ProductIsNat
<1>6. b \in Nat /\ b < m /\ j + b = s
  BY <1>3, <1>5
<1>7. 2 ^ (j + b) = 2 ^ j * 2 ^ b
  BY <1>6, PowerSum
<1>8. b \in Shift
  BY <1>1, <1>6 DEF Shift
<1>9. /\ k = s \div LimbBits /\ b = s % LimbBits
      /\ LimbBits * k \in Nat /\ LimbBits * k + b = s
      /\ 2 ^ s = 2 ^ (LimbBits * k) * 2 ^ b /\ b < LimbBits
  BY <1>1, <1>3, <1>5, <1>6, <1>7, Zenon
<1>10. QED
  BY <1>4, <1>6, <1>8, <1>9, Zenon

(* operator>> divides by the power of two, whatever the distance.          *)
LEMMA ShiftRightExact ==
  ASSUME NEW x \in uint256, NEW s \in Nat
  PROVE  ShiftRight(x, s) \in uint256 /\ Value(ShiftRight(x, s)) = Value(x) \div 2 ^ s
<1>0. PICK V \in Nat, M \in Nat \ {0} : V = Value(x) /\ M = Modulus /\ V < M
  <2>1. Value(x) \in Nat /\ Modulus \in Nat \ {0} /\ Value(x) < Modulus
    BY ValueRange, LimbFacts
  <2>2. QED
    BY <2>1, Zenon
<1>1. CASE s >= bit_width_v
  <2>1. ShiftRight(x, s) = Zero
    BY <1>1 DEF ShiftRight
  <2>2. PICK w \in Nat : w = bit_width_v
    BY LimbFacts
  <2>3. w <= s
    BY <1>1, <2>2
  <2>4. PICK P \in Nat \ {0} : P = 2 ^ s /\ 2 ^ w <= P
    BY <2>2, <2>3, PowerMonotone, PowerPositive
  <2>5. M <= P
    BY <1>0, <2>2, <2>4 DEF Modulus
  <2>6. P \in Nat \ {0} /\ V \in 0 .. P - 1
    BY <1>0, <2>4, <2>5
  <2>7. V \div P = 0
    BY <2>6, Small
  <2>8. QED
    BY <1>0, <2>1, <2>4, <2>7, ZeroExact, Zenon
<1>2. CASE s < bit_width_v
  <2>1. PICK k \in 0 .. 3, b \in Nat :
           /\ k = s \div LimbBits /\ b = s % LimbBits /\ b \in Shift
           /\ 2 ^ s = 2 ^ (LimbBits * k) * 2 ^ b
    BY <1>2, Distance
  <2>2. PICK y : y = LimbsDown(x, k)
    OBVIOUS
  <2>3. y \in uint256 /\ Value(y) = Value(x) \div 2 ^ (LimbBits * k)
    BY <2>1, <2>2, MovesExact, Zenon
  <2>4. ~(s >= bit_width_v)
    <3>1. bit_width_v \in Nat
      BY LimbFacts
    <3>2. QED
      BY <3>1, <1>2
  <2>5. PICK P \in Nat \ {0}, Q \in Nat \ {0} : P = 2 ^ (LimbBits * k) /\ Q = 2 ^ b
    <3>1. k \in Nat
      BY <2>1
    <3>2. 2 ^ (LimbBits * k) \in Nat \ {0} /\ 2 ^ b \in Nat \ {0}
      BY <3>1, <2>1, LimbPower, PowerPositive
    <3>3. QED
      BY <3>2, Zenon
  <2>6. Value(y) = V \div P /\ 2 ^ s = P * Q
    BY <1>0, <2>1, <2>3, <2>5, Zenon
  <2>7. (V \div P) \div Q = V \div (P * Q)
    <3>1. V \in Int /\ P \in Nat \ {0} /\ Q \in Nat \ {0}
      BY <1>0, <2>5
    <3>2. QED
      BY <3>1, DivDiv
  <2>8. CASE b = 0
    <3>1. ShiftRight(x, s) = y
      BY <2>1, <2>2, <2>4, <2>8, Zenon DEF ShiftRight, LimbsDown
    <3>2. Q = 1
      BY <2>5, <2>8, PowerZero
    <3>3. P * Q = P
      BY <3>2, <2>5
    <3>4. QED
      BY <1>0, <2>3, <2>6, <3>1, <3>3, Zenon
  <2>9. CASE b # 0
    <3>1. PICK z : z = ShiftRight(x, s)
      OBVIOUS
    <3>2. z = [i \in Indices |->
                LimbOr(LimbShiftRight(y[i], b),
                       IF i + 1 < limb_count THEN LimbShiftLeft(y[i + 1], LimbBits - b) ELSE 0)]
      BY <3>1, <2>1, <2>2, <2>4, <2>9 DEF ShiftRight, LimbsDown
    <3>3. z \in uint256 /\ Value(z) = Value(y) \div 2 ^ b
      BY <2>1, <2>3, <3>2, BitsRight, Zenon
    <3>4. QED
      BY <1>0, <2>5, <2>6, <2>7, <3>1, <3>3, Zenon
  <2>10. QED
    BY <2>8, <2>9
<1>3. QED
  <2>1. bit_width_v \in Nat
    BY LimbFacts
  <2>2. s >= bit_width_v \/ s < bit_width_v
    BY <2>1
  <2>3. QED
    BY <2>2, <1>1, <1>2

(* operator<< multiplies by the power of two modulo 2^256, whatever the    *)
(* distance.                                                               *)
LEMMA ShiftLeftExact ==
  ASSUME NEW x \in uint256, NEW s \in Nat
  PROVE  ShiftLeft(x, s) \in uint256 /\ Value(ShiftLeft(x, s)) = (Value(x) * 2 ^ s) % Modulus
<1>0. PICK V \in Nat, M \in Nat \ {0} : V = Value(x) /\ M = Modulus /\ V < M
  <2>1. Value(x) \in Nat /\ Modulus \in Nat \ {0} /\ Value(x) < Modulus
    BY ValueRange, LimbFacts
  <2>2. QED
    BY <2>1, Zenon
<1>1. CASE s >= bit_width_v
  <2>1. ShiftLeft(x, s) = Zero
    BY <1>1 DEF ShiftLeft
  <2>2. PICK w \in Nat : w = bit_width_v
    BY LimbFacts
  <2>3. PICK k \in Nat : k = s - w /\ w + k = s
    BY <1>1, <2>2
  <2>4. PICK K \in Nat \ {0} : K = 2 ^ k /\ 2 ^ s = 2 ^ w * K
    <3>1. 2 ^ (w + k) = 2 ^ w * 2 ^ k
      BY PowerSum
    <3>2. 2 ^ k \in Nat \ {0}
      BY PowerPositive
    <3>3. QED
      BY <3>1, <3>2, <2>3, Zenon
  <2>5. 2 ^ s = M * K
    BY <1>0, <2>2, <2>4, Zenon DEF Modulus
  <2>6. PICK j \in Nat : j = V * K
    BY ProductIsNat
  <2>7. PICK u \in Int : u = V * (M * K) /\ u = M * j + 0
    <3>1. V * (M * K) = M * (V * K) + 0
      BY <1>0, <2>4
    <3>2. M * j + 0 \in Int
      BY <1>0, <2>6
    <3>3. QED
      BY <3>1, <3>2, <2>6, Zenon
  <2>8. u % M = 0
    <3>1. M \in Nat \ {0} /\ j \in Int /\ 0 \in 0 .. M - 1 /\ u \in Int /\ u = M * j + 0
      BY <1>0, <2>6, <2>7
    <3>2. QED
      BY <3>1, DivOf
  <2>9. QED
    BY <1>0, <2>1, <2>5, <2>7, <2>8, ZeroExact, Zenon
<1>2. CASE s < bit_width_v
  <2>1. PICK k \in 0 .. 3, b \in Nat :
           /\ k = s \div LimbBits /\ b = s % LimbBits /\ b \in Shift
           /\ 2 ^ s = 2 ^ (LimbBits * k) * 2 ^ b
    BY <1>2, Distance
  <2>2. PICK y : y = LimbsUp(x, k)
    OBVIOUS
  <2>3. y \in uint256 /\ Value(y) = (Value(x) * 2 ^ (LimbBits * k)) % Modulus
    BY <2>1, <2>2, MovesExact, Zenon
  <2>4. ~(s >= bit_width_v)
    <3>1. bit_width_v \in Nat
      BY LimbFacts
    <3>2. QED
      BY <3>1, <1>2
  <2>5. PICK P \in Nat \ {0}, Q \in Nat \ {0} : P = 2 ^ (LimbBits * k) /\ Q = 2 ^ b
    <3>1. k \in Nat
      BY <2>1
    <3>2. 2 ^ (LimbBits * k) \in Nat \ {0} /\ 2 ^ b \in Nat \ {0}
      BY <3>1, <2>1, LimbPower, PowerPositive
    <3>3. QED
      BY <3>2, Zenon
  <2>6. Value(y) = (V * P) % M /\ 2 ^ s = P * Q
    BY <1>0, <2>1, <2>3, <2>5, Zenon
  <2>7. (((V * P) % M) * Q) % M = (V * (P * Q)) % M
    <3>0. V \in Int /\ P \in Int /\ Q \in Int /\ M \in Nat \ {0}
      BY <1>0, <2>5
    <3>1. PICK u \in Int : u = V * P
      BY <3>0, ProductIsInt
    <3>2. ((u % M) * Q) % M = (u * Q) % M
      <4>1. u \in Int
        BY <3>1
      <4>2. QED
        BY <4>1, <3>0, ModTimes
    <3>3. (V * P) * Q = V * (P * Q)
      BY <3>0, Associate
    <3>4. QED
      BY <3>1, <3>2, <3>3, Zenon
  <2>8. CASE b = 0
    <3>1. ShiftLeft(x, s) = y
      BY <2>1, <2>2, <2>4, <2>8, Zenon DEF ShiftLeft, LimbsUp
    <3>2. Q = 1
      BY <2>5, <2>8, PowerZero
    <3>3. P * Q = P
      BY <3>2, <2>5
    <3>4. QED
      BY <1>0, <2>3, <2>6, <3>1, <3>3, Zenon
  <2>9. CASE b # 0
    <3>1. PICK z : z = ShiftLeft(x, s)
      OBVIOUS
    <3>2. z = [i \in Indices |->
                LimbOr(LimbShiftLeft(y[i], b),
                       IF i > 0 THEN LimbShiftRight(y[i - 1], LimbBits - b) ELSE 0)]
      BY <3>1, <2>1, <2>2, <2>4, <2>9 DEF ShiftLeft, LimbsUp
    <3>3. z \in uint256 /\ Value(z) = (Value(y) * 2 ^ b) % Modulus
      BY <2>1, <2>3, <3>2, BitsLeft, Zenon
    <3>4. QED
      BY <1>0, <2>5, <2>6, <2>7, <3>1, <3>3, Zenon
  <2>10. QED
    BY <2>8, <2>9
<1>3. QED
  <2>1. bit_width_v \in Nat
    BY LimbFacts
  <2>2. s >= bit_width_v \/ s < bit_width_v
    BY <2>1
  <2>3. QED
    BY <2>2, <1>1, <1>2

(* shl1 doubles.                                                           *)
LEMMA Shl1Exact ==
  ASSUME NEW x \in uint256
  PROVE  shl1(x) \in uint256 /\ Value(shl1(x)) = (Value(x) * 2) % Modulus
<1>1. 1 \in Shift
  BY WidthAssumption DEF Shift
<1>2. PICK z : z = shl1(x)
  OBVIOUS
<1>3. z = [i \in Indices |->
             LimbOr(LimbShiftLeft(x[i], 1),
                    IF i > 0 THEN LimbShiftRight(x[i - 1], LimbBits - 1) ELSE 0)]
  BY <1>2, Zenon DEF shl1
<1>4. z \in uint256 /\ Value(z) = (Value(x) * 2 ^ 1) % Modulus
  BY <1>1, <1>3, BitsLeft, Zenon
<1>5. QED
  BY <1>2, <1>4, PowerOne, Zenon

(* shl1 is the shift by one.                                               *)
LEMMA Shl1IsShift ==
  ASSUME NEW x \in uint256
  PROVE  shl1(x) = ShiftLeft(x, 1)
<1>1. Value(shl1(x)) = Value(ShiftLeft(x, 1)) /\ shl1(x) \in uint256 /\ ShiftLeft(x, 1) \in uint256
  <2>1. 1 \in Nat
    OBVIOUS
  <2>2. QED
    BY <2>1, Shl1Exact, ShiftLeftExact, PowerOne, Zenon
<1>2. QED
  BY <1>1, ValueDetermines, Zenon

-----------------------------------------------------------------------------
(* Single bits. *)

(* Multiples of a limb do not change the bits below it. *)
LEMMA BitOfLimb ==
  ASSUME NEW a \in Nat, NEW h \in Nat, NEW b \in Nat, b < LimbBits
  PROVE  BitOf(a + Limb * h, b) = BitOf(a, b)
<1>1. PICK m \in Nat, r \in Nat : m = b + 1 /\ r = LimbBits - m /\ m <= LimbBits
  BY WidthAssumption
<1>2. PICK P \in Nat \ {0}, R \in Nat \ {0} : P = 2 ^ b /\ R = 2 ^ r
  BY PowerPositive
<1>3. 2 ^ m = 2 * P
  BY <1>1, <1>2, PowerNext
<1>4. Limb = (2 * P) * R
  <2>1. 2 ^ LimbBits = 2 ^ m * 2 ^ r
    BY <1>1, WidthAssumption, PowerMonotone
  <2>2. QED
    BY <2>1, <1>2, <1>3 DEF Limb
<1>5. PICK e \in Nat : e = R * h
  BY ProductIsNat
<1>6. ((2 * P) * R) * h = P * (2 * e)
  <2>1. PICK T \in Nat : T = 2 * P
    OBVIOUS
  <2>2. (T * R) * h = T * e
    BY <1>5, Associate
  <2>3. T * e = P * (2 * e)
    BY <2>1
  <2>4. QED
    BY <2>1, <2>2, <2>3
<1>7. a + Limb * h = a + P * (2 * e)
  BY <1>4, <1>6
<1>8. PICK q \in Nat : q = a \div P
  BY DivIsNat
<1>9. (a + P * (2 * e)) \div P = q + 2 * e
  BY <1>8, DivPlusMultiple
<1>10. (q + 2 * e) % 2 = q % 2
  OBVIOUS
<1>11. QED
  BY <1>2, <1>7, <1>8, <1>9, <1>10, Zenon DEF BitOf

(* Limb k of x holds the bits from LimbBits * k on. *)
LEMMA LimbOfValue ==
  ASSUME NEW x \in uint256, NEW k \in 0 .. 3
  PROVE  \E h \in Nat : Value(x) \div 2 ^ (LimbBits * k) = x[k] + Limb * h
<1>1. PICK y : y = LimbsDown(x, k)
  OBVIOUS
<1>2. y \in uint256 /\ Value(y) = Value(x) \div 2 ^ (LimbBits * k)
  BY <1>1, MovesExact, Zenon
<1>3. y[0] = x[k]
  BY <1>1 DEF LimbsDown, Indices, limb_count
<1>4. PICK h \in Nat : Value(y) = y[0] + Limb * h
  BY <1>2, ValueRests
<1>5. QED
  BY <1>2, <1>3, <1>4

(* A limb is a digit.                                                      *)
LEMMA LimbIsDigit ==
  ASSUME NEW x \in uint256, NEW k \in 0 .. 3
  PROVE  x[k] \in Digit /\ x[k] \in Nat
<1>1. x[k] \in 0 .. Limb - 1
  BY DEF uint256, Indices, limb_count
<1>2. QED
  BY <1>1, LimbFacts DEF Digit

(* Bit s of the number is bit s % LimbBits of limb s \div LimbBits. *)
LEMMA BitOfValue ==
  ASSUME NEW x \in uint256, NEW s \in Nat, NEW k \in 0 .. 3, NEW b \in Nat, b < LimbBits,
         2 ^ s = 2 ^ (LimbBits * k) * 2 ^ b
  PROVE  BitOf(Value(x), s) = BitOf(x[k], b)
<1>1. PICK V \in Nat : V = Value(x)
  BY ValueRange
<1>2. PICK P \in Nat \ {0}, Q \in Nat \ {0} : P = 2 ^ (LimbBits * k) /\ Q = 2 ^ b
  <2>1. k \in Nat
    OBVIOUS
  <2>2. 2 ^ (LimbBits * k) \in Nat \ {0} /\ 2 ^ b \in Nat \ {0}
    BY <2>1, LimbPower, PowerPositive
  <2>3. QED
    BY <2>2, Zenon
<1>3. (V \div P) \div Q = V \div (P * Q)
  <2>1. V \in Int /\ P \in Nat \ {0} /\ Q \in Nat \ {0}
    BY <1>1, <1>2
  <2>2. QED
    BY <2>1, DivDiv
<1>4. PICK h \in Nat : V \div P = x[k] + Limb * h
  BY <1>1, <1>2, LimbOfValue, Zenon
<1>5. BitOf(x[k] + Limb * h, b) = BitOf(x[k], b)
  BY LimbIsDigit, BitOfLimb
<1>6. BitOf(V, s) = BitOf(x[k] + Limb * h, b)
  BY <1>2, <1>3, <1>4, Zenon DEF BitOf
<1>7. QED
  BY <1>1, <1>5, <1>6

(* get_bit reads the number's bit.                                         *)
LEMMA GetBit ==
  ASSUME NEW x \in uint256, NEW s \in Nat, s < bit_width_v
  PROVE  get_bit(x, s) <=> BitOf(Value(x), s) = 1
<1>1. PICK k \in 0 .. 3, b \in Nat :
        /\ k = s \div LimbBits /\ b = s % LimbBits /\ b < LimbBits
        /\ 2 ^ s = 2 ^ (LimbBits * k) * 2 ^ b
  BY Distance
<1>2. BitOf(Value(x), s) = BitOf(x[k], b)
  BY <1>1, BitOfValue
<1>3. get_bit(x, s) <=> BitOf(x[k], b) = 1
  BY <1>1, Zenon DEF get_bit, LimbShiftRight, BitOf
<1>4. QED
  BY <1>2, <1>3

(* The weights of the four limbs.                                          *)
LEMMA LimbPowers ==
  /\ 2 ^ (LimbBits * 0) = 1
  /\ 2 ^ (LimbBits * 1) = Limb
  /\ 2 ^ (LimbBits * 2) = Limb * Limb
  /\ 2 ^ (LimbBits * 3) = (Limb * Limb) * Limb
<1>1. PICK L \in Nat \ {0} : L = Limb
  BY LimbFacts
<1>2. PICK m \in Nat \ {0} : m = LimbBits
  BY WidthAssumption
<1>3. 2 ^ (LimbBits * 0) = 1
  <2>1. LimbBits * 0 = 0
    BY <1>2
  <2>2. QED
    BY <2>1, PowerZero
<1>4. 2 ^ (LimbBits * 1) = L
  BY <1>1, <1>2 DEF Limb
<1>5. 2 ^ (LimbBits * 2) = L * L
  <2>1. 2 ^ (LimbBits * (1 + 1)) = 2 ^ (LimbBits * 1) * Limb
    BY LimbPower
  <2>2. QED
    BY <2>1, <1>1, <1>4
<1>6. 2 ^ (LimbBits * 3) = (L * L) * L
  <2>1. 2 ^ (LimbBits * (2 + 1)) = 2 ^ (LimbBits * 2) * Limb
    BY LimbPower
  <2>2. QED
    BY <2>1, <1>1, <1>5
<1>7. QED
  BY <1>1, <1>3, <1>4, <1>5, <1>6

(* Adding to one limb. *)
LEMMA AddToLimb ==
  ASSUME NEW x \in uint256, NEW k \in 0 .. 3, NEW c \in Nat, NEW z,
         z = [x EXCEPT ![k] = @ + c]
  PROVE  Value(z) = Value(x) + 2 ^ (LimbBits * k) * c
<1>1. PICK L \in Nat \ {0} : L = Limb
  BY LimbFacts
<1>3. /\ 2 ^ (LimbBits * 0) = 1
      /\ 2 ^ (LimbBits * 1) = L
      /\ 2 ^ (LimbBits * 2) = L * L
      /\ 2 ^ (LimbBits * 3) = (L * L) * L
  BY <1>1, LimbPowers, Zenon
<1>7. PICK x0 \in Nat, x1 \in Nat, x2 \in Nat, x3 \in Nat :
        x0 = x[0] /\ x1 = x[1] /\ x2 = x[2] /\ x3 = x[3]
  BY LimbIsDigit
<1>8. Value(x) = x0 + L * (x1 + L * (x2 + L * x3))
  BY <1>1, <1>7, Zenon DEF Value
<1>9. \A i \in 0 .. 3 : z[i] = IF i = k THEN x[i] + c ELSE x[i]
  BY DEF uint256, Indices, limb_count
<1>10. CASE k = 0
  <2>1. Value(z) = (x0 + c) + L * (x1 + L * (x2 + L * x3))
    <3>1. z[0] = x0 + c /\ z[1] = x1 /\ z[2] = x2 /\ z[3] = x3
      BY <1>7, <1>9, <1>10
    <3>2. QED
      BY <3>1, <1>1, Zenon DEF Value
  <2>2. PICK t \in Int : t = L * (x1 + L * (x2 + L * x3))
    BY <1>7
  <2>3. 1 * c = c
    OBVIOUS
  <2>4. QED
    BY <1>3, <1>8, <1>10, <2>1, <2>2, <2>3
<1>11. CASE k = 1
  <2>1. Value(z) = x0 + L * ((x1 + c) + L * (x2 + L * x3))
    <3>1. z[0] = x0 /\ z[1] = x1 + c /\ z[2] = x2 /\ z[3] = x3
      BY <1>7, <1>9, <1>11
    <3>2. QED
      BY <3>1, <1>1, Zenon DEF Value
  <2>2. PICK t \in Int : t = L * (x2 + L * x3)
    BY <1>7
  <2>3. x0 + L * ((x1 + c) + t) = (x0 + L * (x1 + t)) + L * c
    OBVIOUS
  <2>4. QED
    BY <1>3, <1>8, <1>11, <2>1, <2>2, <2>3, Zenon
<1>12. CASE k = 2
  <2>1. Value(z) = x0 + L * (x1 + L * ((x2 + c) + L * x3))
    <3>1. z[0] = x0 /\ z[1] = x1 /\ z[2] = x2 + c /\ z[3] = x3
      BY <1>7, <1>9, <1>12
    <3>2. QED
      BY <3>1, <1>1, Zenon DEF Value
  <2>2. PICK t \in Int : t = L * x3
    BY <1>7
  <2>3. x0 + L * (x1 + L * ((x2 + c) + t)) = (x0 + L * (x1 + L * (x2 + t))) + (L * L) * c
    OBVIOUS
  <2>4. QED
    BY <1>3, <1>8, <1>12, <2>1, <2>2, <2>3, Zenon
<1>13. CASE k = 3
  <2>1. Value(z) = x0 + L * (x1 + L * (x2 + L * (x3 + c)))
    <3>1. z[0] = x0 /\ z[1] = x1 /\ z[2] = x2 /\ z[3] = x3 + c
      BY <1>7, <1>9, <1>13
    <3>2. QED
      BY <3>1, <1>1, Zenon DEF Value
  <2>3. x0 + L * (x1 + L * (x2 + L * (x3 + c)))
          = (x0 + L * (x1 + L * (x2 + L * x3))) + ((L * L) * L) * c
    OBVIOUS
  <2>4. QED
    BY <1>3, <1>8, <1>13, <2>1, <2>3, Zenon
<1>14. QED
  BY <1>10, <1>11, <1>12, <1>13

(* A bit below the width, where there is none yet, stays within the width. *)
LEMMA NewBitFits ==
  ASSUME NEW v \in Digit, NEW b \in Nat, b < LimbBits, BitOf(v, b) = 0
  PROVE  LimbOr(v, 2 ^ b) = v + 2 ^ b /\ v + 2 ^ b \in Digit /\ 2 ^ b \in Nat
<1>1. PICK u \in Nat, L \in Nat \ {0} : u = v /\ L = Limb /\ u < L
  BY LimbFacts DEF Digit
<1>2. PICK m \in Nat, r \in Nat : m = b + 1 /\ r = LimbBits - m /\ m <= LimbBits
  BY WidthAssumption
<1>3. PICK P \in Nat \ {0}, R \in Nat \ {0} : P = 2 ^ b /\ R = 2 ^ r
  BY PowerPositive
<1>4. PICK S \in Nat \ {0} : S = 2 * R
  OBVIOUS
<1>5. L = P * S
  <2>1. 2 ^ m = 2 * P
    BY <1>2, <1>3, PowerNext
  <2>2. 2 ^ LimbBits = 2 ^ m * 2 ^ r
    BY <1>2, WidthAssumption, PowerMonotone
  <2>3. (2 * P) * R = P * (2 * R)
    OBVIOUS
  <2>4. QED
    BY <2>1, <2>2, <2>3, <1>1, <1>3, <1>4, Zenon DEF Limb
<1>6. PICK q \in Nat, t \in 0 .. P - 1 : q = u \div P /\ u = P * q + t
  BY DivParts
<1>7. q \in 0 .. S - 1
  BY <1>1, <1>5, <1>6, DivBelow
<1>8. q % 2 = 0
  BY <1>1, <1>3, <1>6 DEF BitOf
<1>9. q + 2 <= S
  BY <1>4, <1>7, <1>8
<1>10. P * (q + 2) <= P * S
  BY <1>9, ProductAtMost
<1>11. u + P < L
  <2>1. P * (q + 2) = P * q + 2 * P
    OBVIOUS
  <2>2. PICK e \in Nat : e = P * q
    BY ProductIsNat
  <2>3. QED
    BY <2>1, <2>2, <1>5, <1>6, <1>10
<1>12. LimbOr(u, 2 ^ b) = u + 2 ^ b
  BY <1>1, OrNewBit
<1>13. QED
  BY <1>1, <1>3, <1>11, <1>12 DEF Digit

(* set_bit adds the bit's weight when the bit is clear.                    *)
LEMMA SetBit ==
  ASSUME NEW x \in uint256, NEW s \in Nat, s < bit_width_v, BitOf(Value(x), s) = 0
  PROVE  set_bit(x, s) \in uint256 /\ Value(set_bit(x, s)) = Value(x) + 2 ^ s
<1>1. PICK k \in 0 .. 3, b \in Nat :
        /\ k = s \div LimbBits /\ b = s % LimbBits /\ b < LimbBits
        /\ 2 ^ s = 2 ^ (LimbBits * k) * 2 ^ b
  BY Distance
<1>2. BitOf(x[k], b) = 0
  BY <1>1, BitOfValue
<1>3. LimbOr(x[k], 2 ^ b) = x[k] + 2 ^ b /\ x[k] + 2 ^ b \in Digit /\ 2 ^ b \in Nat
  BY <1>1, <1>2, LimbIsDigit, NewBitFits
<1>4. PICK z : z = set_bit(x, s)
  OBVIOUS
<1>5. PICK c \in Nat : c = 2 ^ b
  BY <1>3
<1>6. z = [x EXCEPT ![k] = x[k] + c]
  BY <1>1, <1>3, <1>4, <1>5 DEF set_bit
<1>7. z \in uint256
  BY <1>3, <1>5, <1>6 DEF uint256, Digit
<1>8. Value(z) = Value(x) + 2 ^ (LimbBits * k) * c
  BY <1>6, AddToLimb
<1>9. QED
  BY <1>1, <1>4, <1>5, <1>7, <1>8, Zenon

(* The lowest bit. *)
LEMMA SetLowest ==
  ASSUME NEW x \in uint256, Value(x) % 2 = 0, NEW z, z = [x EXCEPT ![0] = LimbOr(@, 1)]
  PROVE  z \in uint256 /\ Value(z) = Value(x) + 1
<1>1. BitOf(Value(x), 0) = 0
  <2>1. Value(x) \in Nat
    BY ValueRange
  <2>2. Value(x) \div 1 = Value(x)
    BY <2>1
  <2>3. QED
    BY <2>2, PowerZero DEF BitOf
<1>2. 0 < bit_width_v /\ 0 < LimbBits
  BY LimbFacts
<1>3. 0 \div LimbBits = 0 /\ 0 % LimbBits = 0
  BY WidthAssumption
<1>4. set_bit(x, 0) = z
  BY <1>3, PowerZero DEF set_bit
<1>5. set_bit(x, 0) \in uint256 /\ Value(set_bit(x, 0)) = Value(x) + 2 ^ 0
  BY <1>1, <1>2, SetBit
<1>6. QED
  BY <1>4, <1>5, PowerZero

-----------------------------------------------------------------------------
(* Division by a limb. *)

(* The unfolding of the recursion of divmod_u64. *)
LEMMA LimbSteps ==
  ASSUME NEW x, NEW c
  PROVE  \E s : /\ s[0] = [digit |-> 0, r |-> 0]
                /\ \A k \in 1 .. 4 :
                     s[k] = [digit |-> (LimbOr((s[k - 1].r * Limb) % DoubleLimb, x[4 - k]) \div c) % Limb,
                             r |-> LimbOr((s[k - 1].r * Limb) % DoubleLimb, x[4 - k]) % c]
                /\ divmod_u64(x, c) = [q |-> [i \in Indices |-> s[4 - i].digit],
                                       r |-> FromLimb(s[4].r)]
<1> DEFINE Under(r, k) == LimbOr((r * Limb) % DoubleLimb, x[4 - k])
           Next(r, k) == [digit |-> (Under(r, k) \div c) % Limb, r |-> Under(r, k) % c]
           Step(f) == [k \in 0 .. 4 |->
                         IF k = 0 THEN [digit |-> 0, r |-> 0] ELSE Next(f[k - 1].r, k)]
<1>1. \E f : f = Step(f)
  <2> HIDE DEF Next
  <2>1. PICK s0 : s0 = [digit |-> 0, r |-> 0]
    OBVIOUS
  <2>2. PICK s1 : s1 = Next(s0.r, 1)
    OBVIOUS
  <2>3. PICK s2 : s2 = Next(s1.r, 2)
    OBVIOUS
  <2>4. PICK s3 : s3 = Next(s2.r, 3)
    OBVIOUS
  <2>5. PICK s4 : s4 = Next(s3.r, 4)
    OBVIOUS
  <2>6. PICK f : f = [k \in 0 .. 4 |-> IF k = 0 THEN s0 ELSE IF k = 1 THEN s1 ELSE
                                       IF k = 2 THEN s2 ELSE IF k = 3 THEN s3 ELSE s4]
    OBVIOUS
  <2>7. f[0] = s0 /\ f[1] = s1 /\ f[2] = s2 /\ f[3] = s3 /\ f[4] = s4
    BY <2>6
  <2>8. ASSUME NEW k \in 0 .. 4
        PROVE  f[k] = IF k = 0 THEN [digit |-> 0, r |-> 0] ELSE Next(f[k - 1].r, k)
    <3>1. CASE k = 0
      BY <3>1, <2>1, <2>7
    <3>2. CASE k = 1
      BY <3>2, <2>2, <2>7
    <3>3. CASE k = 2
      BY <3>3, <2>3, <2>7
    <3>4. CASE k = 3
      BY <3>4, <2>4, <2>7
    <3>5. CASE k = 4
      BY <3>5, <2>5, <2>7
    <3>6. QED
      BY <3>1, <3>2, <3>3, <3>4, <3>5
  <2>9. f = Step(f)
    BY <2>6, <2>8
  <2>10. QED
    BY <2>9
<1>2. PICK s : s = CHOOSE f : f = Step(f)
  OBVIOUS
<1>3. s = Step(s)
  <2> HIDE DEF Step
  <2> QED BY <1>1, <1>2, Zenon
<1>4. divmod_u64(x, c) = [q |-> [i \in Indices |-> s[4 - i].digit], r |-> FromLimb(s[4].r)]
  BY <1>2 DEF divmod_u64, limb_count
<1>5. /\ s[0] = [digit |-> 0, r |-> 0]
      /\ \A k \in 1 .. 4 : s[k] = Next(s[k - 1].r, k)
  <2> HIDE DEF Next
  <2> QED BY <1>3
<1>6. QED
  BY <1>4, <1>5

(* One limb of the quotient. *)
LEMMA LimbStep ==
  ASSUME NEW c \in Digit, c # 0, NEW r \in 0 .. c - 1, NEW v \in Digit, NEW t,
         t = LimbOr((r * Limb) % DoubleLimb, v)
  PROVE  /\ (t \div c) % Limb \in Digit /\ t % c \in 0 .. c - 1
         /\ c * ((t \div c) % Limb) + (t % c) = v + Limb * r
<1>1. PICK L \in Nat \ {0} : L = Limb
  BY LimbFacts
<1>2. c \in Nat \ {0} /\ c < L /\ v \in Nat /\ v < L /\ r \in Nat /\ r < c /\ r + 1 <= c
  BY <1>1 DEF Digit
<1>3. PICK D \in Nat \ {0} : D = L * L /\ D = DoubleLimb
  BY <1>1, LimbFacts, ProductPositive
<1>4. PICK a \in Nat : a = L * r
  BY <1>2, ProductIsNat
<1>5. a + L <= L * c /\ L * c \in Nat /\ L * c <= D
  <2>1. L * (r + 1) <= L * c
    BY <1>2, ProductAtMost
  <2>2. L * (r + 1) = L * r + L
    BY <1>2
  <2>3. L * c <= L * L
    BY <1>2, ProductAtMost
  <2>4. QED
    BY <2>1, <2>2, <2>3, <1>2, <1>3, <1>4, ProductIsNat
<1>6. (r * Limb) % DoubleLimb = a
  <2>1. r * L = a
    BY <1>2, <1>4
  <2>2. a \in 0 .. D - 1
    BY <1>5
  <2>3. a % D = a
    BY <2>2, Small
  <2>4. QED
    BY <2>1, <2>3, <1>1, <1>3
<1>7. t = a + v
  <2>1. LimbBits \in Nat /\ v < 2 ^ LimbBits /\ L = 2 ^ LimbBits
    BY <1>1, <1>2, WidthAssumption DEF Limb
  <2>2. LimbOr(2 ^ LimbBits * r, v) = 2 ^ LimbBits * r + v
    BY <1>2, <2>1, OrOfParts
  <2>3. 2 ^ LimbBits * r = a
    BY <2>1, <1>4
  <2>4. QED
    BY <2>2, <2>3, <1>6
<1>8. PICK u \in Nat : u = t /\ u = a + v
  BY <1>2, <1>7
<1>9. PICK q \in Nat, e \in 0 .. c - 1 : q = u \div c /\ e = u % c /\ u = c * q + e
  BY <1>2, DivParts
<1>10. q \in 0 .. L - 1
  <2>1. u < c * L
    BY <1>2, <1>5, <1>8
  <2>2. u \div c \in 0 .. L - 1
    BY <1>2, <2>1, DivBelow
  <2>3. QED
    BY <1>9, <2>2
<1>11. q % L = q
  BY <1>10, Small
<1>12. (t \div c) % Limb = q /\ t % c = e
  BY <1>1, <1>8, <1>9, <1>11, Zenon
<1>13. q \in Digit
  BY <1>1, <1>10, Zenon DEF Digit
<1>14. c * q + e = v + Limb * r
  BY <1>1, <1>2, <1>4, <1>8, <1>9
<1>15. QED
  BY <1>9, <1>12, <1>13, <1>14, Zenon

(* The recursion keeps the remainder below the divisor. *)
LEMMA LimbQuotients ==
  ASSUME NEW x \in uint256, NEW c \in Digit, c # 0
  PROVE  \E y \in uint256, e \in [0 .. 4 -> Nat] :
           /\ e[4] = 0 /\ e[0] \in 0 .. c - 1
           /\ \A k \in 0 .. 3 : c * y[k] + e[k] = x[k] + Limb * e[k + 1]
           /\ divmod_u64(x, c) = [q |-> y, r |-> FromLimb(e[0])]
<1> DEFINE Under(r, k) == LimbOr((r * Limb) % DoubleLimb, x[4 - k])
<1>1. PICK s :
        /\ s[0] = [digit |-> 0, r |-> 0]
        /\ \A k \in 1 .. 4 : s[k] = [digit |-> (Under(s[k - 1].r, k) \div c) % Limb,
                                     r |-> Under(s[k - 1].r, k) % c]
        /\ divmod_u64(x, c) = [q |-> [i \in Indices |-> s[4 - i].digit], r |-> FromLimb(s[4].r)]
  BY LimbSteps
<1>2. c \in Nat \ {0} /\ 0 \in 0 .. c - 1 /\ 0 .. c - 1 \subseteq Nat /\ Digit \subseteq Nat
  BY LimbFacts DEF Digit
<1>3. ASSUME NEW k \in 1 .. 4, s[k - 1].r \in 0 .. c - 1
      PROVE  /\ s[k].digit \in Digit /\ s[k].r \in 0 .. c - 1
             /\ c * s[k].digit + s[k].r = x[4 - k] + Limb * s[k - 1].r
  <2>1. PICK t : t = Under(s[k - 1].r, k)
    OBVIOUS
  <2>2. PICK v \in Digit : v = x[4 - k]
    BY LimbIsDigit
  <2>3. PICK r \in 0 .. c - 1 : r = s[k - 1].r
    BY <1>3
  <2>4. t = LimbOr((r * Limb) % DoubleLimb, v)
    BY <2>1, <2>2, <2>3, Zenon
  <2>5. /\ (t \div c) % Limb \in Digit /\ t % c \in 0 .. c - 1
        /\ c * ((t \div c) % Limb) + (t % c) = v + Limb * r
    BY <2>4, LimbStep
  <2>6. s[k].digit = (t \div c) % Limb /\ s[k].r = t % c
    <3> HIDE DEF Under
    <3> QED BY <1>1, <2>1
  <2>7. QED
    BY <2>2, <2>3, <2>5, <2>6, Zenon
<1>4. s[0].r = 0
  BY <1>1
<1>5. /\ s[1].digit \in Digit /\ s[1].r \in 0 .. c - 1
      /\ c * s[1].digit + s[1].r = x[3] + Limb * s[0].r
  <2>1. 1 \in 1 .. 4 /\ 1 - 1 = 0 /\ 4 - 1 = 3 /\ s[1 - 1].r \in 0 .. c - 1
    BY <1>2, <1>4
  <2>2. QED
    BY <2>1, <1>3
<1>6. /\ s[2].digit \in Digit /\ s[2].r \in 0 .. c - 1
      /\ c * s[2].digit + s[2].r = x[2] + Limb * s[1].r
  <2>1. 2 \in 1 .. 4 /\ 2 - 1 = 1 /\ 4 - 2 = 2 /\ s[2 - 1].r \in 0 .. c - 1
    BY <1>5
  <2>2. QED
    BY <2>1, <1>3
<1>7. /\ s[3].digit \in Digit /\ s[3].r \in 0 .. c - 1
      /\ c * s[3].digit + s[3].r = x[1] + Limb * s[2].r
  <2>1. 3 \in 1 .. 4 /\ 3 - 1 = 2 /\ 4 - 3 = 1 /\ s[3 - 1].r \in 0 .. c - 1
    BY <1>6
  <2>2. QED
    BY <2>1, <1>3
<1>8. /\ s[4].digit \in Digit /\ s[4].r \in 0 .. c - 1
      /\ c * s[4].digit + s[4].r = x[0] + Limb * s[3].r
  <2>1. 4 \in 1 .. 4 /\ 4 - 1 = 3 /\ 4 - 4 = 0 /\ s[4 - 1].r \in 0 .. c - 1
    BY <1>7
  <2>2. QED
    BY <2>1, <1>3
<1>9. PICK y : y = [i \in Indices |-> s[4 - i].digit]
  OBVIOUS
<1>10. y[0] = s[4].digit /\ y[1] = s[3].digit /\ y[2] = s[2].digit /\ y[3] = s[1].digit
  BY <1>9 DEF Indices, limb_count
<1>11. y \in uint256
  <2>1. y = [i \in Indices |-> y[i]]
    BY <1>9
  <2>2. QED
    BY <2>1, <1>5, <1>6, <1>7, <1>8, <1>10, IsLimbs DEF Digit
<1>12. PICK e : e = [k \in 0 .. 4 |-> s[4 - k].r]
  OBVIOUS
<1>13. e[0] = s[4].r /\ e[1] = s[3].r /\ e[2] = s[2].r /\ e[3] = s[1].r /\ e[4] = s[0].r
  BY <1>12
<1>14. e \in [0 .. 4 -> Nat]
  <2>1. ASSUME NEW k \in 0 .. 4
        PROVE  s[4 - k].r \in Nat
    <3>1. s[0].r \in Nat /\ s[1].r \in Nat /\ s[2].r \in Nat /\ s[3].r \in Nat /\ s[4].r \in Nat
      BY <1>2, <1>4, <1>5, <1>6, <1>7, <1>8
    <3>2. 4 - k = 0 \/ 4 - k = 1 \/ 4 - k = 2 \/ 4 - k = 3 \/ 4 - k = 4
      OBVIOUS
    <3>3. QED
      BY <3>1, <3>2
  <2>2. QED
    BY <2>1, <1>12
<1>15. \A k \in 0 .. 3 : c * y[k] + e[k] = x[k] + Limb * e[k + 1]
  <2>1. ASSUME NEW k \in 0 .. 3
        PROVE  c * y[k] + e[k] = x[k] + Limb * e[k + 1]
    <3>1. CASE k = 0
      BY <3>1, <1>8, <1>10, <1>13
    <3>2. CASE k = 1
      BY <3>2, <1>7, <1>10, <1>13
    <3>3. CASE k = 2
      BY <3>3, <1>6, <1>10, <1>13
    <3>4. CASE k = 3
      BY <3>4, <1>5, <1>10, <1>13
    <3>5. QED
      BY <3>1, <3>2, <3>3, <3>4
  <2>2. QED
    BY <2>1
<1>16. e[4] = 0 /\ e[0] \in 0 .. c - 1
  BY <1>4, <1>8, <1>13
<1>17. divmod_u64(x, c) = [q |-> y, r |-> FromLimb(e[0])]
  BY <1>1, <1>9, <1>13, Zenon
<1>18. QED
  BY <1>11, <1>14, <1>15, <1>16, <1>17, Zenon

(* divmod_u64 divides with remainder.                                      *)
LEMMA DivideByLimbExact ==
  ASSUME NEW x \in uint256, NEW c \in Digit, c # 0, NEW z, z = divmod_u64(x, c)
  PROVE  /\ z \in [q : uint256, r : uint256]
         /\ Value(z.q) = Value(x) \div c /\ Value(z.r) = Value(x) % c
<1>1. PICK y \in uint256, e \in [0 .. 4 -> Nat] :
        /\ e[4] = 0 /\ e[0] \in 0 .. c - 1
        /\ \A k \in 0 .. 3 : c * y[k] + e[k] = x[k] + Limb * e[k + 1]
        /\ z = [q |-> y, r |-> FromLimb(e[0])]
  BY LimbQuotients, Zenon
<1>2. c \in Nat \ {0} /\ c \in Int /\ 0 .. c - 1 \subseteq Digit
  BY LimbFacts DEF Digit
<1>3. c * Value(y) + e[0] = Value(x) + Modulus * e[4]
  <2>1. /\ c * y[0] + e[0] = x[0] + Limb * e[1]
        /\ c * y[1] + e[1] = x[1] + Limb * e[2]
        /\ c * y[2] + e[2] = x[2] + Limb * e[3]
        /\ c * y[3] + e[3] = x[3] + Limb * e[4]
    BY <1>1
  <2>2. e \in [0 .. 4 -> Int] /\ y \in [Indices -> Int] /\ x \in [Indices -> Int]
    <3>1. e \in [0 .. 4 -> Int]
      BY <1>1
    <3>2. QED
      BY <3>1, <1>1, IntLimbs
  <2>3. QED
    BY <2>1, <2>2, <1>2, ScaledChain
<1>4. PICK V \in Nat, Q \in Nat, M \in Nat : V = Value(x) /\ Q = Value(y) /\ M = Modulus
  BY <1>1, ValueRange, LimbFacts
<1>5. PICK u \in 0 .. c - 1 : u = e[0]
  BY <1>1
<1>6. V = c * Q + u
  <2>1. c * Q + u = V + M * 0
    BY <1>1, <1>3, <1>4, <1>5, Zenon
  <2>2. QED
    BY <2>1, <1>4
<1>7. V \div c = Q /\ V % c = u
  <2>1. c \in Nat \ {0} /\ Q \in Int /\ u \in 0 .. c - 1 /\ V \in Int
    BY <1>2
  <2>2. QED
    BY <2>1, <1>6, DivOf
<1>8. u \in Digit
  BY <1>2, <1>5
<1>9. FromLimb(u) \in uint256 /\ Value(FromLimb(u)) = u
  BY <1>8, FromLimbExact
<1>10. z.q = y /\ z.r = FromLimb(u) /\ z \in [q : uint256, r : uint256]
  BY <1>1, <1>5, <1>9
<1>11. QED
  BY <1>4, <1>7, <1>9, <1>10, Zenon

-----------------------------------------------------------------------------
(* Bit queries. *)

(* Min is the least element.                                               *)
LEMMA Smallest ==
  ASSUME NEW T, T \subseteq Nat, T # {}
  PROVE  Min(T) \in T /\ \A k \in T : Min(T) <= k
<1>1. \E m \in T : \A k \in T : m <= k
  BY Least
<1>2. QED
  BY <1>1, Zenon DEF Min

(* Max is the greatest element.                                            *)
LEMMA Largest ==
  ASSUME NEW w \in Nat, NEW T, T \subseteq 0 .. w, T # {}
  PROVE  Max(T) \in T /\ \A k \in T : Max(T) >= k
<1>1. PICK U : U = {w - k : k \in T}
  OBVIOUS
<1>2. U \subseteq Nat /\ U # {}
  <2>1. \A k \in T : w - k \in Nat
    OBVIOUS
  <2>2. \A u \in U : \E k \in T : u = w - k
    BY <1>1
  <2>3. PICK k \in T : TRUE
    OBVIOUS
  <2>4. w - k \in U
    BY <1>1
  <2>5. QED
    BY <2>1, <2>2, <2>4
<1>3. PICK m \in U : \A k \in U : m <= k
  BY <1>2, Least
<1>4. PICK j \in T : m = w - j
  BY <1>1
<1>5. ASSUME NEW k \in T
      PROVE  j >= k
  <2>1. w - k \in U
    BY <1>1
  <2>2. w - j <= w - k
    BY <2>1, <1>3, <1>4
  <2>3. QED
    BY <2>2
<1>6. \E x \in T : \A y \in T : x >= y
  BY <1>5
<1>7. QED
  BY <1>6, Zenon DEF Max

(* The bits of a limb. *)
LEMMA LimbBitsOf ==
  ASSUME NEW v
  PROVE  /\ BitsOf(v) \subseteq 0 .. LimbBits - 1 /\ BitsOf(v) \subseteq Nat
         /\ \A k \in 0 .. LimbBits - 1 : k \in BitsOf(v) <=> BitOf(v, k) = 1
BY DEF BitsOf, BitOf, LimbShiftRight

(* Above every bit nothing is left, and below every bit nothing is cut     *)
(* off.                                                                    *)
LEMMA NoBitsLeft ==
  ASSUME NEW v \in Nat, NEW w \in Nat, v < 2 ^ w, NEW h \in 0 .. w,
         \A k \in h .. w - 1 : BitOf(v, k) = 0
  PROVE  v \div 2 ^ h = 0
<1> DEFINE T == {j \in 0 .. w - h : v \div 2 ^ (w - j) = 0}
<1>1. 0 \in T
  <2>1. PICK P \in Nat \ {0} : P = 2 ^ w
    BY PowerPositive
  <2>2. v \in 0 .. P - 1
    BY <2>1
  <2>3. v \div P = 0
    BY <2>2, Small
  <2>4. QED
    BY <2>1, <2>3
<1>2. ASSUME NEW j \in 0 .. w - h - 1, j \in T
      PROVE  j + 1 \in T
  <2>1. PICK k \in Nat : k = w - (j + 1) /\ k + 1 = w - j /\ k \in h .. w - 1
    OBVIOUS
  <2>2. v \div 2 ^ k = 2 * (v \div 2 ^ (k + 1)) + BitOf(v, k)
    BY BitSplit
  <2>3. v \div 2 ^ (k + 1) = 0 /\ BitOf(v, k) = 0
    BY <2>1, <1>2
  <2>4. v \div 2 ^ k = 0
    BY <2>2, <2>3
  <2>5. QED
    BY <2>1, <2>4
<1>3. 0 .. w - h \subseteq T
  <2> HIDE DEF T
  <2> QED BY <1>1, <1>2, UpTo
<1>4. w - h \in 0 .. w - h /\ w - (w - h) = h
  OBVIOUS
<1>5. QED
  BY <1>3, <1>4

(* A number with no bit below h is a multiple of 2^h.                      *)
LEMMA NoBitsBelow ==
  ASSUME NEW v \in Nat, NEW h \in Nat, \A k \in 0 .. h - 1 : BitOf(v, k) = 0
  PROVE  v % 2 ^ h = 0
<1> DEFINE T == {j \in 0 .. h : v % 2 ^ j = 0}
<1>1. 0 \in T
  <2>1. v % 1 = 0
    OBVIOUS
  <2>2. v % 2 ^ 0 = 0
    BY <2>1, PowerZero
  <2>3. QED
    BY <2>2
<1>2. ASSUME NEW j \in 0 .. h - 1, j \in T
      PROVE  j + 1 \in T
  <2>1. v % 2 ^ (j + 1) = (v % 2 ^ j) + 2 ^ j * BitOf(v, j)
    BY BitSplit
  <2>2. v % 2 ^ j = 0 /\ BitOf(v, j) = 0
    BY <1>2
  <2>3. PICK P \in Nat : P = 2 ^ j
    BY PowerIsNat
  <2>4. P * 0 = 0
    OBVIOUS
  <2>5. v % 2 ^ (j + 1) = 0
    BY <2>1, <2>2, <2>3, <2>4
  <2>6. QED
    BY <2>5
<1>3. 0 .. h \subseteq T
  <2> HIDE DEF T
  <2> QED BY <1>1, <1>2, UpTo
<1>4. QED
  BY <1>3

(* A limb that is not zero has a bit; the highest and the lowest of them   *)
(* bound it.                                                               *)
LEMMA BitBounds ==
  ASSUME NEW v \in Digit, v # 0
  PROVE  \E h, l \in 0 .. LimbBits - 1 :
           /\ h = Max(BitsOf(v)) /\ l = Min(BitsOf(v)) /\ l <= h
           /\ h \in BitsOf(v) /\ l \in BitsOf(v)
           /\ \A k \in BitsOf(v) : l <= k /\ k <= h
           /\ 2 ^ h <= v /\ v < 2 ^ (h + 1)
           /\ v % 2 ^ l = 0 /\ BitOf(v, l) = 1
<1>1. PICK w \in Nat : w = LimbBits /\ v < 2 ^ w /\ w > 0
  BY WidthAssumption, PowerIsNat DEF Digit, Limb
<1>2. v \in Nat
  BY LimbIsDigit, LimbFacts DEF Digit
<1>3. BitsOf(v) # {}
  <2>1. SUFFICES ASSUME BitsOf(v) = {} PROVE FALSE
    OBVIOUS
  <2>2. ASSUME NEW k \in 0 .. w - 1
        PROVE  BitOf(v, k) = 0
    <3>1. k \in Nat /\ k \notin BitsOf(v)
      BY <2>1
    <3>2. BitOf(v, k) # 1
      BY <3>1, <1>1, LimbBitsOf
    <3>3. BitOf(v, k) \in {0, 1}
      BY <3>1, <1>2, BitIsBit
    <3>4. QED
      BY <3>2, <3>3
  <2>3. v \div 2 ^ 0 = 0
    <3>1. 0 \in 0 .. w /\ \A k \in 0 .. w - 1 : BitOf(v, k) = 0
      BY <2>2
    <3>2. QED
      BY <3>1, <1>1, <1>2, NoBitsLeft
  <2>4. QED
    BY <2>3, <1>2, PowerZero
<1>4. BitsOf(v) \subseteq 0 .. w - 1 /\ BitsOf(v) \subseteq Nat /\ w - 1 \in Nat
  BY <1>1, LimbBitsOf
<1>5. PICK h : h = Max(BitsOf(v)) /\ h \in BitsOf(v) /\ \A k \in BitsOf(v) : h >= k
  BY <1>3, <1>4, Largest
<1>6. PICK l : l = Min(BitsOf(v)) /\ l \in BitsOf(v) /\ \A k \in BitsOf(v) : l <= k
  BY <1>3, <1>4, Smallest
<1>7. h \in 0 .. w - 1 /\ l \in 0 .. w - 1 /\ l <= h /\ BitOf(v, h) = 1 /\ BitOf(v, l) = 1
  BY <1>1, <1>4, <1>5, <1>6, LimbBitsOf
<1>8. v \div 2 ^ (h + 1) = 0
  <2>1. ASSUME NEW k \in h + 1 .. w - 1
        PROVE  BitOf(v, k) = 0
    <3>1. k \in 0 .. w - 1 /\ k \notin BitsOf(v)
      BY <1>4, <1>5, <1>7
    <3>2. k \in Nat
      BY <3>1
    <3>3. QED
      BY <3>1, <3>2, <1>1, <1>2, LimbBitsOf, BitIsBit
  <2>2. h + 1 \in 0 .. w
    BY <1>7
  <2>3. QED
    BY <2>1, <2>2, <1>1, <1>2, NoBitsLeft
<1>9. v % 2 ^ l = 0
  <2>1. ASSUME NEW k \in 0 .. l - 1
        PROVE  BitOf(v, k) = 0
    <3>1. k \in 0 .. w - 1 /\ k \notin BitsOf(v)
      BY <1>4, <1>6, <1>7
    <3>2. k \in Nat
      BY <3>1
    <3>3. QED
      BY <3>1, <3>2, <1>1, <1>2, LimbBitsOf, BitIsBit
  <2>2. l \in Nat
    BY <1>7
  <2>3. QED
    BY <2>1, <2>2, <1>2, NoBitsBelow
<1>10. 2 ^ h <= v /\ v < 2 ^ (h + 1)
  <2>1. PICK P \in Nat \ {0} : P = 2 ^ h
    BY <1>7, PowerPositive
  <2>2. PICK P2 \in Nat \ {0} : P2 = 2 * P
    OBVIOUS
  <2>3. 2 ^ (h + 1) = P2
    BY <1>7, <2>1, <2>2, PowerNext
  <2>4. v = P2 * (v \div P2) + (v % P2) /\ v % P2 \in 0 .. P2 - 1
    BY <1>2, DivSplit
  <2>5. v = v % P2
    <3>1. v \div P2 = 0
      BY <1>8, <2>3
    <3>2. P2 * 0 = 0
      OBVIOUS
    <3>3. QED
      BY <2>4, <3>1, <3>2
  <2>6. v < P2
    BY <2>4, <2>5, <1>2
  <2>7. v >= P
    <3>1. SUFFICES ASSUME v < P PROVE FALSE
      BY <1>2
    <3>2. v \in 0 .. P - 1
      BY <3>1, <1>2
    <3>3. v \div P = 0
      BY <3>2, Small
    <3>4. QED
      BY <3>3, <2>1, <1>7 DEF BitOf
  <2>8. QED
    BY <2>1, <2>3, <2>6, <2>7
<1>11. QED
  BY <1>1, <1>5, <1>6, <1>7, <1>9, <1>10

(* The lowest LimbBits * k + b bits, limb by limb. *)
LowPart(x, k, b) ==
  [i \in Indices |-> IF i < k THEN x[i] ELSE IF i = k THEN x[i] % 2 ^ b ELSE 0]

(* The lowest digit of a remainder.                                        *)
LEMMA LowDigit ==
  ASSUME NEW a \in Nat, NEW h \in Nat, NEW b \in Shift
  PROVE  (a + Limb * h) % 2 ^ b = a % 2 ^ b
<1>1. PICK P \in Nat \ {0}, R \in Nat \ {0} : P = 2 ^ b /\ R = 2 ^ (LimbBits - b) /\ Limb = P * R
  BY LimbSplit, Zenon DEF Shift
<1>2. PICK e \in Nat : e = R * h
  BY ProductIsNat
<1>3. (P * R) * h = P * e
  BY <1>2, Associate
<1>4. (a + P * e) % P = a % P
  <2>1. P \in Nat \ {0} /\ a \in Int /\ e \in Int
    BY <1>1, <1>2
  <2>2. QED
    BY <2>1, DivPlusMultiple
<1>5. QED
  BY <1>1, <1>3, <1>4, Zenon

(* The limbs below limb k are a remainder.                                 *)
LEMMA PrefixMod ==
  ASSUME NEW L \in Nat \ {0}, NEW T \in Nat \ {0}, NEW x \in 0 .. L - 1, NEW X \in Nat
  PROVE  (x + L * X) % (L * T) = x + L * (X % T)
<1>1. PICK q \in Nat, r \in 0 .. T - 1 : r = X % T /\ X = T * q + r
  BY DivParts
<1>2. PICK M \in Nat \ {0} : M = L * T
  BY ProductPositive
<1>3. PICK s \in Nat : s = x + L * r
  <2>1. L * r \in Nat
    BY ProductIsNat
  <2>2. QED
    BY <2>1
<1>4. s \in 0 .. M - 1
  BY <1>2, <1>3, HornerRange
<1>5. PICK v \in Nat : v = x + L * X
  <2>1. L * X \in Nat
    BY ProductIsNat
  <2>2. QED
    BY <2>1
<1>6. v = M * q + s
  <2>1. L * (T * q + r) = (L * T) * q + L * r
    OBVIOUS
  <2>2. PICK a \in Int, c \in Int : a = M * q /\ c = L * r
    BY ProductIsInt
  <2>3. v = x + (a + c)
    BY <1>1, <1>2, <1>5, <2>1, <2>2
  <2>4. QED
    BY <1>3, <2>2, <2>3
<1>7. v % M = s
  BY <1>4, <1>6, DivOf
<1>8. QED
  BY <1>1, <1>2, <1>3, <1>5, <1>7, Zenon

(* So are they with the bits of limb k below bit b.                        *)
LEMMA LowPartExact ==
  ASSUME NEW x \in uint256, NEW k \in 0 .. 3, NEW b \in Shift
  PROVE  /\ LowPart(x, k, b) \in uint256
         /\ Value(LowPart(x, k, b)) = Value(x) % (2 ^ (LimbBits * k) * 2 ^ b)
<1>1. PICK L \in Nat \ {0}, P \in Nat \ {0} : L = Limb /\ P = 2 ^ b
  BY LimbFacts, LimbSplit DEF Shift
<1>2. PICK z : z = LowPart(x, k, b)
  OBVIOUS
<1>3. /\ 2 ^ (LimbBits * 0) = 1
      /\ 2 ^ (LimbBits * 1) = L
      /\ 2 ^ (LimbBits * 2) = L * L
      /\ 2 ^ (LimbBits * 3) = (L * L) * L
  BY <1>1, LimbPowers, Zenon
<1>4. PICK x0 \in 0 .. L - 1, x1 \in 0 .. L - 1, x2 \in 0 .. L - 1, x3 \in 0 .. L - 1 :
        x0 = x[0] /\ x1 = x[1] /\ x2 = x[2] /\ x3 = x[3]
  BY <1>1, LimbsOf
<1>5. PICK t3 \in Nat : t3 = x3 + L * 0
  OBVIOUS
<1>6. PICK t2 \in Nat : t2 = x2 + L * t3
  <2>1. L * t3 \in Nat
    BY ProductIsNat
  <2>2. QED
    BY <2>1
<1>7. PICK t1 \in Nat : t1 = x1 + L * t2
  <2>1. L * t2 \in Nat
    BY ProductIsNat
  <2>2. QED
    BY <2>1
<1>8. PICK t0 \in Nat : t0 = x0 + L * t1
  <2>1. L * t1 \in Nat
    BY ProductIsNat
  <2>2. QED
    BY <2>1
<1>9. Value(x) = t0
  <2>1. Value(x) = x0 + L * (x1 + L * (x2 + L * x3))
    BY <1>1, <1>4, Zenon DEF Value
  <2>2. t3 = x3
    BY <1>5
  <2>3. QED
    BY <2>1, <2>2, <1>6, <1>7, <1>8, Zenon
<1>10. x0 \in Nat /\ x1 \in Nat /\ x2 \in Nat /\ x3 \in Nat /\ 0 \in Nat
  OBVIOUS
<1>11. /\ t0 % P = x0 % P /\ t1 % P = x1 % P /\ t2 % P = x2 % P /\ t3 % P = x3 % P
  <2>1. \A a, h \in Nat : (a + Limb * h) % 2 ^ b = a % 2 ^ b
    BY LowDigit
  <2>2. QED
    BY <2>1, <1>1, <1>5, <1>6, <1>7, <1>8, <1>10, Zenon
<1>12. PICK r0 \in 0 .. L - 1, r1 \in 0 .. L - 1, r2 \in 0 .. L - 1, r3 \in 0 .. L - 1 :
         r0 = x0 % P /\ r1 = x1 % P /\ r2 = x2 % P /\ r3 = x3 % P
  <2>1. ASSUME NEW u \in 0 .. L - 1
        PROVE  u % P \in 0 .. L - 1
    <3>1. PICK q \in Nat, r \in 0 .. P - 1 : r = u % P /\ u = P * q + r
      BY DivParts
    <3>2. PICK e \in Nat : e = P * q
      BY ProductIsNat
    <3>3. r <= u
      BY <3>1, <3>2
    <3>4. QED
      BY <3>1, <3>3
  <2>2. QED
    BY <2>1
<1>13. \A i \in 0 .. 3 : z[i] = IF i < k THEN x[i] ELSE IF i = k THEN x[i] % P ELSE 0
  BY <1>1, <1>2 DEF LowPart, Indices, limb_count
<1>14. z = [i \in Indices |-> z[i]]
  BY <1>2 DEF LowPart
<1>15. z \in uint256
  <2>1. \A i \in 0 .. 3 : x[i] \in 0 .. Limb - 1 /\ x[i] % P \in 0 .. Limb - 1
    BY <1>1, <1>4, <1>12
  <2>2. 0 \in 0 .. Limb - 1
    BY LimbFacts
  <2>3. \A i \in 0 .. 3 : z[i] \in 0 .. Limb - 1
    BY <1>13, <2>1, <2>2
  <2>4. QED
    BY <1>14, <2>3, IsLimbs
<1>16. Value(z) = z[0] + L * (z[1] + L * (z[2] + L * z[3]))
  BY <1>1, Zenon DEF Value
<1>17. /\ L * P \in Nat \ {0} /\ L * (L * P) \in Nat \ {0} /\ L * (L * (L * P)) \in Nat \ {0}
  <2>1. L * P \in Nat \ {0}
    BY ProductPositive
  <2>2. L * (L * P) \in Nat \ {0}
    BY <2>1, ProductPositive
  <2>3. QED
    BY <2>1, <2>2, ProductPositive
<1>18. /\ t2 % (L * P) = x2 + L * r3
       /\ t1 % (L * P) = x1 + L * r2
       /\ t0 % (L * P) = x0 + L * r1
  <2>1. /\ (x2 + L * t3) % (L * P) = x2 + L * (t3 % P)
        /\ (x1 + L * t2) % (L * P) = x1 + L * (t2 % P)
        /\ (x0 + L * t1) % (L * P) = x0 + L * (t1 % P)
    BY PrefixMod, ZenonT(40)
  <2>2. QED
    BY <2>1, <1>6, <1>7, <1>8, <1>11, <1>12, Zenon
<1>19. /\ t1 % (L * (L * P)) = x1 + L * (x2 + L * r3)
       /\ t0 % (L * (L * P)) = x0 + L * (x1 + L * r2)
  <2>1. PICK M \in Nat \ {0} : M = L * P
    BY <1>17
  <2>2. (x1 + L * t2) % (L * M) = x1 + L * (t2 % M)
    BY PrefixMod, ZenonT(40)
  <2>3. (x0 + L * t1) % (L * M) = x0 + L * (t1 % M)
    BY PrefixMod, ZenonT(40)
  <2>4. QED
    BY <2>1, <2>2, <2>3, <1>6, <1>7, <1>8, <1>18, Zenon
<1>20. t0 % (L * (L * (L * P))) = x0 + L * (x1 + L * (x2 + L * r3))
  <2>1. PICK M \in Nat \ {0} : M = L * (L * P)
    BY <1>17
  <2>2. (x0 + L * t1) % (L * M) = x0 + L * (t1 % M)
    BY PrefixMod, ZenonT(40)
  <2>3. QED
    BY <2>1, <2>2, <1>8, <1>7, <1>19, Zenon
<1>21. CASE k = 0
  <2>1. z[0] = r0 /\ z[1] = 0 /\ z[2] = 0 /\ z[3] = 0
    BY <1>4, <1>12, <1>13, <1>21
  <2>2. r0 + L * (0 + L * (0 + L * 0)) = r0 /\ 1 * P = P
    OBVIOUS
  <2>3. QED
    BY <2>1, <2>2, <1>1, <1>2, <1>3, <1>9, <1>11, <1>12, <1>15, <1>16, <1>21, Zenon
<1>22. CASE k = 1
  <2>1. z[0] = x0 /\ z[1] = r1 /\ z[2] = 0 /\ z[3] = 0
    BY <1>4, <1>12, <1>13, <1>22
  <2>2. r1 + L * (0 + L * 0) = r1
    OBVIOUS
  <2>3. QED
    BY <2>1, <2>2, <1>1, <1>2, <1>3, <1>9, <1>15, <1>16, <1>18, <1>22, Zenon
<1>23. CASE k = 2
  <2>1. z[0] = x0 /\ z[1] = x1 /\ z[2] = r2 /\ z[3] = 0
    BY <1>4, <1>12, <1>13, <1>23
  <2>2. r2 + L * 0 = r2 /\ (L * L) * P = L * (L * P)
    OBVIOUS
  <2>3. QED
    BY <2>1, <2>2, <1>1, <1>2, <1>3, <1>9, <1>15, <1>16, <1>19, <1>23, Zenon
<1>24. CASE k = 3
  <2>1. z[0] = x0 /\ z[1] = x1 /\ z[2] = x2 /\ z[3] = r3
    BY <1>4, <1>12, <1>13, <1>24
  <2>2. ((L * L) * L) * P = L * (L * (L * P))
    OBVIOUS
  <2>3. QED
    BY <2>1, <2>2, <1>1, <1>2, <1>3, <1>9, <1>15, <1>16, <1>20, <1>24, Zenon
<1>25. QED
  BY <1>21, <1>22, <1>23, <1>24

(* The highest and the lowest limb that are not zero. *)
LEMMA LimbBounds ==
  ASSUME NEW x \in uint256, ~is_zero(x)
  PROVE  \E i, j \in 0 .. 3 :
           /\ i = Max(NonzeroLimbs(x)) /\ j = Min(NonzeroLimbs(x)) /\ j <= i
           /\ i \in NonzeroLimbs(x) /\ j \in NonzeroLimbs(x)
           /\ \A k \in NonzeroLimbs(x) : j <= k /\ k <= i
           /\ x[i] # 0 /\ x[j] # 0
           /\ \A k \in 0 .. 3 : k < j \/ k > i => x[k] = 0
<1>1. /\ NonzeroLimbs(x) \subseteq 0 .. 3 /\ NonzeroLimbs(x) \subseteq Nat
      /\ NonzeroLimbs(x) # {}
  BY DEF NonzeroLimbs, is_zero, Indices, limb_count
<1>2. PICK i : i = Max(NonzeroLimbs(x)) /\ i \in NonzeroLimbs(x) /\ \A k \in NonzeroLimbs(x) : i >= k
  BY <1>1, Largest
<1>3. PICK j : j = Min(NonzeroLimbs(x)) /\ j \in NonzeroLimbs(x) /\ \A k \in NonzeroLimbs(x) : j <= k
  BY <1>1, Smallest
<1>4. i \in 0 .. 3 /\ j \in 0 .. 3 /\ j <= i /\ x[i] # 0 /\ x[j] # 0
  BY <1>1, <1>2, <1>3 DEF NonzeroLimbs
<1>5. ASSUME NEW k \in 0 .. 3, k < j \/ k > i
      PROVE  x[k] = 0
  <2>1. k \notin NonzeroLimbs(x)
    BY <1>2, <1>3, <1>4, <1>5
  <2>2. QED
    BY <2>1 DEF NonzeroLimbs, Indices, limb_count
<1>6. QED
  BY <1>1, <1>2, <1>3, <1>4, <1>5

(* The limbs above the highest one that is not zero do not count. *)
LEMMA HighestLimb ==
  ASSUME NEW x \in uint256, NEW i \in 0 .. 3, \A k \in 0 .. 3 : k > i => x[k] = 0
  PROVE  Value(x) \div 2 ^ (LimbBits * i) = x[i]
<1>1. PICK y : y = LimbsDown(x, i)
  OBVIOUS
<1>2. y \in uint256 /\ Value(y) = Value(x) \div 2 ^ (LimbBits * i)
  BY <1>1, MovesExact, Zenon
<1>3. y[0] = x[i] /\ y[1] = 0 /\ y[2] = 0 /\ y[3] = 0
  <2>1. \A k \in 0 .. 3 : y[k] = IF k + i < 4 THEN x[k + i] ELSE 0
    BY <1>1 DEF LimbsDown, Indices, limb_count
  <2>2. y[0] = x[i]
    BY <2>1
  <2>3. ASSUME NEW k \in 1 .. 3
        PROVE  y[k] = 0
    BY <2>1
  <2>4. QED
    BY <2>2, <2>3
<1>4. PICK L \in Nat, v \in Nat : L = Limb /\ v = x[i]
  BY LimbFacts, LimbIsDigit
<1>5. Value(y) = v + L * (0 + L * (0 + L * 0))
  BY <1>3, <1>4, Zenon DEF Value
<1>6. v + L * (0 + L * (0 + L * 0)) = v
  OBVIOUS
<1>7. QED
  BY <1>2, <1>4, <1>5, <1>6

(* Bounds of a number from those of its quotient by a power of two. *)
LEMMA QuotientBounds ==
  ASSUME NEW V \in Nat, NEW m \in Nat, NEW h \in Nat, NEW v \in Nat,
         V \div 2 ^ m = v, 2 ^ h <= v, v < 2 ^ (h + 1)
  PROVE  2 ^ (m + h) <= V /\ V < 2 ^ (m + h + 1)
<1>1. PICK P \in Nat \ {0}, H \in Nat \ {0} : P = 2 ^ m /\ H = 2 ^ h
  BY PowerPositive
<1>2. PICK K \in Nat \ {0} : K = 2 * H /\ K = 2 ^ (h + 1)
  BY <1>1, PowerNext
<1>3. 2 ^ (m + h) = P * H
  BY <1>1, PowerSum
<1>4. 2 ^ (m + h + 1) = P * K
  <2>1. PICK g \in Nat : g = h + 1
    OBVIOUS
  <2>2. 2 ^ (m + g) = 2 ^ m * 2 ^ g /\ m + g = m + h + 1
    BY <2>1, PowerSum
  <2>3. QED
    BY <2>1, <2>2, <1>1, <1>2
<1>5. PICK r \in 0 .. P - 1 : V = P * v + r
  BY <1>1, DivParts
<1>6. P * H <= P * v /\ P * (v + 1) <= P * K
  BY <1>1, <1>2, ProductAtMost
<1>7. P * (v + 1) = P * v + P /\ P * v \in Nat /\ P * H \in Nat /\ P * K \in Nat
  BY ProductIsNat
<1>8. QED
  BY <1>3, <1>4, <1>5, <1>6, <1>7

(* A multiple of the limb's width as weights.                              *)
LEMMA LimbTimes ==
  ASSUME NEW i \in 0 .. 3
  PROVE  /\ i * LimbBits = LimbBits * i /\ LimbBits * i \in Nat
         /\ (limb_count - 1 - i) * LimbBits = LimbBits * 3 - LimbBits * i
         /\ bit_width_v = LimbBits * 3 + LimbBits
<1>1. PICK m \in Nat : m = LimbBits
  BY WidthAssumption
<1>2. i * m = m * i /\ m * i \in Nat /\ (4 - 1 - i) * m = m * 3 - m * i /\ 4 * m = m * 3 + m
  OBVIOUS
<1>3. QED
  BY <1>1, <1>2 DEF bit_width_v, limb_count

(* is_zero asks whether the number is zero.                                *)
LEMMA ZeroOrNot ==
  ASSUME NEW x \in uint256
  PROVE  is_zero(x) <=> Value(x) = 0
<1>1. is_zero(x) => Value(x) = 0
  <2>1. SUFFICES ASSUME is_zero(x) PROVE Value(x) = 0
    OBVIOUS
  <2>2. x[0] = 0 /\ x[1] = 0 /\ x[2] = 0 /\ x[3] = 0
    BY <2>1 DEF is_zero, Indices, limb_count
  <2>3. PICK L \in Nat : L = Limb
    BY LimbFacts
  <2>4. Value(x) = 0 + L * (0 + L * (0 + L * 0))
    BY <2>2, <2>3, Zenon DEF Value
  <2>5. QED
    BY <2>4
<1>2. Value(x) = 0 => is_zero(x)
  <2>1. SUFFICES ASSUME Value(x) = 0 PROVE is_zero(x)
    OBVIOUS
  <2>2. x = Zero
    BY <2>1, ZeroExact, ValueDetermines
  <2>3. 0 % Limb = 0
    BY LimbFacts
  <2>4. QED
    BY <2>2, <2>3 DEF is_zero, Zero, FromLimb
<1>3. QED
  BY <1>1, <1>2

(* bit_width and countl_zero measure the number.                           *)
LEMMA BitWidthExact ==
  ASSUME NEW x \in uint256
  PROVE  /\ bit_width(x) \in 0 .. bit_width_v
         /\ Value(x) < 2 ^ bit_width(x)
         /\ bit_width(x) > 0 => Value(x) >= 2 ^ (bit_width(x) - 1)
         /\ countl_zero(x) = bit_width_v - bit_width(x)
         /\ is_zero(x) <=> bit_width(x) = 0
<1>1. CASE is_zero(x)
  <2>1. bit_width(x) = 0 /\ countl_zero(x) = bit_width_v /\ Value(x) = 0 /\ bit_width_v \in Nat
    BY <1>1, ZeroOrNot, LimbFacts DEF bit_width, countl_zero
  <2>2. 2 ^ 0 = 1
    BY PowerZero
  <2>3. QED
    BY <1>1, <2>1, <2>2
<1>2. CASE ~is_zero(x)
  <2>1. PICK i \in 0 .. 3 : /\ i = Max(NonzeroLimbs(x)) /\ x[i] # 0
                            /\ \A k \in 0 .. 3 : k > i => x[k] = 0
    BY <1>2, LimbBounds
  <2>2. PICK v \in Nat : v = x[i] /\ v \in Digit /\ v # 0
    BY <2>1, LimbIsDigit
  <2>3. PICK h \in 0 .. LimbBits - 1 : /\ h = Max(BitsOf(v)) /\ 2 ^ h <= v /\ v < 2 ^ (h + 1)
    BY <2>2, BitBounds
  <2>4. PICK m \in Nat : m = LimbBits * i
    BY LimbTimes
  <2>5. PICK V \in Nat : V = Value(x)
    BY ValueRange
  <2>6. V \div 2 ^ m = v
    BY <2>1, <2>2, <2>4, <2>5, HighestLimb
  <2>7. 2 ^ (m + h) <= V /\ V < 2 ^ (m + h + 1)
    <3>1. h \in Nat
      BY <2>3
    <3>2. QED
      BY <3>1, <2>3, <2>6, QuotientBounds
  <2>8. bit_width(x) = m + h + 1
    BY <1>2, <2>1, <2>2, <2>3, <2>4, LimbTimes DEF bit_width
  <2>9. PICK t \in Nat, l \in Nat : t = LimbBits * 3 /\ l = LimbBits /\ m <= t
    <3>1. PICK l \in Nat : l = LimbBits
      BY WidthAssumption
    <3>2. l * i <= l * 3
      BY ProductAtMost
    <3>3. QED
      BY <3>1, <3>2, <2>4
  <2>10. countl_zero(x) = (t - m) + (l - 1 - h) /\ bit_width_v = t + l
    BY <1>2, <2>1, <2>2, <2>3, <2>4, <2>9, LimbTimes DEF countl_zero
  <2>11. bit_width(x) - 1 = m + h /\ bit_width(x) > 0 /\ bit_width(x) \in 0 .. bit_width_v
    BY <2>3, <2>8, <2>9, <2>10
  <2>12. countl_zero(x) = bit_width_v - bit_width(x)
    BY <2>3, <2>8, <2>9, <2>10
  <2>13. QED
    BY <1>2, <2>5, <2>7, <2>8, <2>11, <2>12
<1>3. QED
  BY <1>1, <1>2

(* countr_zero counts the number's factors of two.                         *)
LEMMA TrailingZerosExact ==
  ASSUME NEW x \in uint256
  PROVE  /\ countr_zero(x) \in 0 .. bit_width_v
         /\ Value(x) % 2 ^ countr_zero(x) = 0
         /\ ~is_zero(x) => /\ countr_zero(x) < bit_width_v
                           /\ BitOf(Value(x), countr_zero(x)) = 1
<1>1. CASE is_zero(x)
  <2>1. countr_zero(x) = bit_width_v /\ Value(x) = 0 /\ bit_width_v \in Nat
    BY <1>1, ZeroOrNot, LimbFacts DEF countr_zero
  <2>2. PICK M \in Nat \ {0} : M = 2 ^ bit_width_v
    BY <2>1, PowerPositive
  <2>3. 0 % M = 0
    OBVIOUS
  <2>4. QED
    BY <1>1, <2>1, <2>2, <2>3
<1>2. CASE ~is_zero(x)
  <2>1. PICK j \in 0 .. 3 : /\ j = Min(NonzeroLimbs(x)) /\ x[j] # 0
                            /\ \A k \in 0 .. 3 : k < j => x[k] = 0
    BY <1>2, LimbBounds
  <2>2. PICK v \in Nat : v = x[j] /\ v \in Digit /\ v # 0
    BY <2>1, LimbIsDigit
  <2>3. PICK l \in 0 .. LimbBits - 1 : l = Min(BitsOf(v)) /\ v % 2 ^ l = 0 /\ BitOf(v, l) = 1
    BY <2>2, BitBounds
  <2>4. PICK m \in Nat : m = LimbBits * j
    BY LimbTimes
  <2>5. PICK s \in Nat : s = m + l /\ s = countr_zero(x)
    BY <1>2, <2>1, <2>2, <2>3, <2>4, LimbTimes DEF countr_zero
  <2>6. 2 ^ s = 2 ^ (LimbBits * j) * 2 ^ l
    <3>1. l \in Nat
      BY <2>3
    <3>2. 2 ^ (m + l) = 2 ^ m * 2 ^ l
      BY <3>1, PowerSum
    <3>3. QED
      BY <3>2, <2>4, <2>5
  <2>7. s < bit_width_v
    <3>1. PICK w \in Nat : w = LimbBits
      BY WidthAssumption
    <3>2. w * j <= w * 3 /\ w * 3 \in Nat
      BY ProductAtMost, ProductIsNat
    <3>3. QED
      BY <3>1, <3>2, <2>3, <2>4, <2>5, LimbTimes
  <2>8. BitOf(Value(x), s) = 1
    <3>1. l \in Nat /\ l < LimbBits
      BY <2>3, WidthAssumption
    <3>2. BitOf(Value(x), s) = BitOf(x[j], l)
      BY <3>1, <2>6, BitOfValue
    <3>3. QED
      BY <3>2, <2>2, <2>3
  <2>9. Value(x) % 2 ^ s = 0
    <3>1. l \in Shift
      BY <2>3, WidthAssumption DEF Shift
    <3>2. PICK z : z = LowPart(x, j, l)
      OBVIOUS
    <3>3. Value(z) = Value(x) % 2 ^ s /\ z \in uint256
      BY <3>1, <3>2, <2>6, LowPartExact
    <3>4. is_zero(z)
      <4>1. \A k \in 0 .. 3 : z[k] = IF k < j THEN x[k] ELSE IF k = j THEN x[k] % 2 ^ l ELSE 0
        BY <3>2 DEF LowPart, Indices, limb_count
      <4>2. \A k \in 0 .. 3 : z[k] = 0
        BY <4>1, <2>1, <2>2, <2>3
      <4>3. QED
        BY <4>2 DEF is_zero, Indices, limb_count
    <3>5. QED
      BY <3>3, <3>4, ZeroOrNot
  <2>10. s \in 0 .. bit_width_v
    BY <2>7, LimbFacts
  <2>11. QED
    BY <1>2, <2>5, <2>7, <2>8, <2>9, <2>10, Zenon
<1>3. QED
  BY <1>1, <1>2

(* A set has one element if and only if it is that element's singleton.    *)
LEMMA OneElement ==
  ASSUME NEW S, S \subseteq Nat, NEW e \in S
  PROVE  (IsFiniteSet(S) /\ Cardinality(S) = 1) <=> S = {e}
<1>1. S = {e} => IsFiniteSet(S) /\ Cardinality(S) = 1
  BY FS_Singleton
<1>2. ASSUME IsFiniteSet(S), Cardinality(S) = 1
      PROVE  S = {e}
  <2>1. PICK u : S = {u}
    BY <1>2, FS_Singleton
  <2>2. QED
    BY <2>1
<1>3. QED
  BY <1>1, <1>2

(* There is a single bit where the highest one is the lowest one. *)
LEMMA SingleBit ==
  ASSUME NEW x \in uint256
  PROVE  has_single_bit(x) <=> bit_width(x) = countr_zero(x) + 1
<1>1. CASE is_zero(x)
  <2>1. bit_width(x) = 0 /\ countr_zero(x) = bit_width_v /\ bit_width_v \in Nat
    BY <1>1, LimbFacts DEF bit_width, countr_zero
  <2>2. NonzeroLimbs(x) = {}
    BY <1>1 DEF is_zero, NonzeroLimbs
  <2>3. Cardinality(NonzeroLimbs(x)) = 0
    BY <2>2, FS_EmptySet
  <2>4. ~has_single_bit(x)
    BY <2>3 DEF has_single_bit
  <2>5. QED
    BY <2>1, <2>4
<1>2. CASE ~is_zero(x)
  <2>1. PICK i, j \in 0 .. 3 :
           /\ i = Max(NonzeroLimbs(x)) /\ j = Min(NonzeroLimbs(x)) /\ j <= i
           /\ i \in NonzeroLimbs(x) /\ j \in NonzeroLimbs(x)
           /\ \A k \in NonzeroLimbs(x) : j <= k /\ k <= i
           /\ x[i] # 0 /\ x[j] # 0
    BY <1>2, LimbBounds
  <2>2. x[i] \in Digit /\ x[j] \in Digit
    BY LimbIsDigit
  <2>3. PICK h, g \in 0 .. LimbBits - 1 :
           /\ h = Max(BitsOf(x[i])) /\ g = Min(BitsOf(x[i])) /\ g <= h
           /\ h \in BitsOf(x[i]) /\ g \in BitsOf(x[i])
           /\ \A k \in BitsOf(x[i]) : g <= k /\ k <= h
    BY <2>1, <2>2, BitBounds
  <2>4. PICK l \in 0 .. LimbBits - 1 : l = Min(BitsOf(x[j]))
    BY <2>1, <2>2, BitBounds
  <2>5. PICK w \in Nat : w = LimbBits
    BY WidthAssumption
  <2>6. PICK a \in Nat, c \in Nat : a = w * i /\ c = w * j
    BY ProductIsNat
  <2>7. bit_width(x) = a + h + 1 /\ countr_zero(x) = c + l
    <3>1. i * LimbBits = a /\ j * LimbBits = c
      BY <2>5, <2>6, LimbTimes
    <3>2. QED
      BY <1>2, <2>1, <2>3, <2>4, <3>1, Zenon DEF bit_width, countr_zero
  <2>8. j < i => c + w <= a
    <3>1. SUFFICES ASSUME j < i PROVE c + w <= a
      OBVIOUS
    <3>2. w * (j + 1) <= w * i
      BY <3>1, ProductAtMost
    <3>3. w * (j + 1) = w * j + w
      OBVIOUS
    <3>4. QED
      BY <3>2, <3>3, <2>6
  <2>9. bit_width(x) = countr_zero(x) + 1 <=> i = j /\ h = g
    <3>1. i = j => a = c /\ l = g
      BY <2>3, <2>4, <2>6
    <3>2. h \in Nat /\ l \in Nat /\ g \in Nat /\ l < w /\ i \in Nat /\ j \in Nat
      BY <2>3, <2>4, <2>5
    <3>3. QED
      BY <2>1, <2>7, <2>8, <3>1, <3>2
  <2>10. NonzeroLimbs(x) = {i} <=> i = j
    <3>1. NonzeroLimbs(x) \subseteq Nat
      BY DEF NonzeroLimbs, Indices, limb_count
    <3>2. QED
      BY <2>1, <3>1
  <2>11. BitsOf(x[i]) = {h} <=> h = g
    <3>1. BitsOf(x[i]) \subseteq Nat
      BY LimbBitsOf
    <3>2. QED
      BY <2>3, <3>1
  <2>12. Cardinality(NonzeroLimbs(x)) = 1 <=> NonzeroLimbs(x) = {i}
    <3>1. NonzeroLimbs(x) \subseteq 0 .. 3
      BY DEF NonzeroLimbs, Indices, limb_count
    <3>2. IsFiniteSet(NonzeroLimbs(x))
      <4>1. IsFiniteSet(0 .. 3)
        <5>1. PICK first \in Int, last \in Int : first = 0 /\ last = 3
          OBVIOUS
        <5>2. IsFiniteSet(first .. last)
          BY FS_Interval
        <5>3. QED
          BY <5>1, <5>2
      <4>2. QED
        BY <3>1, <4>1, FS_Subset
    <3>3. NonzeroLimbs(x) \subseteq Nat
      BY <3>1
    <3>4. QED
      BY <2>1, <3>2, <3>3, OneElement
  <2>13. Cardinality(BitsOf(x[i])) = 1 <=> BitsOf(x[i]) = {h}
    <3>1. BitsOf(x[i]) \subseteq 0 .. LimbBits - 1 /\ BitsOf(x[i]) \subseteq Nat
      BY LimbBitsOf
    <3>2. LimbBits - 1 \in Int
      BY WidthAssumption
    <3>3. IsFiniteSet(BitsOf(x[i]))
      <4>1. IsFiniteSet(0 .. LimbBits - 1)
        BY <3>2, FS_Interval
      <4>2. QED
        BY <3>1, <4>1, FS_Subset
    <3>4. QED
      BY <2>3, <3>1, <3>3, OneElement
  <2>14. has_single_bit(x) <=> NonzeroLimbs(x) = {i} /\ BitsOf(x[i]) = {h}
    <3>1. NonzeroLimbs(x) = {i} =>
            ((\A k \in NonzeroLimbs(x) : Cardinality(BitsOf(x[k])) = 1)
               <=> Cardinality(BitsOf(x[i])) = 1)
      OBVIOUS
    <3>2. QED
      BY <3>1, <2>12, <2>13 DEF has_single_bit
  <2>15. QED
    BY <2>9, <2>10, <2>11, <2>14
<1>3. QED
  BY <1>1, <1>2

(* A number with a single bit is the power of two of its trailing zeros. *)
LEMMA PowerOfTwo ==
  ASSUME NEW x \in uint256, has_single_bit(x)
  PROVE  /\ ~is_zero(x) /\ countr_zero(x) \in 0 .. bit_width_v - 1
         /\ Value(x) = 2 ^ countr_zero(x)
<1>1. PICK s \in Nat : s = countr_zero(x)
  BY TrailingZerosExact
<1>2. bit_width(x) = s + 1 /\ bit_width(x) > 0 /\ bit_width(x) - 1 = s
  BY <1>1, SingleBit
<1>3. PICK V \in Nat : V = Value(x)
  BY ValueRange
<1>4. PICK P \in Nat \ {0} : P = 2 ^ s
  BY PowerPositive
<1>5. V < 2 * P /\ V >= P
  <2>1. 2 ^ (s + 1) = 2 * P
    BY <1>4, PowerNext
  <2>2. Value(x) < 2 ^ bit_width(x) /\ Value(x) >= 2 ^ (bit_width(x) - 1)
    BY <1>2, BitWidthExact
  <2>3. QED
    BY <2>1, <2>2, <1>2, <1>3, <1>4
<1>6. V % P = 0
  BY <1>1, <1>3, <1>4, TrailingZerosExact
<1>7. V = P
  <2>1. V - P \in 0 .. P - 1
    BY <1>5
  <2>2. V = P * 1 + (V - P)
    OBVIOUS
  <2>3. V % P = V - P
    BY <2>1, <2>2, DivOf
  <2>4. QED
    BY <2>3, <1>6
<1>8. ~is_zero(x)
  BY <1>3, <1>7, ZeroOrNot
<1>9. s < bit_width_v /\ bit_width_v \in Nat
  BY <1>1, <1>8, TrailingZerosExact, LimbFacts
<1>10. QED
  BY <1>1, <1>3, <1>4, <1>7, <1>8, <1>9

(* Every limb of x below the bit, by &, from all ones. *)
LEMMA LowestBits ==
  ASSUME NEW x \in uint256, NEW m \in uint256, NEW s \in Nat, s < bit_width_v,
         Value(m) = 2 ^ s - 1
  PROVE  BitAnd(x, m) \in uint256 /\ Value(BitAnd(x, m)) = Value(x) % 2 ^ s
<1>1. PICK k \in 0 .. 3, b \in Nat :
        /\ b < LimbBits /\ b \in Shift
        /\ 2 ^ s = 2 ^ (LimbBits * k) * 2 ^ b
  BY Distance
<1>2. PICK L \in Nat \ {0} : L = Limb
  BY LimbFacts
<1>3. PICK top \in Digit : top = L - 1
  BY <1>2, LimbFacts DEF Digit
<1>4. PICK ones : ones = [i \in Indices |-> top]
  OBVIOUS
<1>5. /\ ones \in uint256
      /\ ones[0] = L - 1 /\ ones[1] = L - 1 /\ ones[2] = L - 1 /\ ones[3] = L - 1
  BY <1>3, <1>4 DEF uint256, Digit, Indices, limb_count
<1>6. PICK M \in Nat \ {0} : M = Modulus /\ M = L * (L * (L * L))
  BY <1>2, LimbFacts
<1>7. Value(ones) = M - 1
  <2>1. Value(ones) = (L - 1) + L * ((L - 1) + L * ((L - 1) + L * (L - 1)))
    BY <1>2, <1>5, Zenon DEF Value
  <2>2. PICK L2 \in Nat, L3 \in Nat : L2 = L * L /\ L3 = L * L2
    BY ProductIsNat
  <2>3. (L - 1) + L * (L - 1) = L2 - 1
    BY <2>2
  <2>4. (L - 1) + L * (L2 - 1) = L3 - 1
    BY <2>2
  <2>5. (L - 1) + L * (L3 - 1) = M - 1
    BY <1>6, <2>2
  <2>6. QED
    BY <2>1, <2>3, <2>4, <2>5, Zenon
<1>8. PICK P \in Nat \ {0}, Q \in Nat \ {0} : P = 2 ^ s /\ M = P * Q
  <2>1. PICK w \in Nat : w = bit_width_v /\ s <= w
    BY LimbFacts
  <2>2. 2 ^ w = 2 ^ s * 2 ^ (w - s) /\ w - s \in Nat
    BY <2>1, PowerMonotone
  <2>3. QED
    BY <2>1, <2>2, <1>6, PowerPositive DEF Modulus
<1>9. (M - 1) % P = P - 1
  <2>1. P * (Q - 1) = P * Q - P
    OBVIOUS
  <2>2. M - 1 = P * (Q - 1) + (P - 1)
    BY <2>1, <1>8
  <2>3. PICK u \in Int, q \in Int, r \in 0 .. P - 1 : u = M - 1 /\ q = Q - 1 /\ r = P - 1
    OBVIOUS
  <2>4. u = P * q + r
    BY <2>2, <2>3
  <2>5. u % P = r
    BY <2>4, DivOf
  <2>6. QED
    BY <2>3, <2>5
<1>10. PICK y : y = LowPart(ones, k, b)
  OBVIOUS
<1>11. y \in uint256 /\ Value(y) = P - 1
  <2>1. LowPart(ones, k, b) \in uint256 /\ Value(LowPart(ones, k, b)) = Value(ones) % (2 ^ (LimbBits * k) * 2 ^ b)
    BY <1>1, <1>5, LowPartExact
  <2>2. QED
    BY <2>1, <1>1, <1>7, <1>8, <1>9, <1>10, Zenon
<1>12. m = y
  <2>1. Value(m) = Value(y)
    BY <1>8, <1>11
  <2>2. QED
    BY <2>1, <1>11, ValueDetermines
<1>13. PICK B \in Nat \ {0} : B = 2 ^ b
  BY <1>1, PowerPositive
<1>14. (L - 1) % B = B - 1
  <2>1. PICK R \in Nat \ {0} : L = B * R
    BY <1>1, <1>2, <1>13, LimbSplit DEF Shift
  <2>2. B * (R - 1) = B * R - B
    OBVIOUS
  <2>3. L - 1 = B * (R - 1) + (B - 1)
    BY <2>1, <2>2
  <2>4. PICK u \in Int, q \in Int, r \in 0 .. B - 1 : u = L - 1 /\ q = R - 1 /\ r = B - 1
    OBVIOUS
  <2>5. u = B * q + r
    BY <2>3, <2>4
  <2>6. u % B = r
    BY <2>5, DivOf
  <2>7. QED
    BY <2>4, <2>6
<1>15. \A i \in Indices : m[i] = IF i < k THEN L - 1 ELSE IF i = k THEN B - 1 ELSE 0
  BY <1>3, <1>4, <1>10, <1>12, <1>13, <1>14 DEF LowPart
<1>16. ASSUME NEW i \in Indices
       PROVE  LimbAnd(x[i], m[i]) = IF i < k THEN x[i] ELSE IF i = k THEN x[i] % 2 ^ b ELSE 0
  <2>1. x[i] \in 0 .. Limb - 1 /\ x[i] \in 0 .. L - 1
    BY <1>2 DEF uint256
  <2>2. /\ LimbAnd(x[i], 2 ^ b - 1) = x[i] % 2 ^ b
        /\ LimbAnd(x[i], 2 ^ LimbBits - 1) = x[i] % 2 ^ LimbBits
        /\ LimbAnd(x[i], 2 ^ 0 - 1) = x[i] % 2 ^ 0
    <3>1. b \in 0 .. LimbBits /\ LimbBits \in 0 .. LimbBits /\ 0 \in 0 .. LimbBits
      BY <1>1, WidthAssumption
    <3>2. QED
      BY <2>1, <3>1, AndMask
  <2>3. CASE i < k
    <3>1. m[i] = 2 ^ LimbBits - 1
      BY <1>2, <1>15, <2>3 DEF Limb
    <3>2. x[i] % L = x[i]
      BY <2>1, Small
    <3>3. QED
      BY <2>2, <2>3, <3>1, <3>2, <1>2 DEF Limb
  <2>4. CASE i = k
    BY <1>13, <1>15, <2>2, <2>4
  <2>5. CASE i > k
    <3>1. m[i] = 2 ^ 0 - 1
      BY <1>15, <2>5, PowerZero DEF Indices, limb_count
    <3>2. x[i] % 1 = 0
      BY <2>1
    <3>3. ~(i < k) /\ i # k
      BY <2>5 DEF Indices, limb_count
    <3>4. QED
      BY <2>2, <3>1, <3>2, <3>3, PowerZero
  <2>6. QED
    BY <2>3, <2>4, <2>5 DEF Indices, limb_count
<1>17. BitAnd(x, m) = LowPart(x, k, b)
  BY <1>16 DEF BitAnd, LowPart
<1>18. QED
  BY <1>1, <1>17, LowPartExact

(* divmod by a power of two divides with remainder.                        *)
LEMMA DivideByPowerExact ==
  ASSUME NEW x \in uint256, NEW y \in uint256, has_single_bit(y), NEW z, z = divmod_power(x, y)
  PROVE  /\ ~is_zero(y) /\ z \in [q : uint256, r : uint256]
         /\ Value(z.q) = Value(x) \div Value(y) /\ Value(z.r) = Value(x) % Value(y)
<1>1. PICK s \in Nat : s = countr_zero(y) /\ s < bit_width_v
  BY PowerOfTwo, LimbFacts
<1>2. PICK P \in Nat \ {0} : P = 2 ^ s
  BY PowerPositive
<1>3. Value(y) = P /\ ~is_zero(y)
  BY <1>1, <1>2, PowerOfTwo
<1>4. PICK one \in uint256 : one = FromLimb(1) /\ Value(one) = 1
  <2>1. 1 \in Digit
    BY LimbFacts DEF Digit
  <2>2. QED
    BY <2>1, FromLimbExact
<1>5. PICK m \in uint256 : m = Minus(y, one) /\ Value(m) = (Value(y) - Value(one)) % Modulus
  BY MinusExact
<1>6. Value(m) = P - 1
  <2>1. PICK M \in Nat \ {0} : M = Modulus /\ P < M
    BY <1>3, LimbFacts, ValueRange
  <2>2. P - 1 \in 0 .. M - 1
    BY <2>1
  <2>3. (P - 1) % M = P - 1
    BY <2>2, Small
  <2>4. QED
    BY <2>1, <2>3, <1>3, <1>4, <1>5
<1>7. ShiftRight(x, s) \in uint256 /\ Value(ShiftRight(x, s)) = Value(x) \div 2 ^ s
  BY ShiftRightExact
<1>8. BitAnd(x, m) \in uint256 /\ Value(BitAnd(x, m)) = Value(x) % 2 ^ s
  BY <1>1, <1>2, <1>6, LowestBits
<1>9. z = [q |-> ShiftRight(x, s), r |-> BitAnd(x, m)]
  BY <1>1, <1>4, <1>5, Zenon DEF divmod_power
<1>10. z.q = ShiftRight(x, s) /\ z.r = BitAnd(x, m) /\ z \in [q : uint256, r : uint256]
  BY <1>7, <1>8, <1>9
<1>11. QED
  BY <1>2, <1>3, <1>7, <1>8, <1>10, Zenon

-----------------------------------------------------------------------------
(* The bitwise loop. *)

(* Bringing a bit down doubles the remainder and adds the bit, and no bit  *)
(* is lost.                                                                *)
LEMMA BringDownExact ==
  ASSUME NEW x \in uint256, NEW r \in uint256, NEW s \in Nat, s < bit_width_v,
         2 * Value(r) + BitOf(Value(x), s) < Modulus
  PROVE  /\ BringDown(x, r, s) \in uint256
         /\ Value(BringDown(x, r, s)) = 2 * Value(r) + BitOf(Value(x), s)
<1>1. PICK R \in Nat, M \in Nat \ {0} : R = Value(r) /\ M = Modulus
  BY ValueRange, LimbFacts
<1>2. BitOf(Value(x), s) \in {0, 1}
  BY ValueRange, BitIsBit
<1>3. PICK z : z = shl1(r)
  OBVIOUS
<1>4. z \in uint256 /\ Value(z) = 2 * R
  <2>1. z \in uint256 /\ Value(z) = (R * 2) % M
    BY <1>1, <1>3, Shl1Exact
  <2>2. R * 2 \in 0 .. M - 1 /\ R * 2 = 2 * R
    BY <1>1, <1>2
  <2>3. (R * 2) % M = R * 2
    BY <2>2, Small
  <2>4. QED
    BY <2>1, <2>2, <2>3
<1>5. CASE BitOf(Value(x), s) = 1
  <2>1. get_bit(x, s)
    BY <1>5, GetBit
  <2>2. BringDown(x, r, s) = [z EXCEPT ![0] = LimbOr(@, 1)]
    BY <2>1, <1>3 DEF BringDown
  <2>3. Value(z) % 2 = 0
    BY <1>4
  <2>4. PICK y : y = [z EXCEPT ![0] = LimbOr(@, 1)]
    OBVIOUS
  <2>5. y \in uint256 /\ Value(y) = Value(z) + 1
    BY <2>3, <2>4, <1>4, SetLowest
  <2>6. QED
    BY <2>2, <2>4, <2>5, <1>1, <1>4, <1>5
<1>6. CASE BitOf(Value(x), s) = 0
  <2>1. ~get_bit(x, s)
    BY <1>6, GetBit
  <2>2. BringDown(x, r, s) = z
    BY <2>1, <1>3 DEF BringDown
  <2>3. QED
    BY <2>2, <1>1, <1>4, <1>6
<1>7. QED
  BY <1>2, <1>5, <1>6

(* The bits from bit m on have been divided. *)
Divided(x, y, z, m) ==
  LET brought == Value(x) \div 2 ^ m
  IN /\ Value(z.q) \div 2 ^ m = brought \div Value(y)
     /\ Value(z.q) % 2 ^ m = 0
     /\ Value(z.r) = brought % Value(y)

(* One turn of the bitwise loop divides one bit more.                      *)
LEMMA DivideBitExact ==
  ASSUME NEW x \in uint256, NEW y \in uint256, ~is_zero(y),
         NEW z \in [q : uint256, r : uint256],
         NEW s \in Nat, s < bit_width_v, Divided(x, y, z, s + 1)
  PROVE  /\ DivideBit(x, y, z, s) \in [q : uint256, r : uint256]
         /\ Divided(x, y, DivideBit(x, y, z, s), s)
<1>1. PICK V \in Nat, D \in Nat \ {0}, Q \in Nat, R \in Nat, M \in Nat \ {0} :
        /\ V = Value(x) /\ D = Value(y) /\ Q = Value(z.q) /\ R = Value(z.r) /\ M = Modulus
        /\ V < M /\ D < M
  <2>1. Value(y) # 0
    BY ZeroOrNot
  <2>2. z.q \in uint256 /\ z.r \in uint256
    OBVIOUS
  <2>3. QED
    BY <2>1, <2>2, ValueRange, LimbFacts
<1>2. PICK P \in Nat \ {0}, P2 \in Nat \ {0} : P = 2 ^ s /\ P2 = 2 * P /\ P2 = 2 ^ (s + 1)
  <2>1. PICK P \in Nat \ {0} : P = 2 ^ s
    BY PowerPositive
  <2>2. 2 ^ (s + 1) = 2 * P
    BY <2>1, PowerNext
  <2>3. QED
    BY <2>1, <2>2
<1>3. PICK B \in Nat, b \in {0, 1} : B = V \div P2 /\ b = BitOf(V, s) /\ V \div P = 2 * B + b
  <2>1. V \div P2 \in Nat
    BY DivIsNat
  <2>2. V \div P = 2 * (V \div P2) + BitOf(V, s) /\ BitOf(V, s) \in {0, 1}
    BY <1>2, BitSplit, ZenonT(40)
  <2>3. QED
    BY <2>1, <2>2
<1>4. Q \div P2 = B \div D /\ Q % P2 = 0 /\ R = B % D
  BY <1>1, <1>2, <1>3, Zenon DEF Divided
<1>5. PICK A \in Nat : A = B \div D /\ B = D * A + R /\ R < D
  <2>1. PICK a \in Nat, t \in 0 .. D - 1 : a = B \div D /\ t = B % D /\ B = D * a + t
    BY DivParts
  <2>2. QED
    BY <2>1, <1>4
<1>6. Q = P2 * A
  <2>1. Q = P2 * (Q \div P2) + (Q % P2)
    BY DivSplit
  <2>2. P2 * A + 0 = P2 * A
    OBVIOUS
  <2>3. QED
    BY <2>1, <2>2, <1>4, <1>5
<1>7. 2 * R + b < M
  <2>1. D * A \in Nat
    BY ProductIsNat
  <2>2. R <= B
    BY <2>1, <1>5
  <2>3. PICK e \in Nat : e = V \div P /\ e <= V
    <3>1. PICK e \in Nat, t \in 0 .. P - 1 : e = V \div P /\ V = P * e + t
      BY DivParts
    <3>2. e * 1 <= e * P
      BY ProductAtMost
    <3>3. e * P = P * e /\ P * e \in Nat
      OBVIOUS
    <3>4. QED
      BY <3>1, <3>2, <3>3
  <2>4. QED
    BY <2>2, <2>3, <1>1, <1>3
<1>8. PICK u \in uint256 : u = BringDown(x, z.r, s) /\ Value(u) = 2 * R + b
  <2>1. z.r \in uint256
    OBVIOUS
  <2>2. 2 * Value(z.r) + BitOf(Value(x), s) < Modulus
    BY <1>1, <1>3, <1>7
  <2>3. /\ BringDown(x, z.r, s) \in uint256
        /\ Value(BringDown(x, z.r, s)) = 2 * Value(z.r) + BitOf(Value(x), s)
    BY <2>1, <2>2, BringDownExact
  <2>4. QED
    BY <2>3, <1>1, <1>3
<1>9. LessOrEqual(y, u) <=> D <= 2 * R + b
  BY <1>1, <1>8, Uint256LessThan DEF LessOrEqual
<1>10. z.q \in uint256 /\ z.r \in uint256
  OBVIOUS
<1>11. DivideBit(x, y, z, s) = IF LessOrEqual(y, u)
                                 THEN [q |-> set_bit(z.q, s), r |-> Minus(u, y)]
                                 ELSE [q |-> z.q, r |-> u]
  BY <1>8, Zenon DEF DivideBit
<1>12. CASE D <= 2 * R + b
  <2>1. PICK q \in uint256 : q = set_bit(z.q, s) /\ Value(q) = Q + P
    <3>1. BitOf(Value(z.q), s) = 0
      <4>1. PICK k \in Nat : k = s + 1 /\ s < k
        OBVIOUS
      <4>2. BitOf(2 ^ k * A, s) = 0
        BY <4>1, NoLowBit
      <4>3. QED
        BY <4>1, <4>2, <1>1, <1>2, <1>6
    <3>2. set_bit(z.q, s) \in uint256 /\ Value(set_bit(z.q, s)) = Value(z.q) + 2 ^ s
      BY <3>1, <1>10, SetBit
    <3>3. QED
      BY <3>2, <1>1, <1>2
  <2>2. PICK r \in uint256 : r = Minus(u, y) /\ Value(r) = 2 * R + b - D
    <3>1. Minus(u, y) \in uint256 /\ Value(Minus(u, y)) = (Value(u) - Value(y)) % Modulus
      BY MinusExact
    <3>2. PICK e \in Nat : e = 2 * R + b - D /\ e \in 0 .. M - 1
      BY <1>7, <1>12
    <3>3. e % M = e
      BY <3>2, Small
    <3>4. QED
      BY <3>1, <3>2, <3>3, <1>1, <1>8
  <2>3. DivideBit(x, y, z, s) = [q |-> q, r |-> r]
    BY <2>1, <2>2, <1>9, <1>11, <1>12
  <2>4. PICK e \in Nat : e = 2 * R + b - D /\ e \in 0 .. D - 1
    BY <1>5, <1>12
  <2>5. (2 * B + b) \div D = 2 * A + 1 /\ (2 * B + b) % D = e
    <3>1. PICK a \in Int, t \in Nat : a = 2 * A + 1 /\ t = 2 * B + b
      OBVIOUS
    <3>2. D * a = 2 * (D * A) + D
      BY <3>1
    <3>3. PICK c \in Int : c = D * A
      BY ProductIsInt
    <3>4. t = D * a + e
      BY <3>1, <3>2, <3>3, <2>4, <1>5
    <3>5. t \div D = a /\ t % D = e
      <4>1. e \in 0 .. D - 1
        BY <2>4
      <4>2. QED
        BY <3>4, <4>1, DivOf
    <3>6. QED
      BY <3>1, <3>5
  <2>6. (Q + P) \div P = 2 * A + 1 /\ (Q + P) % P = 0
    <3>1. PICK a \in Int, t \in Nat : a = 2 * A + 1 /\ t = Q + P
      OBVIOUS
    <3>2. P * a = (2 * P) * A + P
      BY <3>1
    <3>3. t = P * a + 0
      BY <3>1, <3>2, <1>2, <1>6
    <3>4. t \div P = a /\ t % P = 0
      BY <3>3, DivOf
    <3>5. QED
      BY <3>1, <3>4
  <2>7. PICK result : result = [q |-> q, r |-> r]
    OBVIOUS
  <2>8. result.q = q /\ result.r = r /\ result \in [q : uint256, r : uint256]
    BY <2>7
  <2>9. Value(result.q) = Q + P /\ Value(result.r) = e /\ V \div P = 2 * B + b
    BY <2>1, <2>2, <2>4, <2>8, <1>3
  <2>10. Divided(x, y, result, s)
    BY <2>5, <2>6, <2>9, <1>1, <1>2, Zenon DEF Divided
  <2>11. QED
    BY <2>3, <2>7, <2>8, <2>10
<1>13. CASE ~(D <= 2 * R + b)
  <2>1. DivideBit(x, y, z, s) = [q |-> z.q, r |-> u]
    BY <1>9, <1>11, <1>13
  <2>2. PICK e \in Nat : e = 2 * R + b /\ e \in 0 .. D - 1
    BY <1>13
  <2>3. (2 * B + b) \div D = 2 * A /\ (2 * B + b) % D = e
    <3>1. PICK a \in Int, t \in Nat : a = 2 * A /\ t = 2 * B + b
      OBVIOUS
    <3>2. D * a = 2 * (D * A)
      BY <3>1
    <3>3. PICK c \in Int : c = D * A
      BY ProductIsInt
    <3>4. t = D * a + e
      BY <3>1, <3>2, <3>3, <2>2, <1>5
    <3>5. t \div D = a /\ t % D = e
      <4>1. e \in 0 .. D - 1
        BY <2>2
      <4>2. QED
        BY <3>4, <4>1, DivOf
    <3>6. QED
      BY <3>1, <3>5
  <2>4. Q \div P = 2 * A /\ Q % P = 0
    <3>1. PICK a \in Int : a = 2 * A
      OBVIOUS
    <3>2. P * a = (2 * P) * A
      BY <3>1
    <3>3. Q = P * a + 0
      BY <3>1, <3>2, <1>2, <1>6
    <3>4. Q \div P = a /\ Q % P = 0
      BY <3>3, DivOf
    <3>5. QED
      BY <3>1, <3>4
  <2>5. PICK result : result = [q |-> z.q, r |-> u]
    OBVIOUS
  <2>6. result.q = z.q /\ result.r = u /\ result \in [q : uint256, r : uint256]
    BY <2>5, <1>10
  <2>7. Value(result.q) = Q /\ Value(result.r) = e /\ V \div P = 2 * B + b
    BY <2>2, <2>6, <1>1, <1>3, <1>8
  <2>8. Divided(x, y, result, s)
    BY <2>3, <2>4, <2>7, <1>1, <1>2, Zenon DEF Divided
  <2>9. QED
    BY <2>1, <2>5, <2>6, <2>8
<1>14. QED
  BY <1>12, <1>13

-----------------------------------------------------------------------------
(* Multiplication. *)

(* One product of two limbs, with what is added to it. *)
Cell(x, y, v, carry) == (x * y + v + carry) % DoubleLimb

(* A limb of a row: the product of two limbs, a limb and a carry fit into  *)
(* two limbs.                                                              *)
LEMMA CellExact ==
  ASSUME NEW x \in Digit, NEW y \in Digit, NEW v \in Digit, NEW carry \in Digit
  PROVE  /\ Cell(x, y, v, carry) % Limb \in Digit /\ Cell(x, y, v, carry) \div Limb \in Digit
         /\ x * y + v + carry =
              (Cell(x, y, v, carry) % Limb) + Limb * (Cell(x, y, v, carry) \div Limb)
<1>1. PICK L \in Nat \ {0} : L = Limb
  BY LimbFacts
<1>2. PICK a \in Nat, b \in Nat, c \in Nat, e \in Nat :
        /\ a = x /\ b = y /\ c = v /\ e = carry
        /\ a <= L - 1 /\ b <= L - 1 /\ c <= L - 1 /\ e <= L - 1
  BY <1>1 DEF Digit
<1>3. PICK p \in Nat : p = a * b
  BY ProductIsNat
<1>4. p <= (L - 1) * (L - 1)
  <2>1. PICK h \in Nat : h = L - 1
    OBVIOUS
  <2>2. a * b <= a * h /\ h * a <= h * h /\ a * h = h * a
    BY <2>1, <1>2, ProductAtMost
  <2>3. a * h \in Nat /\ h * h \in Nat
    BY <2>1, ProductIsNat
  <2>4. QED
    BY <2>1, <2>2, <2>3, <1>3
<1>5. PICK M \in Nat \ {0} : M = L * L /\ M = DoubleLimb
  BY <1>1, LimbFacts, ProductPositive
<1>6. PICK t \in Nat : t = p + c + e /\ t \in 0 .. M - 1
  <2>1. (L - 1) * (L - 1) = M - 2 * L + 1
    BY <1>5
  <2>2. QED
    BY <2>1, <1>2, <1>4
<1>7. t % M = t
  BY <1>6, Small
<1>8. Cell(x, y, v, carry) = t
  BY <1>2, <1>3, <1>5, <1>6, <1>7 DEF Cell
<1>9. PICK q \in Nat, r \in 0 .. L - 1 : q = t \div L /\ r = t % L /\ t = L * q + r
  BY DivParts
<1>10. q \in 0 .. L - 1
  <2>1. t < L * L
    BY <1>5, <1>6
  <2>2. t \div L \in 0 .. L - 1
    BY <2>1, DivBelow
  <2>3. QED
    BY <2>2, <1>9
<1>11. q \in Digit /\ r \in Digit
  BY <1>1, <1>9, <1>10 DEF Digit
<1>12. x * y + v + carry = t
  BY <1>2, <1>3, <1>6
<1>13. t = r + L * q
  <2>1. L * q \in Nat
    BY ProductIsNat
  <2>2. QED
    BY <2>1, <1>9
<1>14. QED
  BY <1>1, <1>8, <1>9, <1>11, <1>12, <1>13, Zenon

(* The cells of a row. *)
RowCells(r, a, b, i) ==
  LET cur[j \in 0 .. limb_count - 1 - i] ==
        (a[i] * b[j] + r[i + j] + (IF j = 0 THEN 0 ELSE cur[j - 1] \div Limb))
          % DoubleLimb
  IN cur

(* The unfolding of the recursion of AddRow. *)
LEMMA RowSteps ==
  ASSUME NEW r, NEW a, NEW b, NEW k \in 0 .. 3
  PROVE  \E s : /\ \A j \in 0 .. 3 - k :
                     s[j] = Cell(a[k], b[j], r[k + j], IF j = 0 THEN 0 ELSE s[j - 1] \div Limb)
                /\ AddRow(r, a, b, k) =
                     [t \in Indices |-> IF t < k THEN r[t] ELSE s[t - k] % Limb]
<1> DEFINE Next(f, j) == Cell(a[k], b[j], r[k + j], IF j = 0 THEN 0 ELSE f \div Limb)
           Step(f) == [j \in 0 .. 3 - k |-> Next(f[j - 1], j)]
<1>1. \E f : f = Step(f)
  <2>1. PICK s0 : s0 = Cell(a[k], b[0], r[k + 0], 0)
    OBVIOUS
  <2>2. PICK s1 : s1 = Next(s0, 1)
    OBVIOUS
  <2>3. PICK s2 : s2 = Next(s1, 2)
    OBVIOUS
  <2>4. PICK s3 : s3 = Next(s2, 3)
    OBVIOUS
  <2>5. PICK f : f = [j \in 0 .. 3 - k |-> IF j = 0 THEN s0 ELSE IF j = 1 THEN s1 ELSE
                                           IF j = 2 THEN s2 ELSE s3]
    OBVIOUS
  <2>6. ASSUME NEW j \in 0 .. 3 - k
        PROVE  f[j] = Next(f[j - 1], j)
    <3>1. CASE j = 0
      BY <3>1, <2>1, <2>5
    <3>2. CASE j = 1
      <4>1. f[0] = s0 /\ f[1] = s1
        BY <3>2, <2>5
      <4>2. QED
        BY <4>1, <3>2, <2>2
    <3>3. CASE j = 2
      <4>1. f[1] = s1 /\ f[2] = s2
        BY <3>3, <2>5
      <4>2. QED
        BY <4>1, <3>3, <2>3
    <3>4. CASE j = 3
      <4>1. f[2] = s2 /\ f[3] = s3
        BY <3>4, <2>5
      <4>2. QED
        BY <4>1, <3>4, <2>4
    <3>5. QED
      BY <3>1, <3>2, <3>3, <3>4
  <2>7. f = Step(f)
    <3> HIDE DEF Next
    <3> QED BY <2>5, <2>6
  <2>8. QED
    BY <2>7
<1>2. PICK s : s = RowCells(r, a, b, k)
  OBVIOUS
<1>3. s = Step(s)
  <2>1. s = CHOOSE f : f = Step(f)
    <3>1. limb_count - 1 - k = 3 - k
      BY DEF limb_count
    <3>2. QED
      BY <3>1, <1>2 DEF Cell, RowCells
  <2>2. QED
    <3> HIDE DEF Step
    <3> QED BY <1>1, <2>1, Zenon
<1>4. AddRow(r, a, b, k) = [t \in Indices |-> IF t < k THEN r[t] ELSE s[t - k] % Limb]
  <2>1. AddRow(r, a, b, k) =
          [t \in Indices |-> IF t < k THEN r[t] ELSE RowCells(r, a, b, k)[t - k] % Limb]
    BY DEF AddRow, RowCells
  <2>2. QED
    BY <1>2, <2>1
<1>5. \A j \in 0 .. 3 - k : s[j] = Next(s[j - 1], j)
  <2> HIDE DEF Next
  <2> QED BY <1>3
<1>6. QED
  BY <1>4, <1>5

(* A row adds the product by one limb. *)
LEMMA RowCarries ==
  ASSUME NEW r \in uint256, NEW a \in uint256, NEW b \in uint256, NEW k \in 0 .. 3
  PROVE  \E e \in [0 .. 4 -> Int] :
           /\ AddRow(r, a, b, k) \in uint256
           /\ e[0] = 0
           /\ \A t \in 0 .. 3 : a[k] * LimbsUp(b, k)[t] + r[t] + e[t] =
                                  AddRow(r, a, b, k)[t] + Limb * e[t + 1]
<1>1. PICK s : /\ \A j \in 0 .. 3 - k :
                    s[j] = Cell(a[k], b[j], r[k + j], IF j = 0 THEN 0 ELSE s[j - 1] \div Limb)
               /\ AddRow(r, a, b, k) =
                    [t \in Indices |-> IF t < k THEN r[t] ELSE s[t - k] % Limb]
  BY RowSteps
<1>2. PICK e : e = [t \in 0 .. 4 |-> IF t <= k THEN 0 ELSE s[t - 1 - k] \div Limb]
  OBVIOUS
<1>3. 0 \in Digit /\ \A t \in 0 .. 3 : a[t] \in Digit /\ b[t] \in Digit /\ r[t] \in Digit
  BY LimbFacts, LimbIsDigit DEF Digit
<1>4. ASSUME NEW t \in k .. 3, e[t] \in Digit
      PROVE  /\ s[t - k] % Limb \in Digit /\ e[t + 1] \in Digit
             /\ a[k] * b[t - k] + r[t] + e[t] = (s[t - k] % Limb) + Limb * e[t + 1]
  <2>1. PICK j \in 0 .. 3 - k : j = t - k /\ k + j = t
    OBVIOUS
  <2>2. s[j] = Cell(a[k], b[j], r[t], e[t])
    <3>1. s[j] = Cell(a[k], b[j], r[k + j], IF j = 0 THEN 0 ELSE s[j - 1] \div Limb)
      BY <1>1
    <3>2. e[t] = IF j = 0 THEN 0 ELSE s[j - 1] \div Limb
      <4>1. t \in 0 .. 4 /\ (t <= k <=> j = 0) /\ t - 1 - k = j - 1
        BY <2>1
      <4>2. QED
        BY <4>1, <1>2
    <3>3. QED
      BY <3>1, <3>2, <2>1
  <2>3. e[t + 1] = s[j] \div Limb
    <3>1. t + 1 \in 0 .. 4 /\ ~(t + 1 <= k) /\ t + 1 - 1 - k = j
      BY <2>1
    <3>2. QED
      BY <3>1, <1>2
  <2>4. a[k] \in Digit /\ b[j] \in Digit /\ r[t] \in Digit
    BY <1>3
  <2>5. PICK x \in Digit, y \in Digit, v \in Digit, c \in Digit :
          x = a[k] /\ y = b[j] /\ v = r[t] /\ c = e[t]
    BY <2>4, <1>4
  <2>6. /\ Cell(x, y, v, c) % Limb \in Digit /\ Cell(x, y, v, c) \div Limb \in Digit
        /\ x * y + v + c = (Cell(x, y, v, c) % Limb) + Limb * (Cell(x, y, v, c) \div Limb)
    BY CellExact
  <2>7. s[j] = Cell(x, y, v, c)
    BY <2>2, <2>5
  <2>8. QED
    BY <2>1, <2>3, <2>5, <2>6, <2>7, Zenon
<1> DEFINE T == {t \in 0 .. 4 : e[t] \in Digit}
<1>5. 0 .. 4 \subseteq T
  <2>1. 0 \in T
    BY <1>2, <1>3
  <2>2. ASSUME NEW t \in 0 .. 4 - 1, t \in T
        PROVE  t + 1 \in T
    <3>1. CASE t < k
      <4>1. t + 1 \in 0 .. 4 /\ t + 1 <= k
        BY <3>1
      <4>2. e[t + 1] = 0
        BY <4>1, <1>2
      <4>3. QED
        BY <4>1, <4>2, <1>3
    <3>2. CASE ~(t < k)
      <4>1. t \in k .. 3 /\ e[t] \in Digit /\ t + 1 \in 0 .. 4
        BY <2>2, <3>2
      <4>2. QED
        BY <4>1, <1>4
    <3>3. QED
      BY <3>1, <3>2
  <2>3. QED
    <3> HIDE DEF T
    <3>1. 4 \in Nat
      OBVIOUS
    <3>2. QED
      BY <2>1, <2>2, <3>1, UpTo
<1>6. \A t \in 0 .. 4 : e[t] \in Digit
  BY <1>5
<1>7. PICK z : z = AddRow(r, a, b, k)
  OBVIOUS
<1>8. \A t \in 0 .. 3 : z[t] = IF t < k THEN r[t] ELSE s[t - k] % Limb
  BY <1>1, <1>7 DEF Indices, limb_count
<1>9. z = [t \in Indices |-> z[t]]
  BY <1>1, <1>7
<1>10. z \in uint256
  <2>1. ASSUME NEW t \in 0 .. 3
        PROVE  z[t] \in Digit
    <3>1. CASE t < k
      BY <3>1, <1>3, <1>8
    <3>2. CASE ~(t < k)
      <4>1. t \in k .. 3 /\ e[t] \in Digit
        BY <3>2, <1>6
      <4>2. s[t - k] % Limb \in Digit
        BY <4>1, <1>4
      <4>3. QED
        BY <4>2, <3>2, <1>8
    <3>3. QED
      BY <3>1, <3>2
  <2>2. QED
    BY <2>1, <1>9, IsLimbs DEF Digit
<1>11. ASSUME NEW t \in 0 .. 3
       PROVE  a[k] * LimbsUp(b, k)[t] + r[t] + e[t] = z[t] + Limb * e[t + 1]
  <2>1. LimbsUp(b, k)[t] = IF t >= k THEN b[t - k] ELSE 0
    BY DEF LimbsUp, Indices, limb_count
  <2>2. CASE t < k
    <3>1. e[t] = 0 /\ e[t + 1] = 0
      BY <2>2, <1>2
    <3>2. z[t] = r[t] /\ LimbsUp(b, k)[t] = 0
      BY <2>1, <2>2, <1>8
    <3>3. PICK x \in Nat, v \in Nat, L \in Nat : x = a[k] /\ v = r[t] /\ L = Limb
      BY LimbIsDigit, LimbFacts
    <3>4. x * 0 + v + 0 = v + L * 0
      OBVIOUS
    <3>5. QED
      BY <3>1, <3>2, <3>3, <3>4
  <2>3. CASE ~(t < k)
    <3>1. t \in k .. 3 /\ e[t] \in Digit
      BY <2>3, <1>6
    <3>2. a[k] * b[t - k] + r[t] + e[t] = (s[t - k] % Limb) + Limb * e[t + 1]
      BY <3>1, <1>4
    <3>3. z[t] = s[t - k] % Limb /\ LimbsUp(b, k)[t] = b[t - k]
      BY <2>1, <2>3, <1>8
    <3>4. QED
      BY <3>2, <3>3, Zenon
  <2>4. QED
    BY <2>2, <2>3
<1>12. e \in [0 .. 4 -> Int] /\ e[0] = 0
  <2>1. Digit \subseteq Int
    BY LimbFacts DEF Digit
  <2>2. e = [t \in 0 .. 4 |-> e[t]]
    BY <1>2
  <2>3. e[0] = 0
    BY <1>2
  <2>4. \A t \in 0 .. 4 : e[t] \in Int
    BY <2>1, <1>6
  <2>5. QED
    BY <2>2, <2>3, <2>4
<1>13. QED
  BY <1>7, <1>10, <1>11, <1>12

(* Sums of arrays, limb by limb. *)
LEMMA ValueOfSum ==
  ASSUME NEW x \in [Indices -> Int], NEW y \in [Indices -> Int]
  PROVE  /\ [t \in Indices |-> x[t] + y[t]] \in [Indices -> Int]
         /\ Value([t \in Indices |-> x[t] + y[t]]) = Value(x) + Value(y)
<1>1. PICK L \in Int : L = Limb
  BY LimbFacts
<1>2. PICK x0 \in Int, x1 \in Int, x2 \in Int, x3 \in Int :
        x0 = x[0] /\ x1 = x[1] /\ x2 = x[2] /\ x3 = x[3]
  BY DEF Indices, limb_count
<1>3. PICK y0 \in Int, y1 \in Int, y2 \in Int, y3 \in Int :
        y0 = y[0] /\ y1 = y[1] /\ y2 = y[2] /\ y3 = y[3]
  BY DEF Indices, limb_count
<1>4. PICK z : z = [t \in Indices |-> x[t] + y[t]]
  OBVIOUS
<1>5. z[0] = x0 + y0 /\ z[1] = x1 + y1 /\ z[2] = x2 + y2 /\ z[3] = x3 + y3
  BY <1>2, <1>3, <1>4 DEF Indices, limb_count
<1>6. Value(z) = (x0 + y0) + L * ((x1 + y1) + L * ((x2 + y2) + L * (x3 + y3)))
  BY <1>1, <1>5, Zenon DEF Value
<1>7. Value(x) = x0 + L * (x1 + L * (x2 + L * x3))
  BY <1>1, <1>2, Zenon DEF Value
<1>8. Value(y) = y0 + L * (y1 + L * (y2 + L * y3))
  BY <1>1, <1>3, Zenon DEF Value
<1>10. PICK X2 \in Int, Y2 \in Int : X2 = x2 + L * x3 /\ Y2 = y2 + L * y3
  BY ProductIsInt
<1>11. PICK X1 \in Int, Y1 \in Int : X1 = x1 + L * X2 /\ Y1 = y1 + L * Y2
  BY ProductIsInt
<1>12. PICK X0 \in Int, Y0 \in Int : X0 = x0 + L * X1 /\ Y0 = y0 + L * Y1
  BY ProductIsInt
<1>13. /\ (x2 + y2) + L * (x3 + y3) = X2 + Y2
       /\ (x1 + y1) + L * (X2 + Y2) = X1 + Y1
       /\ (x0 + y0) + L * (X1 + Y1) = X0 + Y0
  <2>1. /\ (x2 + y2) + L * (x3 + y3) = (x2 + L * x3) + (y2 + L * y3)
        /\ (x1 + y1) + L * (X2 + Y2) = (x1 + L * X2) + (y1 + L * Y2)
        /\ (x0 + y0) + L * (X1 + Y1) = (x0 + L * X1) + (y0 + L * Y1)
    OBVIOUS
  <2>2. QED
    BY <2>1, <1>10, <1>11, <1>12, Zenon
<1>14. Value(z) = X0 + Y0
  BY <1>6, <1>13, Zenon
<1>15. Value(x) = X0 /\ Value(y) = Y0
  BY <1>7, <1>8, <1>10, <1>11, <1>12, Zenon
<1>16. z \in [Indices -> Int]
  BY <1>4
<1>17. QED
  BY <1>4, <1>14, <1>15, <1>16, Zenon

(* A row adds its multiple of the number, up to multiples of 2^256.        *)
LEMMA RowExact ==
  ASSUME NEW r \in uint256, NEW a \in uint256, NEW b \in uint256, NEW k \in 0 .. 3
  PROVE  \E g \in Int :
           /\ AddRow(r, a, b, k) \in uint256
           /\ Value(AddRow(r, a, b, k))
                = Value(r) + (2 ^ (LimbBits * k) * a[k]) * Value(b) + Modulus * g
<1>1. PICK e \in [0 .. 4 -> Int] :
           /\ AddRow(r, a, b, k) \in uint256
           /\ e[0] = 0
           /\ \A t \in 0 .. 3 : a[k] * LimbsUp(b, k)[t] + r[t] + e[t] =
                                  AddRow(r, a, b, k)[t] + Limb * e[t + 1]
  BY RowCarries, ZenonT(40)
<1>2. PICK z : z = AddRow(r, a, b, k)
  OBVIOUS
<1>3. PICK y : y = LimbsUp(b, k)
  OBVIOUS
<1>4. y \in uint256 /\ Value(y) = (Value(b) * 2 ^ (LimbBits * k)) % Modulus
  BY <1>3, MovesExact
<1>5. PICK c \in Int : c = a[k]
  BY LimbIsDigit
<1>6. PICK cy : cy = [t \in Indices |-> c * y[t]]
  OBVIOUS
<1>7. cy \in [Indices -> Int] /\ Value(cy) = c * Value(y)
  <2>1. y \in [Indices -> Int]
    BY <1>4, IntLimbs
  <2>2. QED
    BY <2>1, <1>6, Scaled
<1>8. PICK x : x = [t \in Indices |-> cy[t] + r[t]]
  OBVIOUS
<1>9. r \in [Indices -> Int] /\ z \in [Indices -> Int]
  BY <1>1, <1>2, IntLimbs
<1>10. x \in [Indices -> Int] /\ Value(x) = Value(cy) + Value(r)
  BY <1>7, <1>8, <1>9, ValueOfSum
<1>11. \A t \in 0 .. 3 : x[t] = c * y[t] + r[t]
  BY <1>6, <1>8 DEF Indices, limb_count
<1>12. /\ x[0] + e[0] = z[0] + Limb * e[1]
       /\ x[1] + e[1] = z[1] + Limb * e[2]
       /\ x[2] + e[2] = z[2] + Limb * e[3]
       /\ x[3] + e[3] = z[3] + Limb * e[4]
  <2>1. \A t \in 0 .. 3 : c * y[t] + r[t] + e[t] = z[t] + Limb * e[t + 1]
    BY <1>1, <1>2, <1>3, <1>5, Zenon
  <2>2. \A t \in 0 .. 3 : x[t] + e[t] = z[t] + Limb * e[t + 1]
    BY <2>1, <1>11
  <2>3. QED
    BY <2>2
<1>13. Value(x) + e[0] = Value(z) + Modulus * e[4]
  BY <1>9, <1>10, <1>12, Chain
<1>14. PICK M \in Nat \ {0}, V \in Int, R \in Int, B \in Int, P \in Int, Y \in Int, t \in Int :
         /\ M = Modulus /\ V = Value(z) /\ R = Value(r) /\ B = Value(b)
         /\ P = 2 ^ (LimbBits * k) /\ Y = Value(y) /\ t = e[4]
  <2>1. Value(z) \in Int /\ Value(r) \in Int /\ Value(b) \in Int /\ Value(y) \in Int
    BY <1>1, <1>2, <1>4, ValueRange
  <2>2. 2 ^ (LimbBits * k) \in Int /\ Modulus \in Nat \ {0} /\ e[4] \in Int
    BY <1>1, LimbPower, LimbFacts
  <2>3. QED
    BY <2>1, <2>2
<1>15. c * Y + R = V + M * t
  <2>1. (c * Y + R) + 0 = V + M * t
    BY <1>1, <1>7, <1>10, <1>13, <1>14, Zenon
  <2>2. c * Y \in Int
    BY ProductIsInt
  <2>3. QED
    BY <2>1, <2>2
<1>16. PICK p \in Int, q \in Int : p = B * P /\ p = M * q + Y
  <2>1. PICK p \in Int : p = B * P
    BY ProductIsInt
  <2>2. Y = p % M
    BY <2>1, <1>4, <1>14
  <2>3. PICK q \in Int : q = p \div M
    BY DivSplit
  <2>4. p = M * (p \div M) + (p % M)
    BY DivSplit
  <2>5. QED
    BY <2>1, <2>2, <2>3, <2>4
<1>17. c * p = (P * c) * B
  BY <1>16
<1>18. c * p = M * (c * q) + c * Y
  <2>1. c * (M * q + Y) = M * (c * q) + c * Y
    OBVIOUS
  <2>2. QED
    BY <2>1, <1>16
<1>19. PICK g \in Int : g = -(c * q) - t
  <2>1. PICK h \in Int : h = c * q
    BY ProductIsInt
  <2>2. -h - t \in Int
    OBVIOUS
  <2>3. QED
    BY <2>1, <2>2
<1>20. V = R + (P * c) * B + M * g
  <2>1. PICK h \in Int, u \in Int, w \in Int, m \in Int :
          h = c * q /\ u = c * Y /\ w = (P * c) * B /\ m = M * t
    BY ProductIsInt
  <2>2. w = M * h + u /\ u + R = V + m
    BY <2>1, <1>15, <1>17, <1>18
  <2>3. M * g = -(M * h) - m
    <3>1. M * (-h - t) = -(M * h) - M * t
      OBVIOUS
    <3>2. QED
      BY <3>1, <2>1, <1>19
  <2>4. M * h \in Int
    BY ProductIsInt
  <2>5. QED
    BY <2>1, <2>2, <2>3, <2>4
<1>21. QED
  BY <1>1, <1>2, <1>5, <1>14, <1>20, Zenon

(* A number is the sum of its limbs by weight.                             *)
LEMMA LimbsWeighted ==
  ASSUME NEW a \in uint256
  PROVE  \E w \in [0 .. 3 -> Int] :
           /\ \A k \in 0 .. 3 : w[k] = 2 ^ (LimbBits * k) * a[k]
           /\ Value(a) = w[0] + w[1] + w[2] + w[3]
<1>1. PICK L \in Nat \ {0} : L = Limb
  BY LimbFacts
<1>2. PICK a0 \in Nat, a1 \in Nat, a2 \in Nat, a3 \in Nat :
        a0 = a[0] /\ a1 = a[1] /\ a2 = a[2] /\ a3 = a[3]
  BY LimbIsDigit
<1>3. PICK w : w = [k \in 0 .. 3 |-> 2 ^ (LimbBits * k) * a[k]]
  OBVIOUS
<1>4. w \in [0 .. 3 -> Int]
  <2>1. ASSUME NEW k \in 0 .. 3
        PROVE  2 ^ (LimbBits * k) * a[k] \in Int
    <3>1. 2 ^ (LimbBits * k) \in Int /\ a[k] \in Int
      BY LimbPower, LimbIsDigit
    <3>2. QED
      BY <3>1, ProductIsInt
  <2>2. QED
    BY <2>1, <1>3
<1>5. /\ w[0] = 1 * a0 /\ w[1] = L * a1
      /\ w[2] = (L * L) * a2 /\ w[3] = ((L * L) * L) * a3
  <2>1. /\ 2 ^ (LimbBits * 0) = 1
        /\ 2 ^ (LimbBits * 1) = L
        /\ 2 ^ (LimbBits * 2) = L * L
        /\ 2 ^ (LimbBits * 3) = (L * L) * L
    BY <1>1, LimbPowers, Zenon
  <2>2. /\ w[0] = 2 ^ (LimbBits * 0) * a[0] /\ w[1] = 2 ^ (LimbBits * 1) * a[1]
        /\ w[2] = 2 ^ (LimbBits * 2) * a[2] /\ w[3] = 2 ^ (LimbBits * 3) * a[3]
    BY <1>3
  <2>3. QED
    BY <2>1, <2>2, <1>2, Zenon
<1>6. Value(a) = a0 + L * (a1 + L * (a2 + L * a3))
  BY <1>1, <1>2, Zenon DEF Value
<1>7. a0 + L * (a1 + L * (a2 + L * a3)) = 1 * a0 + L * a1 + (L * L) * a2 + ((L * L) * L) * a3
  OBVIOUS
<1>8. QED
  BY <1>3, <1>4, <1>5, <1>6, <1>7, Zenon

(* operator* multiplies modulo 2^256.                                      *)
LEMMA TimesExact ==
  ASSUME NEW a \in uint256, NEW b \in uint256
  PROVE  /\ Times(a, b) \in uint256
         /\ Value(Times(a, b)) = (Value(a) * Value(b)) % Modulus
<1>1. PICK w \in [0 .. 3 -> Int] :
           /\ \A k \in 0 .. 3 : w[k] = 2 ^ (LimbBits * k) * a[k]
           /\ Value(a) = w[0] + w[1] + w[2] + w[3]
  BY LimbsWeighted
<1>2. PICK A \in Int, B \in Int, M \in Nat \ {0} : A = Value(a) /\ B = Value(b) /\ M = Modulus
  BY ValueRange, LimbFacts
<1>3. ASSUME NEW r \in uint256, NEW k \in 0 .. 3
      PROVE  \E g \in Int : /\ AddRow(r, a, b, k) \in uint256
                            /\ Value(AddRow(r, a, b, k)) = Value(r) + w[k] * B + M * g
  <2>1. PICK g \in Int :
           /\ AddRow(r, a, b, k) \in uint256
           /\ Value(AddRow(r, a, b, k))
                = Value(r) + (2 ^ (LimbBits * k) * a[k]) * Value(b) + Modulus * g
    BY RowExact
  <2>2. w[k] = 2 ^ (LimbBits * k) * a[k]
    BY <1>1
  <2>3. QED
    BY <2>1, <2>2, <1>2, Zenon
<1>4. PICK r0 : r0 = AddRow(Zero, a, b, 0)
  OBVIOUS
<1>5. PICK r1 : r1 = AddRow(r0, a, b, 1)
  OBVIOUS
<1>6. PICK r2 : r2 = AddRow(r1, a, b, 2)
  OBVIOUS
<1>7. PICK r3 : r3 = AddRow(r2, a, b, 3)
  OBVIOUS
<1>8. 0 \in 0 .. 3 /\ 1 \in 0 .. 3 /\ 2 \in 0 .. 3 /\ 3 \in 0 .. 3
  OBVIOUS
<1>9. PICK w0 \in Int, w1 \in Int, w2 \in Int, w3 \in Int :
        w0 = w[0] /\ w1 = w[1] /\ w2 = w[2] /\ w3 = w[3]
  BY <1>1, <1>8
<1>10. PICK g0 \in Int : r0 \in uint256 /\ Value(r0) = 0 + w0 * B + M * g0
  BY <1>3, <1>4, <1>8, <1>9, ZeroExact, Zenon
<1>11. PICK g1 \in Int : r1 \in uint256 /\ Value(r1) = Value(r0) + w1 * B + M * g1
  BY <1>3, <1>5, <1>8, <1>9, <1>10, Zenon
<1>12. PICK g2 \in Int : r2 \in uint256 /\ Value(r2) = Value(r1) + w2 * B + M * g2
  BY <1>3, <1>6, <1>8, <1>9, <1>11, Zenon
<1>13. PICK g3 \in Int : r3 \in uint256 /\ Value(r3) = Value(r2) + w3 * B + M * g3
  BY <1>3, <1>7, <1>8, <1>9, <1>12, Zenon
<1>14. PICK R \in Nat : R = Value(r3) /\ R \in 0 .. M - 1
  BY <1>2, <1>13, ValueRange
<1>15. PICK h \in Int : h = -(g0 + g1 + g2 + g3)
  OBVIOUS
<1>16. A * B = M * h + R
  <2>1. PICK p0 \in Int, p1 \in Int, p2 \in Int, p3 \in Int :
          p0 = w0 * B /\ p1 = w1 * B /\ p2 = w2 * B /\ p3 = w3 * B
    BY ProductIsInt
  <2>2. PICK m0 \in Int, m1 \in Int, m2 \in Int, m3 \in Int :
          m0 = M * g0 /\ m1 = M * g1 /\ m2 = M * g2 /\ m3 = M * g3
    BY <1>2, ProductIsInt
  <2>3. (w0 + w1 + w2 + w3) * B = p0 + p1 + p2 + p3
    <3>1. (w0 + w1 + w2 + w3) * B = w0 * B + w1 * B + w2 * B + w3 * B
      OBVIOUS
    <3>2. QED
      BY <3>1, <2>1
  <2>4. M * h = -(m0 + m1 + m2 + m3)
    <3>1. M * (-(g0 + g1 + g2 + g3)) = -(M * g0 + M * g1 + M * g2 + M * g3)
      OBVIOUS
    <3>2. QED
      BY <3>1, <2>2, <1>15
  <2>5. Value(r0) = p0 + m0
    BY <1>10, <2>1, <2>2
  <2>6. Value(r1) = p0 + m0 + p1 + m1
    BY <2>5, <1>11, <2>1, <2>2
  <2>7. Value(r2) = p0 + m0 + p1 + m1 + p2 + m2
    BY <2>6, <1>12, <2>1, <2>2
  <2>8. R = p0 + m0 + p1 + m1 + p2 + m2 + p3 + m3
    BY <2>7, <1>13, <1>14, <2>1, <2>2
  <2>9. A * B = p0 + p1 + p2 + p3
    BY <2>3, <1>1, <1>2, <1>9
  <2>10. QED
    BY <2>4, <2>8, <2>9
<1>17. PICK p \in Int : p = A * B
  BY ProductIsInt
<1>18. p % M = R
  <2>1. p = M * h + R
    BY <1>16, <1>17
  <2>2. R \in 0 .. M - 1
    BY <1>14
  <2>3. QED
    BY <2>1, <2>2, DivOf
<1>19. Times(a, b) = r3
  BY <1>4, <1>5, <1>6, <1>7, Zenon DEF Times
<1>20. QED
  BY <1>2, <1>13, <1>14, <1>17, <1>18, <1>19, Zenon

-----------------------------------------------------------------------------
(* Bytes. *)

(* The bytes of a limb and of a number.                                    *)
LEMMA ByteFacts ==
  /\ ByteBits \in Nat \ {0} /\ LimbBytes \in Nat \ {0} /\ Byte \in Nat \ {0}
  /\ ByteBits * LimbBytes = LimbBits
  /\ NumBytes = LimbBytes * 4 /\ NumBytes \in Nat \ {0}
<1>1. PICK b \in Nat \ {0}, l \in Nat \ {0} : b = ByteBits /\ l = LimbBits /\ l % b = 0
  BY WidthAssumption
<1>2. PICK q \in Nat, r \in 0 .. b - 1 : q = l \div b /\ r = l % b /\ l = b * q + r
  BY DivParts
<1>3. l = b * q
  <2>1. b * q \in Nat
    BY ProductIsNat
  <2>2. QED
    BY <2>1, <1>1, <1>2
<1>4. q # 0
  <2>1. b * 0 = 0
    OBVIOUS
  <2>2. QED
    BY <2>1, <1>1, <1>3
<1>5. LimbBytes = q
  BY <1>1, <1>2 DEF LimbBytes
<1>6. 4 * q = q * 4 /\ q * 4 \in Nat \ {0}
  BY <1>4
<1>7. Byte \in Nat \ {0}
  BY WidthAssumption, PowerPositive DEF Byte
<1>8. QED
  BY <1>1, <1>2, <1>3, <1>4, <1>5, <1>6, <1>7 DEF NumBytes, limb_count

(* Byte j of a limb: a limb is 2^(8j) times a byte times what is above. *)
LEMMA ByteInLimb ==
  ASSUME NEW j \in 0 .. LimbBytes - 1
  PROVE  /\ ByteBits * j \in Nat /\ ByteBits * (j + 1) = ByteBits * j + ByteBits
         /\ ByteBits * (j + 1) \in 0 .. LimbBits
         /\ 2 ^ (ByteBits * (j + 1)) = 2 ^ (ByteBits * j) * Byte
         /\ \E R \in Nat \ {0} : Limb = (2 ^ (ByteBits * j) * Byte) * R
<1>1. PICK b \in Nat \ {0}, l \in Nat, n \in Nat \ {0} :
        b = ByteBits /\ l = LimbBits /\ n = LimbBytes /\ l = b * n
  BY ByteFacts, WidthAssumption
<1>2. PICK c \in Nat : c = b * j
  <2>1. j \in Nat
    OBVIOUS
  <2>2. QED
    BY <2>1, ProductIsNat
<1>3. b * (j + 1) = c + b
  BY <1>2
<1>4. c + b <= l
  <2>1. j + 1 \in Nat /\ j + 1 <= n
    BY <1>1
  <2>2. b * (j + 1) <= b * n
    BY <2>1, ProductAtMost
  <2>3. QED
    BY <2>2, <1>1, <1>3
<1>5. 2 ^ (c + b) = 2 ^ c * 2 ^ b
  BY PowerSum
<1>6. PICK m \in Nat : m = c + b
  OBVIOUS
<1>7. PICK R \in Nat \ {0} : 2 ^ l = 2 ^ m * R
  <2>1. m <= l
    BY <1>4, <1>6
  <2>2. 2 ^ l = 2 ^ m * 2 ^ (l - m) /\ l - m \in Nat
    BY <2>1, PowerMonotone
  <2>3. 2 ^ (l - m) \in Nat \ {0}
    BY <2>2, PowerPositive
  <2>4. QED
    BY <2>2, <2>3
<1>8. Limb = (2 ^ (ByteBits * j) * Byte) * R
  BY <1>1, <1>2, <1>5, <1>6, <1>7, Zenon DEF Limb, Byte
<1>9. 2 ^ (ByteBits * (j + 1)) = 2 ^ (ByteBits * j) * Byte
  BY <1>1, <1>2, <1>3, <1>5, Zenon DEF Byte
<1>10. QED
  BY <1>1, <1>2, <1>3, <1>4, <1>8, <1>9

(* One digit more of a remainder. *)
LEMMA ModSplit ==
  ASSUME NEW P \in Nat \ {0}, NEW Q \in Nat \ {0}, NEW v \in Nat
  PROVE  /\ (v \div P) % Q \in 0 .. Q - 1
         /\ v % (P * Q) = (v % P) + P * ((v \div P) % Q)
<1>1. PICK q \in Nat, r \in 0 .. P - 1 : q = v \div P /\ r = v % P /\ v = P * q + r
  BY DivParts
<1>2. PICK h \in Nat, t \in 0 .. Q - 1 : t = q % Q /\ q = Q * h + t
  BY DivParts
<1>3. PICK M \in Nat \ {0} : M = P * Q
  BY ProductPositive
<1>4. PICK s \in Nat : s = r + P * t /\ s \in 0 .. M - 1
  <2>1. r + P * t \in 0 .. P * Q - 1
    BY HornerRange
  <2>2. QED
    BY <2>1, <1>3
<1>5. v = M * h + s
  <2>1. P * (Q * h + t) = (P * Q) * h + P * t
    OBVIOUS
  <2>2. PICK a \in Int, c \in Int : a = M * h /\ c = P * t
    BY ProductIsInt
  <2>3. P * q = a + c
    <3>1. P * q = P * (Q * h + t)
      BY <1>2
    <3>2. P * (Q * h + t) = a + c
      BY <2>1, <2>2, <1>3
    <3>3. QED
      BY <3>1, <3>2
  <2>4. v = P * q + r /\ s = r + c
    BY <1>1, <1>4, <2>2
  <2>5. v = (a + c) + r
    BY <2>3, <2>4
  <2>6. QED
    BY <2>2, <2>4, <2>5
<1>6. v % M = s
  <2>1. s \in 0 .. M - 1
    BY <1>4
  <2>2. QED
    BY <2>1, <1>5, DivOf
<1>7. QED
  BY <1>1, <1>2, <1>3, <1>4, <1>6

(* Byte j of a limb.                                                       *)
ByteAt(v, j) == LimbShiftRight(v, ByteBits * j) % Byte

(* A shifted byte keeps within the limb. *)
LEMMA ByteShifted ==
  ASSUME NEW c \in 0 .. Byte - 1, NEW j \in 0 .. LimbBytes - 1
  PROVE  /\ LimbShiftLeft(c, ByteBits * j) = c * 2 ^ (ByteBits * j)
         /\ c * 2 ^ (ByteBits * j) \in Nat
<1>1. PICK P \in Nat \ {0}, B \in Nat \ {0} : P = 2 ^ (ByteBits * j) /\ B = Byte
  BY ByteInLimb, ByteFacts, PowerPositive
<1>2. PICK R \in Nat \ {0} : Limb = (P * B) * R
  BY <1>1, ByteInLimb, Zenon
<1>3. PICK L \in Nat \ {0} : L = Limb
  BY LimbFacts
<1>4. c \in Nat /\ c + 1 <= B
  BY <1>1
<1>5. PICK p \in Nat : p = c * P
  BY <1>4, ProductIsNat
<1>6. p < L
  <2>1. P * (c + 1) <= P * B /\ (P * B) * 1 <= (P * B) * R
    <3>1. P * B \in Nat
      BY ProductIsNat
    <3>2. QED
      BY <3>1, <1>4, ProductAtMost
  <2>2. P * (c + 1) = p + P
    BY <1>4, <1>5
  <2>3. P * B \in Nat /\ (P * B) * 1 = P * B
    BY ProductIsNat
  <2>4. QED
    BY <2>1, <2>2, <2>3, <1>2, <1>3
<1>7. p % L = p
  <2>1. p \in 0 .. L - 1
    BY <1>6
  <2>2. QED
    BY <2>1, Small
<1>8. QED
  BY <1>1, <1>3, <1>5, <1>7 DEF LimbShiftLeft

(* A limb is put together from its bytes. *)
LEMMA LimbFromBytes ==
  ASSUME NEW v \in Digit, NEW t,
         \A k \in 1 .. LimbBytes : t[k] = LimbShiftLeft(ByteAt(v, k - 1), ByteBits * (k - 1))
  PROVE  SumOf(t, LimbBytes) = v
<1>1. PICK n \in Nat \ {0}, u \in Nat : n = LimbBytes /\ u = v
  BY ByteFacts, LimbFacts DEF Digit
<1>2. PICK rest : rest = [k \in 0 .. n |-> u % 2 ^ (ByteBits * k)]
  OBVIOUS
<1>3. ASSUME NEW k \in 1 .. n
      PROVE  rest[k] = rest[k - 1] + t[k]
  <2>1. PICK j \in 0 .. LimbBytes - 1 : j = k - 1 /\ j + 1 = k /\ j \in 0 .. n
    BY <1>1
  <2>2. PICK P \in Nat \ {0}, B \in Nat \ {0} : P = 2 ^ (ByteBits * j) /\ B = Byte
    BY ByteInLimb, ByteFacts, PowerPositive
  <2>3. PICK c \in 0 .. B - 1 : c = (u \div P) % B /\ u % (P * B) = (u % P) + P * c
    BY ModSplit, ZenonT(40)
  <2>4. ByteAt(v, j) = c
    BY <1>1, <2>2, <2>3, Zenon DEF ByteAt, LimbShiftRight
  <2>5. t[k] = c * P
    <3>1. c \in 0 .. Byte - 1
      BY <2>2
    <3>2. LimbShiftLeft(c, ByteBits * j) = c * 2 ^ (ByteBits * j)
      BY <3>1, ByteShifted
    <3>3. t[k] = LimbShiftLeft(ByteAt(v, j), ByteBits * j)
      BY <1>1, <2>1
    <3>4. QED
      BY <3>2, <3>3, <2>2, <2>4
  <2>6. rest[k] = u % (P * B)
    <3>1. 2 ^ (ByteBits * (j + 1)) = P * B
      BY <2>2, ByteInLimb
    <3>2. rest[k] = u % 2 ^ (ByteBits * k)
      BY <1>2
    <3>3. QED
      BY <3>1, <3>2, <2>1
  <2>7. rest[k - 1] = u % P
    BY <1>2, <2>1, <2>2
  <2>8. c * P = P * c
    OBVIOUS
  <2>9. QED
    BY <2>3, <2>5, <2>6, <2>7, <2>8
<1>4. rest[0] = 0
  <2>1. ByteBits * 0 = 0
    BY ByteFacts
  <2>2. u % 1 = 0
    OBVIOUS
  <2>3. rest[0] = u % 2 ^ (ByteBits * 0)
    BY <1>2
  <2>4. QED
    BY <2>1, <2>2, <2>3, PowerZero
<1>5. rest[n] = u
  <2>1. PICK L \in Nat \ {0} : L = Limb /\ L = 2 ^ (ByteBits * n) /\ u \in 0 .. L - 1
    BY <1>1, ByteFacts, LimbFacts DEF Limb, Digit
  <2>2. u % L = u
    <3>1. u \in 0 .. L - 1
      BY <2>1
    <3>2. QED
      BY <3>1, Small
  <2>3. rest[n] = u % 2 ^ (ByteBits * n)
    BY <1>2
  <2>4. QED
    BY <2>1, <2>2, <2>3
<1>6. \A k \in 0 .. n : rest[k] \in Nat
  <2>1. ASSUME NEW k \in 0 .. n
        PROVE  u % 2 ^ (ByteBits * k) \in Nat
    <3>1. k \in Nat
      OBVIOUS
    <3>2. ByteBits * k \in Nat
      BY <3>1, ByteFacts, ProductIsNat
    <3>3. PICK P \in Nat \ {0} : P = 2 ^ (ByteBits * k)
      BY <3>2, PowerPositive
    <3>4. u % P \in 0 .. P - 1
      BY DivSplit
    <3>5. QED
      BY <3>3, <3>4
  <2>2. QED
    BY <2>1, <1>2
<1>7. SumOf(t, n) = rest[n]
  BY <1>3, <1>4, <1>6, SumOfRests
<1>8. QED
  BY <1>1, <1>5, <1>7

(* Byte k is byte j of limb i. *)
LEMMA ByteIndex ==
  ASSUME NEW k \in 0 .. NumBytes - 1
  PROVE  \E i \in 0 .. 3, j \in 0 .. LimbBytes - 1 :
           /\ i = k \div LimbBytes /\ j = k % LimbBytes
           /\ k = i * LimbBytes + j
           /\ ByteBits * k \in Nat /\ ByteBits * k = LimbBits * i + ByteBits * j
<1>1. PICK b \in Nat \ {0}, n \in Nat \ {0} :
        b = ByteBits /\ n = LimbBytes /\ LimbBits = b * n /\ NumBytes = n * 4
  BY ByteFacts
<1>2. k \in Nat /\ k < n * 4
  BY <1>1
<1>3. PICK i \in Nat, j \in 0 .. n - 1 : i = k \div n /\ j = k % n /\ k = n * i + j
  BY <1>2, DivParts
<1>4. i \in 0 .. 3
  <2>1. k \div n \in 0 .. 4 - 1
    BY <1>2, DivBelow
  <2>2. QED
    BY <2>1, <1>3
<1>5. n * i + j = i * n + j
  OBVIOUS
<1>6. b * (n * i + j) = (b * n) * i + b * j
  OBVIOUS
<1>7. b * k \in Nat
  BY <1>2, ProductIsNat
<1>8. QED
  BY <1>1, <1>3, <1>4, <1>5, <1>6, <1>7

(* The byte j of limb i has a place among the bytes. *)
LEMMA ByteOfLimb ==
  ASSUME NEW i \in 0 .. 3, NEW j \in 0 .. LimbBytes - 1
  PROVE  /\ i * LimbBytes + j \in 0 .. NumBytes - 1
         /\ (i * LimbBytes + j) \div LimbBytes = i
         /\ (i * LimbBytes + j) % LimbBytes = j
<1>1. PICK n \in Nat \ {0} : n = LimbBytes /\ NumBytes = n * 4
  BY ByteFacts
<1>2. PICK k \in Nat : k = i * n + j
  <2>1. i \in Nat /\ j \in Nat
    BY <1>1
  <2>2. i * n \in Nat
    BY <2>1, ProductIsNat
  <2>3. QED
    BY <2>1, <2>2
<1>3. k = n * i + j
  BY <1>2
<1>4. k \div n = i /\ k % n = j
  <2>1. i \in Int /\ j \in 0 .. n - 1
    BY <1>1
  <2>2. QED
    BY <2>1, <1>3, DivOf
<1>5. k < n * 4
  <2>1. j \in 0 .. n - 1 /\ i \in 0 .. 4 - 1
    BY <1>1
  <2>2. j + n * i \in 0 .. n * 4 - 1
    BY <2>1, HornerRange
  <2>3. n * i \in Int /\ n * 4 \in Int
    BY ProductIsInt
  <2>4. QED
    BY <2>1, <2>2, <2>3, <1>3
<1>6. QED
  BY <1>1, <1>2, <1>4, <1>5

(* Byte k, counted from the least significant, is the number's byte k. *)
LEMMA LittleEndianBytes ==
  ASSUME NEW x \in uint256, NEW k \in 0 .. NumBytes - 1
  PROVE  to_bytes_le(x)[k] = (Value(x) \div 2 ^ (ByteBits * k)) % Byte
<1>1. PICK i \in 0 .. 3, j \in 0 .. LimbBytes - 1 :
        /\ i = k \div LimbBytes /\ j = k % LimbBytes
        /\ ByteBits * k = LimbBits * i + ByteBits * j
  BY ByteIndex
<1>2. to_bytes_le(x)[k] = (x[i] \div 2 ^ (ByteBits * j)) % Byte
  BY <1>1 DEF to_bytes_le, LimbShiftRight
<1>3. PICK P \in Nat \ {0}, B \in Nat \ {0} : P = 2 ^ (ByteBits * j) /\ B = Byte
  BY ByteInLimb, ByteFacts, PowerPositive
<1>4. PICK R \in Nat \ {0} : Limb = (P * B) * R
  BY <1>3, ByteInLimb, Zenon
<1>5. PICK v \in Nat : v = x[i]
  BY LimbIsDigit
<1>6. PICK h \in Nat : Value(x) \div 2 ^ (LimbBits * i) = x[i] + Limb * h
  BY LimbOfValue
<1>7. PICK m \in Nat : m = R * h
  BY ProductIsNat
<1>8. Limb * h = P * (B * m)
  <2>1. ((P * B) * R) * h = P * (B * (R * h))
    OBVIOUS
  <2>2. QED
    BY <2>1, <1>4, <1>7, Zenon
<1>9. (v + P * (B * m)) \div P = v \div P + B * m
  <2>1. B * m \in Int
    BY ProductIsInt
  <2>2. QED
    BY <2>1, DivPlusMultiple
<1>10. (v \div P + B * m) % B = (v \div P) % B
  <2>1. v \in Int /\ m \in Int
    OBVIOUS
  <2>2. v \div P \in Int
    BY <2>1, DivSplit
  <2>3. PICK u \in Int : u = v \div P
    BY <2>2
  <2>4. u \in Int
    OBVIOUS
  <2>5. (u + B * m) % B = u % B
    BY <2>1, <2>4, DivPlusMultiple
  <2>6. QED
    BY <2>3, <2>5
<1>11. Value(x) \div 2 ^ (ByteBits * k) = (Value(x) \div 2 ^ (LimbBits * i)) \div P
  <2>1. LimbBits * i \in Nat /\ ByteBits * j \in Nat
    <3>1. i \in Nat
      OBVIOUS
    <3>2. QED
      BY <3>1, LimbPower, ByteInLimb
  <2>2. 2 ^ (LimbBits * i + ByteBits * j) = 2 ^ (LimbBits * i) * 2 ^ (ByteBits * j)
    BY <2>1, PowerSum
  <2>3. PICK Q \in Nat \ {0} : Q = 2 ^ (LimbBits * i)
    BY <2>1, PowerPositive
  <2>4. PICK V \in Int : V = Value(x)
    BY ValueRange
  <2>5. (V \div Q) \div P = V \div (Q * P)
    BY DivDiv
  <2>6. QED
    BY <2>2, <2>3, <2>4, <2>5, <1>1, <1>3
<1>12. QED
  BY <1>2, <1>3, <1>5, <1>6, <1>8, <1>9, <1>10, <1>11

(* The big-endian bytes are the little-endian ones in reverse. *)
LEMMA BigEndianBytes ==
  ASSUME NEW x, NEW k \in 0 .. NumBytes - 1
  PROVE  /\ NumBytes - 1 - k \in 0 .. NumBytes - 1
         /\ to_bytes_be(x)[k] = to_bytes_le(x)[NumBytes - 1 - k]
<1>1. PICK i \in 0 .. 3, j \in 0 .. LimbBytes - 1 :
        i = k \div LimbBytes /\ j = k % LimbBytes /\ k = i * LimbBytes + j
  BY ByteIndex
<1>2. PICK n \in Nat \ {0} : n = LimbBytes /\ NumBytes = n * 4
  BY ByteFacts
<1>3. PICK i2 \in 0 .. 3 : i2 = 3 - i
  OBVIOUS
<1>4. PICK j2 \in 0 .. n - 1 : j2 = n - 1 - j /\ j2 = LimbBytes - 1 - j
  BY <1>2
<1>5. NumBytes - 1 - k = i2 * LimbBytes + j2
  <2>1. (3 - i) * n = 3 * n - i * n
    OBVIOUS
  <2>2. PICK c \in Int, e \in Int : c = i * n /\ e = i2 * n
    BY ProductIsInt
  <2>3. e = 3 * n - c
    BY <2>1, <2>2, <1>3
  <2>4. k = c + j /\ n * 4 - 1 - k = e + j2
    <3>1. k = c + j
      BY <2>2, <1>1, <1>2
    <3>2. c \in Int /\ e \in Int /\ n \in Int /\ i \in Int /\ j \in Int /\ j2 = n - 1 - j
      BY <1>2, <1>4
    <3>3. n * 4 - 1 - (c + j) = (3 * n - c) + (n - 1 - j)
      BY <3>2
    <3>4. QED
      BY <3>1, <3>2, <3>3, <2>3
  <2>5. QED
    BY <2>2, <2>4, <1>2
<1>6. PICK l : l = NumBytes - 1 - k
  OBVIOUS
<1>7. l \in 0 .. NumBytes - 1 /\ l \div LimbBytes = i2 /\ l % LimbBytes = j2
  BY <1>2, <1>5, <1>6, ByteOfLimb
<1>8. to_bytes_le(x)[l] = LimbShiftRight(x[i2], ByteBits * j2) % Byte
  BY <1>7 DEF to_bytes_le
<1>9. to_bytes_be(x)[k] = LimbShiftRight(x[i2], ByteBits * j2) % Byte
  <2>1. limb_count - 1 - i = i2
    BY <1>3 DEF limb_count
  <2>2. QED
    BY <2>1, <1>1, <1>4 DEF to_bytes_be
<1>10. QED
  BY <1>6, <1>7, <1>8, <1>9

(* The bytes of a number make the number again, in either order. *)
LEMMA BytesAndBack ==
  ASSUME NEW x \in uint256
  PROVE  from_bytes_le(to_bytes_le(x)) = x /\ from_bytes_be(to_bytes_be(x)) = x
<1>1. ASSUME NEW i \in 0 .. 3
      PROVE  from_bytes_le(to_bytes_le(x))[i] = x[i]
  <2>1. PICK t : t = [k \in 1 .. LimbBytes |->
                        LimbShiftLeft(to_bytes_le(x)[i * LimbBytes + (k - 1)], ByteBits * (k - 1))]
    OBVIOUS
  <2>2. ASSUME NEW k \in 1 .. LimbBytes
        PROVE  t[k] = LimbShiftLeft(ByteAt(x[i], k - 1), ByteBits * (k - 1))
    <3>1. PICK j \in 0 .. LimbBytes - 1 : j = k - 1
      BY ByteFacts
    <3>2. PICK l \in 0 .. NumBytes - 1 :
            l = i * LimbBytes + j /\ l \div LimbBytes = i /\ l % LimbBytes = j
      BY ByteOfLimb
    <3>3. to_bytes_le(x)[l] = ByteAt(x[i], j)
      BY <3>2 DEF to_bytes_le, ByteAt
    <3>4. t[k] = LimbShiftLeft(to_bytes_le(x)[i * LimbBytes + (k - 1)], ByteBits * (k - 1))
      BY <2>1
    <3>5. QED
      BY <3>1, <3>2, <3>3, <3>4
  <2>3. SumOf(t, LimbBytes) = x[i]
    BY <2>2, LimbIsDigit, LimbFromBytes
  <2>4. i \in Indices
    BY DEF Indices, limb_count
  <2>5. QED
    BY <2>1, <2>3, <2>4 DEF from_bytes_le
<1>2. ASSUME NEW i \in 0 .. 3
      PROVE  from_bytes_be(to_bytes_be(x))[i] = x[i]
  <2>1. PICK t : t = [k \in 1 .. LimbBytes |->
                        LimbShiftLeft(to_bytes_be(x)[(limb_count - 1 - i) * LimbBytes + (LimbBytes - k)],
                                      ByteBits * (k - 1))]
    OBVIOUS
  <2>2. ASSUME NEW k \in 1 .. LimbBytes
        PROVE  t[k] = LimbShiftLeft(ByteAt(x[i], k - 1), ByteBits * (k - 1))
    <3>1. PICK j \in 0 .. LimbBytes - 1 : j = LimbBytes - k /\ LimbBytes - 1 - j = k - 1
      BY ByteFacts
    <3>2. PICK i2 \in 0 .. 3 : i2 = limb_count - 1 - i /\ limb_count - 1 - i2 = i
      BY DEF limb_count
    <3>3. PICK l \in 0 .. NumBytes - 1 :
            l = i2 * LimbBytes + j /\ l \div LimbBytes = i2 /\ l % LimbBytes = j
      BY ByteOfLimb
    <3>4. to_bytes_be(x)[l] = ByteAt(x[i], k - 1)
      BY <3>1, <3>2, <3>3 DEF to_bytes_be, ByteAt
    <3>5. t[k] = LimbShiftLeft(to_bytes_be(x)[(limb_count - 1 - i) * LimbBytes + (LimbBytes - k)],
                               ByteBits * (k - 1))
      BY <2>1
    <3>6. QED
      BY <3>1, <3>2, <3>3, <3>4, <3>5
  <2>3. SumOf(t, LimbBytes) = x[i]
    BY <2>2, LimbIsDigit, LimbFromBytes
  <2>4. i \in Indices
    BY DEF Indices, limb_count
  <2>5. QED
    BY <2>1, <2>3, <2>4 DEF from_bytes_be
<1>3. Indices = 0 .. 3
  BY DEF Indices, limb_count
<1>4. x = [i \in Indices |-> x[i]]
  BY DEF uint256
<1>5. PICK y : y = from_bytes_le(to_bytes_le(x))
  OBVIOUS
<1>6. y = [i \in Indices |-> y[i]]
  BY <1>5, Zenon DEF from_bytes_le
<1>7. PICK z : z = from_bytes_be(to_bytes_be(x))
  OBVIOUS
<1>8. z = [i \in Indices |-> z[i]]
  BY <1>7, Zenon DEF from_bytes_be
<1>9. y = x
  BY <1>1, <1>3, <1>4, <1>5, <1>6, Zenon
<1>10. z = x
  BY <1>2, <1>3, <1>4, <1>7, <1>8, Zenon
<1>11. QED
  BY <1>5, <1>7, <1>9, <1>10

(* Bytes put side by side stay below the next byte's place. *)
LEMMA BytesBelow ==
  ASSUME NEW c, NEW count \in Nat, \A k \in 1 .. count : c[k] \in 0 .. Byte - 1,
         NEW f, f[0] = 0,
         \A k \in 1 .. count : f[k] = f[k - 1] + c[k] * 2 ^ (ByteBits * (k - 1))
  PROVE  \A k \in 0 .. count : f[k] \in 0 .. 2 ^ (ByteBits * k) - 1
<1> DEFINE T == {k \in 0 .. count : f[k] \in 0 .. 2 ^ (ByteBits * k) - 1}
<1>1. 0 \in T
  <2>1. ByteBits * 0 = 0
    BY ByteFacts
  <2>2. 2 ^ (ByteBits * 0) = 1
    BY <2>1, PowerZero
  <2>3. QED
    BY <2>2
<1>2. ASSUME NEW k \in 0 .. count - 1, k \in T
      PROVE  k + 1 \in T
  <2>1. k \in Nat /\ k + 1 \in 1 .. count /\ k + 1 - 1 = k
    OBVIOUS
  <2>2. PICK b \in Nat \ {0} : b = ByteBits
    BY ByteFacts
  <2>3. PICK e \in Nat : e = b * k
    BY <2>1, ProductIsNat
  <2>4. b * (k + 1) = e + b
    BY <2>1, <2>3
  <2>5. PICK P \in Nat \ {0}, B \in Nat \ {0} : P = 2 ^ e /\ B = 2 ^ b
    BY PowerPositive
  <2>6. 2 ^ (ByteBits * (k + 1)) = P * B
    BY <2>2, <2>4, <2>5, PowerSum
  <2>7. PICK g \in 0 .. P - 1 : g = f[k]
    BY <1>2, <2>2, <2>3, <2>5
  <2>8. PICK v \in 0 .. B - 1 : v = c[k + 1]
    BY <2>1, <2>2, <2>5 DEF Byte
  <2>9. f[k + 1] = g + P * v
    <3>1. f[k + 1] = f[k + 1 - 1] + c[k + 1] * 2 ^ (ByteBits * (k + 1 - 1))
      BY <2>1
    <3>2. f[k + 1] = g + v * P
      BY <3>1, <2>1, <2>2, <2>3, <2>5, <2>7, <2>8
    <3>3. v * P = P * v
      OBVIOUS
    <3>4. QED
      BY <3>2, <3>3
  <2>10. g + P * v \in 0 .. P * B - 1
    BY <2>7, <2>8, HornerRange
  <2>11. QED
    BY <2>1, <2>6, <2>9, <2>10
<1>3. 0 .. count \subseteq T
  <2> HIDE DEF T
  <2>1. QED
    BY <1>1, <1>2, UpTo
<1>4. QED
  BY <1>3

(* The sums that make up limb i. *)
LEMMA LimbSums ==
  ASSUME NEW in \in bytes32, NEW i \in 0 .. 3
  PROVE  \E g : /\ g[0] = 0
                /\ \A k \in 1 .. LimbBytes :
                     g[k] = g[k - 1] + in[i * LimbBytes + (k - 1)] * 2 ^ (ByteBits * (k - 1))
                /\ \A k \in 0 .. LimbBytes : g[k] \in Nat
                /\ from_bytes_le(in)[i] = g[LimbBytes]
                /\ g[LimbBytes] \in Digit
<1>1. PICK t : t = [k \in 1 .. LimbBytes |->
                      LimbShiftLeft(in[i * LimbBytes + (k - 1)], ByteBits * (k - 1))]
  OBVIOUS
<1>2. PICK n \in Nat \ {0} : n = LimbBytes /\ ByteBits * n = LimbBits
  BY ByteFacts
<1>3. PICK g : /\ g[0] = 0
               /\ \A k \in 1 .. n : g[k] = g[k - 1] + t[k]
               /\ SumOf(t, n) = g[n]
  BY SumSteps
<1>4. PICK c : c = [k \in 1 .. n |-> in[i * n + (k - 1)]]
  OBVIOUS
<1>5. ASSUME NEW k \in 1 .. n
      PROVE  /\ c[k] \in 0 .. Byte - 1 /\ c[k] = in[i * n + (k - 1)]
             /\ t[k] = c[k] * 2 ^ (ByteBits * (k - 1))
  <2>1. PICK j \in 0 .. LimbBytes - 1 : j = k - 1
    BY <1>2
  <2>2. i * LimbBytes + j \in 0 .. NumBytes - 1
    BY ByteOfLimb
  <2>3. PICK v \in 0 .. Byte - 1 : v = in[i * LimbBytes + j]
    BY <2>2 DEF bytes32
  <2>4. v \in 0 .. Byte - 1
    BY <2>3
  <2>5. LimbShiftLeft(v, ByteBits * j) = v * 2 ^ (ByteBits * j)
    BY <2>4, ByteShifted
  <2>6. c[k] = in[i * n + (k - 1)]
    BY <1>4
  <2>7. t[k] = LimbShiftLeft(in[i * LimbBytes + (k - 1)], ByteBits * (k - 1))
    BY <1>1, <1>2
  <2>8. QED
    BY <2>1, <2>3, <2>5, <2>6, <2>7, <1>2
<1>6. \A k \in 0 .. n : g[k] \in 0 .. 2 ^ (ByteBits * k) - 1
  <2>1. \A k \in 1 .. n : c[k] \in 0 .. Byte - 1
    BY <1>5
  <2>2. \A k \in 1 .. n : g[k] = g[k - 1] + c[k] * 2 ^ (ByteBits * (k - 1))
    BY <1>3, <1>5
  <2>3. g[0] = 0 /\ n \in Nat
    BY <1>2, <1>3
  <2>4. QED
    BY <2>1, <2>2, <2>3, BytesBelow
<1>7. g[n] \in Digit
  BY <1>2, <1>6 DEF Limb, Digit
<1>8. from_bytes_le(in)[i] = g[n]
  <2>1. i \in Indices
    BY DEF Indices, limb_count
  <2>2. QED
    BY <2>1, <1>1, <1>2, <1>3 DEF from_bytes_le
<1>9. QED
  <2>1. \A k \in 0 .. n : g[k] \in Nat
    BY <1>6
  <2>2. \A k \in 1 .. n : g[k] = g[k - 1] + in[i * n + (k - 1)] * 2 ^ (ByteBits * (k - 1))
    BY <1>3, <1>5
  <2>3. QED
    BY <1>2, <1>3, <1>7, <1>8, <2>1, <2>2

(* Limb i adds its value in its place to the sum of all bytes. *)
LEMMA LimbAdds ==
  ASSUME NEW in \in bytes32, NEW i \in 0 .. 3, NEW f, f[i * LimbBytes] \in Nat,
         \A k \in 1 .. NumBytes : f[k] = f[k - 1] + in[k - 1] * 2 ^ (ByteBits * (k - 1))
  PROVE  /\ from_bytes_le(in)[i] \in Digit
         /\ f[(i + 1) * LimbBytes]
              = f[i * LimbBytes] + 2 ^ (LimbBits * i) * from_bytes_le(in)[i]
         /\ f[(i + 1) * LimbBytes] \in Nat
<1>1. PICK n \in Nat \ {0} : n = LimbBytes /\ ByteBits * n = LimbBits /\ NumBytes = n * 4
  BY ByteFacts
<1>2. PICK g : /\ g[0] = 0
               /\ \A k \in 1 .. n : g[k] = g[k - 1] + in[i * n + (k - 1)] * 2 ^ (ByteBits * (k - 1))
               /\ \A k \in 0 .. n : g[k] \in Nat
               /\ from_bytes_le(in)[i] = g[n]
               /\ g[n] \in Digit
  BY LimbSums, <1>1
<1>3. PICK W \in Nat \ {0} : W = 2 ^ (LimbBits * i)
  <2>1. i \in Nat
    OBVIOUS
  <2>2. QED
    BY <2>1, LimbPower
<1>4. PICK s \in Nat, a \in Nat : s = f[i * LimbBytes] /\ a = i * n
  <2>1. i \in Nat
    OBVIOUS
  <2>2. i * n \in Nat
    BY <2>1, ProductIsNat
  <2>3. QED
    BY <2>2
<1> DEFINE T == {j \in 0 .. n : f[a + j] = s + W * g[j]}
<1>5. 0 \in T
  <2>1. a + 0 = i * LimbBytes /\ W * 0 = 0
    BY <1>1, <1>4
  <2>2. f[a + 0] = s + W * g[0]
    BY <2>1, <1>2, <1>4
  <2>3. QED
    BY <2>2
<1>6. ASSUME NEW j \in 0 .. n - 1, j \in T
      PROVE  j + 1 \in T
  <2>1. j \in 0 .. LimbBytes - 1 /\ j \in Nat /\ j + 1 \in 1 .. n /\ j + 1 - 1 = j
    BY <1>1
  <2>2. PICK k \in 0 .. NumBytes - 1 : k = i * LimbBytes + j
    BY <2>1, ByteOfLimb
  <2>3. k = a + j /\ k + 1 \in 1 .. NumBytes /\ k + 1 - 1 = k /\ a + (j + 1) = k + 1
    BY <2>2, <1>1, <1>4
  <2>4. PICK P \in Nat \ {0} : P = 2 ^ (ByteBits * j)
    BY <2>1, ByteInLimb, PowerPositive
  <2>5. 2 ^ (ByteBits * k) = W * P
    <3>1. PICK b \in Nat \ {0} : b = ByteBits
      BY ByteFacts
    <3>2. PICK e \in Nat : e = b * j
      BY <2>1, ProductIsNat
    <3>3. PICK l \in Nat : l = LimbBits * i
      <4>1. i \in Nat
        OBVIOUS
      <4>2. QED
        BY <4>1, LimbPower
    <3>4. b * (i * n + j) = (b * n) * i + b * j
      OBVIOUS
    <3>5. b * k = l + e
      BY <3>1, <3>2, <3>3, <3>4, <2>2, <1>1
    <3>6. 2 ^ (l + e) = 2 ^ l * 2 ^ e
      BY PowerSum
    <3>7. QED
      BY <3>1, <3>2, <3>3, <3>5, <3>6, <2>4, <1>3
  <2>6. PICK c \in Nat : c = in[k]
    BY ByteFacts DEF bytes32
  <2>7. f[k + 1] = f[k] + c * (W * P)
    <3>1. f[k + 1] = f[k + 1 - 1] + in[k + 1 - 1] * 2 ^ (ByteBits * (k + 1 - 1))
      BY <2>3
    <3>2. QED
      BY <3>1, <2>3, <2>5, <2>6
  <2>8. PICK u \in Nat : u = g[j]
    BY <2>1, <1>2
  <2>9. g[j + 1] = u + c * P
    <3>1. g[j + 1] = g[j + 1 - 1] + in[i * n + (j + 1 - 1)] * 2 ^ (ByteBits * (j + 1 - 1))
      BY <2>1, <1>2
    <3>2. i * n + j = k
      BY <2>2, <1>1
    <3>3. QED
      BY <3>1, <3>2, <2>1, <2>4, <2>6, <2>8
  <2>10. f[k] = s + W * u
    BY <1>6, <2>3, <2>8
  <2>11. (s + W * u) + c * (W * P) = s + W * (u + c * P)
    <3>1. c * (W * P) = W * (c * P)
      OBVIOUS
    <3>2. PICK q \in Int : q = c * P
      BY ProductIsInt
    <3>3. W * (u + q) = W * u + W * q
      OBVIOUS
    <3>4. W * u \in Int /\ W * q \in Int
      BY ProductIsInt
    <3>5. QED
      BY <3>1, <3>2, <3>3, <3>4
  <2>12. f[a + (j + 1)] = s + W * g[j + 1]
    BY <2>3, <2>7, <2>9, <2>10, <2>11
  <2>13. QED
    BY <2>1, <2>12
<1>7. 0 .. n \subseteq T
  <2> HIDE DEF T
  <2>1. QED
    BY <1>5, <1>6, UpTo
<1>8. f[a + n] = s + W * g[n]
  <2>1. n \in 0 .. n
    OBVIOUS
  <2>2. QED
    BY <2>1, <1>7
<1>9. a + n = (i + 1) * LimbBytes
  BY <1>1, <1>4
<1>10. s + W * g[n] \in Nat
  <2>1. n \in 0 .. n
    OBVIOUS
  <2>2. g[n] \in Nat
    BY <2>1, <1>2
  <2>3. W * g[n] \in Nat
    BY <2>2, ProductIsNat
  <2>4. QED
    BY <2>3
<1>11. QED
  BY <1>2, <1>3, <1>4, <1>8, <1>9, <1>10

(* The number that bytes stand for, least significant first. *)
LEMMA ValueOfBytes ==
  ASSUME NEW in \in bytes32
  PROVE  /\ from_bytes_le(in) \in uint256
         /\ Value(from_bytes_le(in))
              = SumOf([k \in 1 .. NumBytes |-> in[k - 1] * 2 ^ (ByteBits * (k - 1))], NumBytes)
<1>1. PICK z : z = from_bytes_le(in)
  OBVIOUS
<1>2. PICK t : t = [k \in 1 .. NumBytes |-> in[k - 1] * 2 ^ (ByteBits * (k - 1))]
  OBVIOUS
<1>3. PICK f : /\ f[0] = 0
               /\ \A k \in 1 .. NumBytes : f[k] = f[k - 1] + t[k]
               /\ SumOf(t, NumBytes) = f[NumBytes]
  BY ByteFacts, SumSteps
<1>4. \A k \in 1 .. NumBytes : f[k] = f[k - 1] + in[k - 1] * 2 ^ (ByteBits * (k - 1))
  BY <1>2, <1>3
<1>5. PICK n \in Nat \ {0} : n = LimbBytes /\ NumBytes = n * 4
  BY ByteFacts
<1>6. 0 * n = 0 /\ (0 + 1) * n = n /\ 1 * n = n /\ (1 + 1) * n = 2 * n
      /\ (2 + 1) * n = 3 * n /\ (3 + 1) * n = n * 4
  OBVIOUS
<1>7. /\ z[0] \in Digit /\ f[n] = 0 + 2 ^ (LimbBits * 0) * z[0] /\ f[n] \in Nat
  <2>1. f[0 * LimbBytes] = 0
    BY <1>3, <1>5, <1>6
  <2>2. 0 \in 0 .. 3 /\ f[0 * LimbBytes] \in Nat
    BY <2>1
  <2>3. /\ z[0] \in Digit
        /\ f[(0 + 1) * LimbBytes] = f[0 * LimbBytes] + 2 ^ (LimbBits * 0) * z[0]
        /\ f[(0 + 1) * LimbBytes] \in Nat
    BY <2>2, <1>1, <1>4, LimbAdds
  <2>4. QED
    BY <2>1, <2>3, <1>5, <1>6
<1>8. /\ z[1] \in Digit /\ f[2 * n] = f[n] + 2 ^ (LimbBits * 1) * z[1] /\ f[2 * n] \in Nat
  <2>1. f[1 * LimbBytes] = f[n]
    BY <1>5, <1>6
  <2>2. 1 \in 0 .. 3 /\ f[1 * LimbBytes] \in Nat
    BY <2>1, <1>7
  <2>3. /\ z[1] \in Digit
        /\ f[(1 + 1) * LimbBytes] = f[1 * LimbBytes] + 2 ^ (LimbBits * 1) * z[1]
        /\ f[(1 + 1) * LimbBytes] \in Nat
    BY <2>2, <1>1, <1>4, LimbAdds
  <2>4. QED
    BY <2>1, <2>3, <1>5, <1>6
<1>9. /\ z[2] \in Digit /\ f[3 * n] = f[2 * n] + 2 ^ (LimbBits * 2) * z[2] /\ f[3 * n] \in Nat
  <2>1. f[2 * LimbBytes] = f[2 * n]
    BY <1>5
  <2>2. 2 \in 0 .. 3 /\ f[2 * LimbBytes] \in Nat
    BY <2>1, <1>8
  <2>3. /\ z[2] \in Digit
        /\ f[(2 + 1) * LimbBytes] = f[2 * LimbBytes] + 2 ^ (LimbBits * 2) * z[2]
        /\ f[(2 + 1) * LimbBytes] \in Nat
    BY <2>2, <1>1, <1>4, LimbAdds
  <2>4. QED
    BY <2>1, <2>3, <1>5, <1>6
<1>10. /\ z[3] \in Digit /\ f[n * 4] = f[3 * n] + 2 ^ (LimbBits * 3) * z[3]
  <2>1. f[3 * LimbBytes] = f[3 * n]
    BY <1>5
  <2>2. 3 \in 0 .. 3 /\ f[3 * LimbBytes] \in Nat
    BY <2>1, <1>9
  <2>3. /\ z[3] \in Digit
        /\ f[(3 + 1) * LimbBytes] = f[3 * LimbBytes] + 2 ^ (LimbBits * 3) * z[3]
        /\ f[(3 + 1) * LimbBytes] \in Nat
    BY <2>2, <1>1, <1>4, LimbAdds
  <2>4. QED
    BY <2>1, <2>3, <1>5, <1>6
<1>11. z = [i \in Indices |-> z[i]]
  BY <1>1, Zenon DEF from_bytes_le
<1>12. z \in uint256
  <2>1. z[0] \in 0 .. Limb - 1 /\ z[1] \in 0 .. Limb - 1 /\ z[2] \in 0 .. Limb - 1 /\ z[3] \in 0 .. Limb - 1
    BY <1>7, <1>8, <1>9, <1>10 DEF Digit
  <2>2. QED
    BY <2>1, <1>11, IsLimbs
<1>13. PICK w \in [0 .. 3 -> Int] :
         /\ \A k \in 0 .. 3 : w[k] = 2 ^ (LimbBits * k) * z[k]
         /\ Value(z) = w[0] + w[1] + w[2] + w[3]
  BY <1>12, LimbsWeighted
<1>14. w[0] = 2 ^ (LimbBits * 0) * z[0] /\ w[1] = 2 ^ (LimbBits * 1) * z[1]
       /\ w[2] = 2 ^ (LimbBits * 2) * z[2] /\ w[3] = 2 ^ (LimbBits * 3) * z[3]
  BY <1>13
<1>15. w[0] \in Int /\ w[1] \in Int /\ w[2] \in Int /\ w[3] \in Int
  BY <1>13
<1>16. f[n] = w[0] /\ f[2 * n] = f[n] + w[1] /\ f[3 * n] = f[2 * n] + w[2]
       /\ f[n * 4] = f[3 * n] + w[3]
  BY <1>7, <1>8, <1>9, <1>10, <1>14, <1>15
<1>17. f[n * 4] = Value(z)
  BY <1>13, <1>15, <1>16
<1>18. QED
  BY <1>1, <1>2, <1>3, <1>5, <1>12, <1>17

=============================================================================
