---------------------------- MODULE TargetProofs ----------------------------
(***************************************************************************)
(* TLAPS proofs about Target and TargetHex: every published target is the  *)
(* number it should be, and hexadecimal text loses nothing of it.          *)
(***************************************************************************)
EXTENDS TargetHex, Uint256Proofs, SequenceTheorems, TLAPS

(* The number a compact target denotes. *)
Denoted(ex, coeff) ==
  IF ex < 3
    THEN coeff \div 2 ^ (ByteBits * (3 - ex))
    ELSE (coeff * 2 ^ (ByteBits * (ex - 3))) % Modulus

(* The widths of the target calculation.                                   *)
LEMMA TargetFacts ==
  /\ ByteBits \in Nat \ {0} /\ NumBytes \in Nat /\ NumBytes >= 6
  /\ ByteBits * NumBytes = bit_width_v
  /\ ScaleBits \in Nat /\ ScaleBits <= 4 * ByteBits
  /\ 3 * ByteBits - 1 <= LimbBits
<1>1. PICK b \in Nat \ {0}, n \in Nat, l \in Nat :
        b = ByteBits /\ n = LimbBytes /\ l = LimbBits /\ b * n = l /\ NumBytes = n * 4
  BY ByteFacts, LimbFacts
<1>2. b * (n * 4) = (b * n) * 4
  OBVIOUS
<1>3. ByteBits * NumBytes = bit_width_v
  BY <1>1, <1>2 DEF bit_width_v, limb_count
<1>4. ScaleBits \in Nat
  <2>1. l \div 2 \in Nat
    BY DivIsNat
  <2>2. QED
    BY <2>1, <1>1 DEF ScaleBits
<1>5. n * 4 \in Nat
  OBVIOUS
<1>6. NumBytes >= 6 /\ ScaleBits <= 4 * ByteBits /\ 3 * ByteBits - 1 <= LimbBits
  BY TargetAssumption
<1>7. QED
  BY <1>1, <1>3, <1>4, <1>5, <1>6

(* A number below the 23rd bit fits into a limb. *)
LEMMA CoefficientFits ==
  ASSUME NEW c \in 0 .. 2 ^ (3 * ByteBits - 1) - 1
  PROVE  c \in Digit
<1>1. PICK m \in Nat : m = 3 * ByteBits - 1 /\ m <= LimbBits
  BY TargetFacts
<1>2. 2 ^ m <= 2 ^ LimbBits /\ 2 ^ m \in Nat /\ LimbBits \in Nat
  BY <1>1, LimbFacts, PowerMonotone, PowerPositive
<1>3. 2 ^ LimbBits \in Nat
  BY <1>2, PowerPositive
<1>4. QED
  BY <1>1, <1>2, <1>3 DEF Digit, Limb

(* expand_compact_target computes the number the compact form denotes.     *)
LEMMA ExpandExact ==
  ASSUME NEW ex \in Nat, NEW coeff \in 0 .. 2 ^ (3 * ByteBits - 1) - 1
  PROVE  /\ expand_compact_target(ex, coeff) \in uint256
         /\ Value(expand_compact_target(ex, coeff)) = Denoted(ex, coeff)
<1>0. ex \in Nat
  OBVIOUS
<1>1. coeff \in Digit /\ coeff \in Nat
  BY CoefficientFits, LimbFacts DEF Digit
<1>2. PICK b \in Nat \ {0} : b = ByteBits
  BY TargetFacts
<1>3. PICK L \in Nat \ {0}, M \in Nat \ {0} : L = Limb /\ M = Modulus /\ L <= M
  <2>1. PICK k \in Nat \ {0}, j \in Nat : k = Limb /\ j = k * (k * k)
    BY LimbFacts, ProductIsNat
  <2>2. j >= 1
    <3>1. k * k \in Nat \ {0}
      BY ProductPositive
    <3>2. k * (k * k) \in Nat \ {0}
      BY <3>1, ProductPositive
    <3>3. QED
      BY <3>2, <2>1
  <2>3. k * 1 <= k * j
    BY <2>2, ProductAtMost
  <2>4. k * 1 = k /\ Modulus = k * j
    BY <2>1, LimbFacts
  <2>5. Modulus \in Nat \ {0}
    BY LimbFacts
  <2>6. QED
    BY <2>1, <2>3, <2>4, <2>5
<1>4. CASE ex <= 3
  <2>1. PICK s \in Nat : s = ByteBits * (3 - ex)
    <3>1. 3 - ex \in Nat
      BY <1>0, <1>4
    <3>2. b * (3 - ex) \in Nat
      BY <3>1, ProductIsNat
    <3>3. QED
      BY <3>2, <1>2
  <2>2. PICK P \in Nat \ {0} : P = 2 ^ s
    BY PowerPositive
  <2>3. PICK q \in Nat : q = coeff \div P /\ q <= coeff
    <3>1. PICK h \in Nat, t \in 0 .. P - 1 : h = coeff \div P /\ coeff = P * h + t
      BY <1>1, DivParts
    <3>2. h * 1 <= h * P
      BY ProductAtMost
    <3>3. h * P = P * h /\ h * 1 = h /\ P * h \in Int
      BY ProductIsInt
    <3>4. h <= coeff
      BY <3>1, <3>2, <3>3
    <3>5. QED
      BY <3>1, <3>4
  <2>4. q \in Digit
    BY <1>1, <1>3, <2>3 DEF Digit
  <2>5. expand_compact_target(ex, coeff) = FromLimb(q)
    BY <1>4, <2>1, <2>2, <2>3 DEF expand_compact_target, LimbShiftRight
  <2>6. expand_compact_target(ex, coeff) \in uint256
        /\ Value(expand_compact_target(ex, coeff)) = q
    BY <2>4, <2>5, FromLimbExact
  <2>7. CASE ex < 3
    BY <2>1, <2>2, <2>3, <2>6, <2>7 DEF Denoted
  <2>8. CASE ex = 3
    <3>1. s = 0 /\ ByteBits * (ex - 3) = 0
      BY <2>1, <2>8, <1>2
    <3>2. P = 1
      BY <3>1, <2>2, PowerZero
    <3>3. q = coeff
      <4>1. coeff \div 1 = coeff
        BY <1>1
      <4>2. QED
        BY <4>1, <3>2, <2>3
    <3>4. coeff * 1 = coeff /\ coeff % M = coeff
      <4>1. coeff \in 0 .. M - 1
        BY <1>1, <1>3 DEF Digit
      <4>2. QED
        BY <4>1, <1>1, Small
    <3>5. Denoted(ex, coeff) = (coeff * 2 ^ 0) % M
      <4>1. ~(ex < 3)
        BY <2>8
      <4>2. Denoted(ex, coeff) = (coeff * 2 ^ (ByteBits * (ex - 3))) % Modulus
        BY <4>1, Zenon DEF Denoted
      <4>3. QED
        BY <4>2, <3>1, <1>3, Zenon
    <3>6. (coeff * 2 ^ 0) % M = (coeff * 1) % M
      BY PowerZero, Zenon
    <3>7. Denoted(ex, coeff) = coeff
      BY <3>4, <3>5, <3>6, Zenon
    <3>8. QED
      BY <2>6, <3>3, <3>7, Zenon
  <2>9. QED
    BY <1>0, <1>4, <2>7, <2>8
<1>5. CASE ex > 3
  <2>1. PICK s \in Nat : s = ByteBits * (ex - 3)
    <3>1. ex - 3 \in Nat
      BY <1>0, <1>5
    <3>2. b * (ex - 3) \in Nat
      BY <3>1, ProductIsNat
    <3>3. QED
      BY <3>2, <1>2
  <2>2. PICK P \in Nat \ {0} : P = 2 ^ s
    BY PowerPositive
  <2>3. PICK one : one = FromLimb(1) /\ one \in uint256 /\ Value(one) = 1
    <3>1. 1 \in Digit
      BY LimbFacts DEF Digit
    <3>2. QED
      BY <3>1, FromLimbExact
  <2>4. PICK y \in uint256 : y = ShiftLeft(one, s) /\ Value(y) = P % M
    <3>1. ShiftLeft(one, s) \in uint256 /\ Value(ShiftLeft(one, s)) = (1 * 2 ^ s) % Modulus
      BY <2>3, ShiftLeftExact
    <3>2. 1 * P = P
      OBVIOUS
    <3>3. QED
      BY <3>1, <3>2, <2>2, <1>3
  <2>5. PICK x \in uint256 : x = FromLimb(coeff) /\ Value(x) = coeff
    BY <1>1, FromLimbExact
  <2>6. Times(x, y) \in uint256 /\ Value(Times(x, y)) = (coeff * (P % M)) % M
    BY <2>4, <2>5, <1>3, TimesExact
  <2>7. (coeff * (P % M)) % M = (coeff * P) % M
    <3>1. coeff \in Int /\ P \in Int
      BY <1>1
    <3>2. ((P % M) * coeff) % M = (P * coeff) % M
      BY <3>1, ModTimes
    <3>3. PICK r \in Int : r = P % M
      <4>1. P % M \in 0 .. M - 1
        BY <3>1, DivSplit
      <4>2. QED
        BY <4>1
    <3>4. r * coeff = coeff * r /\ P * coeff = coeff * P
      BY <3>1
    <3>5. QED
      BY <3>2, <3>3, <3>4
  <2>8. expand_compact_target(ex, coeff) = Times(x, y)
    BY <1>0, <1>5, <2>1, <2>3, <2>4, <2>5 DEF expand_compact_target
  <2>9. Denoted(ex, coeff) = (coeff * P) % M
    BY <1>0, <1>5, <2>1, <2>2, <1>3 DEF Denoted
  <2>10. QED
    BY <2>6, <2>7, <2>8, <2>9
<1>6. QED
  BY <1>0, <1>4, <1>5

(* Difficulty 1 is the number the documentation gives, and a scale below  *)
(* the four free bytes does not push it out.                               *)
LEMMA DifficultyOne ==
  /\ difficulty_1_target \in uint256
  /\ Diff1 \in Nat /\ Diff1 * 2 ^ ScaleBits \in 0 .. Modulus - 1
  /\ Value(difficulty_1_target) = Diff1
<1>1. PICK b \in Nat \ {0}, N \in Nat, S \in Nat :
        /\ b = ByteBits /\ N = NumBytes /\ S = ScaleBits
        /\ N >= 6 /\ S <= 4 * b /\ b * N = bit_width_v
  BY TargetFacts
<1>2. PICK C \in Nat \ {0} : C = 2 ^ (2 * b)
  <2>1. 2 * b \in Nat
    OBVIOUS
  <2>2. QED
    BY <2>1, PowerPositive
<1>3. C - 1 \in 0 .. 2 ^ (3 * ByteBits - 1) - 1
  <2>1. PICK m \in Nat, k \in Nat : m = 3 * b - 1 /\ k = 2 * b /\ k <= m
    OBVIOUS
  <2>2. 2 ^ k <= 2 ^ m /\ 2 ^ m \in Nat
    BY <2>1, PowerMonotone, PowerPositive
  <2>3. QED
    BY <2>1, <2>2, <1>1, <1>2
<1>4. PICK e \in Nat : e = b * (N - 6)
  <2>1. N - 6 \in Nat
    BY <1>1
  <2>2. QED
    BY <2>1, ProductIsNat
<1>5. PICK E \in Nat \ {0}, T \in Nat \ {0}, M \in Nat \ {0} :
        E = 2 ^ e /\ T = 2 ^ S /\ M = Modulus
  BY PowerPositive, LimbFacts
<1>6. C * (E * T) <= M
  <2>1. PICK u \in Nat : u = 2 * b + (e + S)
    OBVIOUS
  <2>2. 2 ^ (e + S) = E * T
    BY <1>5, PowerSum
  <2>3. 2 ^ u = C * (E * T)
    <3>1. 2 * b \in Nat /\ e + S \in Nat
      OBVIOUS
    <3>2. 2 ^ (2 * b + (e + S)) = 2 ^ (2 * b) * 2 ^ (e + S)
      BY <3>1, PowerSum
    <3>3. QED
      BY <3>2, <2>1, <2>2, <1>2
  <2>4. u <= bit_width_v /\ bit_width_v \in Nat
    <3>1. b * (N - 6) = b * N - 6 * b
      OBVIOUS
    <3>2. PICK w \in Nat : w = bit_width_v /\ w = b * N
      BY <1>1, LimbFacts
    <3>3. e = w - 6 * b
      BY <3>1, <3>2, <1>4
    <3>4. QED
      BY <3>2, <3>3, <2>1, <1>1
  <2>5. 2 ^ u <= 2 ^ bit_width_v
    BY <2>4, PowerMonotone
  <2>6. QED
    BY <2>3, <2>5, <1>5 DEF Modulus
<1>7. PICK D \in Nat : D = (C - 1) * E
  <2>1. C - 1 \in Nat /\ E \in Nat
    OBVIOUS
  <2>2. QED
    BY <2>1, ProductIsNat
<1>8. Diff1 = D
  BY <1>1, <1>2, <1>4, <1>5, <1>7 DEF Diff1
<1>9. D * T \in 0 .. M - 1 /\ D \in 0 .. M - 1
  <2>1. ((C - 1) * E) * T = C * (E * T) - E * T
    OBVIOUS
  <2>2. E * T \in Nat \ {0} /\ C * (E * T) \in Int
    <3>1. E * T \in Nat \ {0}
      BY ProductPositive
    <3>2. QED
      BY <3>1, ProductIsInt
  <2>3. D * T = C * (E * T) - E * T
    BY <2>1, <1>7
  <2>4. PICK p \in Nat : p = D * T
    BY ProductIsNat
  <2>5. p < M
    BY <2>2, <2>3, <2>4, <1>6
  <2>6. D * 1 <= D * T /\ D * 1 = D
    BY ProductAtMost
  <2>7. QED
    BY <2>4, <2>5, <2>6
<1>10. Denoted(N - 3, C - 1) = D
  <2>1. ByteBits * (N - 3 - 3) = e
    BY <1>1, <1>4
  <2>2. ~(N - 3 < 3)
    BY <1>1
  <2>3. Denoted(N - 3, C - 1) = ((C - 1) * E) % M
    BY <2>1, <2>2, <1>5 DEF Denoted
  <2>4. D % M = D
    BY <1>9, Small
  <2>5. QED
    BY <2>3, <2>4, <1>7
<1>11. difficulty_1_target = expand_compact_target(N - 3, C - 1)
  BY <1>1, <1>2 DEF difficulty_1_target
<1>12. /\ expand_compact_target(N - 3, C - 1) \in uint256
       /\ Value(expand_compact_target(N - 3, C - 1)) = Denoted(N - 3, C - 1)
  <2>1. N - 3 \in Nat
    BY <1>1
  <2>2. QED
    BY <2>1, <1>3, ExpandExact
<1>13. QED
  BY <1>1, <1>5, <1>8, <1>9, <1>10, <1>11, <1>12

(* The floor of a quotient by any limb but zero. *)
LEMMA ShareTargetExact ==
  ASSUME NEW scaled \in Digit, scaled # 0
  PROVE  /\ ShareTarget(scaled) \in uint256
         /\ Value(ShareTarget(scaled)) * scaled <= Diff1 * 2 ^ ScaleBits
         /\ (Value(ShareTarget(scaled)) + 1) * scaled > Diff1 * 2 ^ ScaleBits
<1>1. PICK D \in Nat, M \in Nat \ {0} :
        D = Diff1 /\ M = Modulus /\ D * 2 ^ ScaleBits \in 0 .. M - 1
  BY DifficultyOne, LimbFacts
<1>2. PICK p \in 0 .. M - 1 : p = D * 2 ^ ScaleBits /\ p \in Nat
  BY <1>1
<1>3. PICK x \in uint256 : x = ShiftLeft(difficulty_1_target, ScaleBits) /\ Value(x) = p
  <2>1. /\ ShiftLeft(difficulty_1_target, ScaleBits) \in uint256
        /\ Value(ShiftLeft(difficulty_1_target, ScaleBits))
             = (Value(difficulty_1_target) * 2 ^ ScaleBits) % Modulus
    BY DifficultyOne, TargetFacts, ShiftLeftExact
  <2>2. p % M = p
    BY Small
  <2>3. (Value(difficulty_1_target) * 2 ^ ScaleBits) % Modulus = p % M
    BY <1>1, <1>2, DifficultyOne
  <2>4. QED
    BY <2>1, <2>2, <2>3
<1>4. PICK z : z = divmod_u64(x, scaled)
  OBVIOUS
<1>5. z \in [q : uint256, r : uint256] /\ Value(z.q) = p \div scaled
  BY <1>3, <1>4, DivideByLimbExact
<1>6. ShareTarget(scaled) = z.q
  BY <1>3, <1>4 DEF ShareTarget
<1>7. PICK c \in Nat \ {0} : c = scaled
  BY LimbFacts DEF Digit
<1>8. PICK t \in Nat, r \in 0 .. c - 1 : t = p \div c /\ p = c * t + r
  <2>1. p \in Nat
    BY <1>2
  <2>2. PICK a \in Nat, b \in 0 .. c - 1 : a = p \div c /\ b = p % c /\ p = c * a + b
    BY <2>1, DivParts, Zenon
  <2>3. QED
    BY <2>2, Zenon
<1>9. t * c <= p /\ (t + 1) * c > p
  <2>1. t * c = c * t /\ (t + 1) * c = c * t + c
    OBVIOUS
  <2>2. PICK m \in Int : m = c * t
    BY ProductIsInt
  <2>3. QED
    BY <2>1, <2>2, <1>8
<1>10. z.q \in uint256
  BY <1>5
<1>11. QED
  BY <1>1, <1>2, <1>5, <1>6, <1>7, <1>8, <1>9, <1>10

(* A digest meets a target exactly when its number is at most the target.  *)
LEMMA MeetsExact ==
  ASSUME NEW digest \in bytes32, NEW t \in uint256
  PROVE  hash_meets_target(digest, t) <=>
           SumOf([k \in 1 .. NumBytes |-> digest[k - 1] * 2 ^ (ByteBits * (k - 1))], NumBytes)
             <= Value(t)
<1>1. PICK a \in uint256 :
        /\ a = from_bytes_le(digest)
        /\ Value(a) = SumOf([k \in 1 .. NumBytes |-> digest[k - 1] * 2 ^ (ByteBits * (k - 1))],
                            NumBytes)
  BY ValueOfBytes
<1>2. LessThan(t, a) <=> Value(t) < Value(a)
  BY Uint256LessThan
<1>3. hash_meets_target(digest, t) <=> ~LessThan(t, a)
  BY <1>1 DEF hash_meets_target, LessOrEqual
<1>4. PICK u \in Nat, v \in Nat : u = Value(a) /\ v = Value(t)
  BY ValueRange
<1>5. ~(v < u) <=> u <= v
  OBVIOUS
<1>6. hash_meets_target(digest, t) <=> Value(a) <= Value(t)
  BY <1>2, <1>3, <1>4, <1>5
<1>7. QED
  BY <1>1, <1>6, Zenon

(* The inputs of a calculation are still there when it ends.               *)
TargetInv ==
  /\ target \in uint256
  /\ pc \in {"network", "share", "rejected", "network published", "share published"}
  /\ pc = "network" => input \in CompactTargets
  /\ pc = "share" => input \in Difficulties
  /\ CompactExact
  /\ TargetExact

(* The invariant holds at the start.                                       *)
LEMMA TargetInit == Init => TargetInv
BY ZeroExact DEF Init, TargetInv, CompactExact, TargetExact

(* Every step keeps it.                                                    *)
LEMMA TargetNext == TargetInv /\ [Next]_vars => TargetInv'
<1> SUFFICES ASSUME TargetInv, [Next]_vars
             PROVE  TargetInv'
  OBVIOUS
<1>1. CASE ExpandNetworkTarget
  <2>1. /\ pc = "network" /\ pc' = "network published" /\ input' = input
        /\ target' = expand_compact_target(input.exponent, input.coefficient)
        /\ input \in CompactTargets
    BY <1>1 DEF ExpandNetworkTarget, TargetInv
  <2>2. input.exponent \in Nat /\ input.coefficient \in 0 .. 2 ^ (3 * ByteBits - 1) - 1
    BY <2>1, TargetAssumption DEF CompactTargets
  <2>3. target' \in uint256 /\ Value(target') = Denoted(input.exponent, input.coefficient)
    BY <2>1, <2>2, ExpandExact
  <2>4. CompactExact'
    BY <2>1, <2>3 DEF CompactExact, Denoted
  <2>5. QED
    BY <2>1, <2>3, <2>4 DEF TargetInv, TargetExact
<1>2. CASE RejectDifficulty
  BY <1>2 DEF RejectDifficulty, TargetInv, CompactExact, TargetExact
<1>3. CASE DivideByDifficulty
  <2>1. PICK scaled \in llround(input) : target' = ShareTarget(scaled)
    BY <1>3 DEF DivideByDifficulty
  <2>2. /\ pc = "share" /\ pc' = "share published" /\ input' = input
        /\ InRange(input) /\ input \in Nat
    BY <1>3, TargetAssumption DEF DivideByDifficulty, TargetInv
  <2>3. PICK h \in Nat, g \in Nat \ {0} : h = input /\ h >= 2 /\ g = (h + 1) \div 2
    <3>1. PICK h \in Nat : h = input /\ h >= 2
      BY <2>2 DEF InRange
    <3>2. (h + 1) \div 2 \in Nat \ {0}
      BY <3>1
    <3>3. QED
      BY <3>1, <3>2
  <2>4. PICK L \in Nat, k \in Nat : L = Limb /\ k = L \div 2 /\ k >= 1 /\ k < L
    <3>1. PICK L \in Nat : L = Limb /\ L >= 2
      BY LimbFacts
    <3>2. L \div 2 \in Nat /\ L \div 2 >= 1 /\ L \div 2 < L
      BY <3>1
    <3>3. QED
      BY <3>1, <3>2
  <2>5. Rounded = g
    BY <2>3 DEF Rounded
  <2>6. CASE g < Limb \div 2
    <3>1. scaled = g
      BY <2>1, <2>3, <2>6 DEF llround
    <3>2. g \in Digit /\ g # 0
      BY <2>3, <2>4, <2>6 DEF Digit
    <3>3. /\ target' \in uint256
          /\ Value(target') * g <= Diff1 * 2 ^ ScaleBits
          /\ (Value(target') + 1) * g > Diff1 * 2 ^ ScaleBits
      BY <2>1, <3>1, <3>2, ShareTargetExact
    <3>4. ASSUME NEW digest \in Digests
          PROVE  hash_meets_target(digest, target') <=>
                   SumOf([j \in 1 .. NumBytes |-> digest[j - 1] * 2 ^ (ByteBits * (j - 1))],
                         NumBytes) <= Value(target')
      BY <3>3, TargetAssumption, MeetsExact
    <3>5. TargetExact'
      <4>1. Rounded' = g
        BY <2>2, <2>5 DEF Rounded
      <4>2. IsFloorOfQuotient(Value(target))'
        BY <3>3, <4>1 DEF IsFloorOfQuotient
      <4>3. QED
        BY <3>4, <4>2 DEF TargetExact
    <3>6. QED
      BY <2>2, <3>3, <3>5 DEF TargetInv, CompactExact
  <2>7. CASE ~(g < Limb \div 2)
    <3>1. scaled \in {k, k - 1}
      BY <2>1, <2>3, <2>4, <2>7 DEF llround
    <3>2. k >= 2
      <4>1. PICK l \in Nat : l = LimbBits /\ 1 < l
        BY TargetAssumption, WidthAssumption
      <4>2. 2 * 2 ^ 1 <= 2 ^ l
        BY <4>1, PowerStrict
      <4>3. L >= 4
        BY <4>1, <4>2, <2>4, PowerOne DEF Limb
      <4>4. QED
        BY <4>3, <2>4
    <3>3. scaled \in Digit /\ scaled # 0
      BY <2>4, <3>1, <3>2 DEF Digit
    <3>4. target' \in uint256
      BY <2>1, <3>3, ShareTargetExact
    <3>5. ~(Rounded < Limb \div 2)'
      BY <2>2, <2>5, <2>7 DEF Rounded
    <3>6. QED
      BY <2>2, <3>4, <3>5 DEF TargetInv, CompactExact, TargetExact
  <2>8. QED
    BY <2>6, <2>7
<1>4. CASE Done
  BY <1>4 DEF Done, vars, TargetInv, CompactExact, TargetExact, IsFloorOfQuotient, Rounded
<1>5. CASE UNCHANGED vars
  BY <1>5 DEF vars, TargetInv, CompactExact, TargetExact, IsFloorOfQuotient, Rounded
<1>6. QED
  BY <1>1, <1>2, <1>3, <1>4, <1>5 DEF Next

(* So it always holds.                                                     *)
LEMMA TargetAlways == Spec => []TargetInv
<1>1. QED
  BY TargetInit, TargetNext, PTL DEF Spec

(* Every network target published is the number its compact form denotes,  *)
(* cut to 256 bits (target.cpp 15-26).                                     *)
THEOREM NetworkTarget == Spec => []CompactExact
<1>1. TargetInv => CompactExact
  BY DEF TargetInv
<1>2. QED
  BY <1>1, TargetAlways, PTL

(* Up to half of the supported range every share target published is the   *)
(* floor of diff1 / difficulty in fixed point, and exactly the digests at  *)
(* most as large meet it (target.cpp 34-62, 72-79).                        *)
THEOREM ShareTargets == Spec => []TargetExact
<1>1. TargetInv => TargetExact
  BY DEF TargetInv
<1>2. QED
  BY <1>1, TargetAlways, PTL

-----------------------------------------------------------------------------
(* Hexadecimal text. *)

(* A digit is half a byte, and a word four bytes. *)
LEMMA HexFacts ==
  /\ DigitBits \in Nat \ {0} /\ Hex \in Nat \ {0} /\ U32 \in Nat \ {0}
  /\ Byte = Hex * Hex /\ Byte \in Nat \ {0}
<1>1. PICK d \in Nat \ {0} : d = DigitBits /\ ByteBits = d + d
  BY DigitAssumption, ByteAssumption
<1>2. PICK h \in Nat \ {0} : h = 2 ^ d
  BY PowerPositive
<1>3. 2 ^ (d + d) = h * h
  BY <1>2, PowerSum
<1>4. 8 * d \in Nat
  BY <1>1
<1>5. 2 ^ (8 * d) \in Nat \ {0}
  BY <1>4, PowerPositive
<1>6. h * h \in Nat \ {0}
  BY ProductPositive
<1>7. QED
  BY <1>1, <1>2, <1>3, <1>5, <1>6 DEF Hex, U32, Byte

(* Two digits and the byte they are. *)
LEMMA TwoDigits ==
  ASSUME NEW b \in 0 .. Byte - 1
  PROVE  /\ b \div Hex \in 0 .. Hex - 1 /\ b % Hex \in 0 .. Hex - 1
         /\ (b \div Hex) * Hex + (b % Hex) = b
<1>1. PICK h \in Nat \ {0} : h = Hex /\ b < h * h /\ b \in Nat
  BY HexFacts
<1>2. b \div h \in 0 .. h - 1
  BY <1>1, DivBelow
<1>3. PICK q \in Nat, r \in 0 .. h - 1 : q = b \div h /\ r = b % h /\ b = h * q + r
  BY <1>1, DivParts
<1>4. h * q = q * h
  OBVIOUS
<1>5. QED
  BY <1>1, <1>2, <1>3, <1>4

(* A function on 1 .. n is a sequence of n elements. *)
LEMMA AsSequence ==
  ASSUME NEW n \in Nat, NEW S, NEW f \in [1 .. n -> S]
  PROVE  f \in Seq(S) /\ Len(f) = n
<1>1. PICK g : g = [k \in 1 .. n |-> f[k]]
  OBVIOUS
<1>2. g \in Seq(S) /\ Len(g) = n
  BY <1>1
<1>3. g = f
  BY <1>1
<1>4. QED
  BY <1>2, <1>3

(* The two places of a byte in its text. *)
LEMMA TextPlaces ==
  ASSUME NEW n \in Nat, NEW i \in 1 .. n
  PROVE  /\ 2 * i - 1 \in 1 .. 2 * n /\ 2 * i \in 1 .. 2 * n
         /\ ((2 * i - 1) + 1) \div 2 = i /\ (2 * i - 1) % 2 = 1
         /\ (2 * i + 1) \div 2 = i /\ (2 * i) % 2 = 0
OBVIOUS

(* A place in a text belongs to a byte. *)
LEMMA BytePlace ==
  ASSUME NEW n \in Nat, NEW k \in 1 .. 2 * n
  PROVE  (k + 1) \div 2 \in 1 .. n
OBVIOUS

(* Bytes in hexadecimal are a text that gives the bytes again.             *)
LEMMA HexAndBack ==
  ASSUME NEW n \in Nat, NEW bytes \in [1 .. n -> 0 .. Byte - 1]
  PROVE  /\ bytes_to_hex(bytes) \in [1 .. 2 * n -> 0 .. Hex - 1]
         /\ Len(bytes_to_hex(bytes)) = 2 * n
         /\ is_lower_hex_string(bytes_to_hex(bytes))
         /\ hex_to_bytes(bytes_to_hex(bytes)) = {bytes}
<1>1. bytes \in Seq(0 .. Byte - 1) /\ Len(bytes) = n
  BY AsSequence
<1>2. PICK s : s = bytes_to_hex(bytes)
  OBVIOUS
<1>3. s = [k \in 1 .. 2 * n |-> IF k % 2 = 1 THEN bytes[(k + 1) \div 2] \div Hex
                                            ELSE bytes[(k + 1) \div 2] % Hex]
  BY <1>1, <1>2 DEF bytes_to_hex
<1>4. ASSUME NEW k \in 1 .. 2 * n
      PROVE  s[k] \in 0 .. Hex - 1
  <2>1. (k + 1) \div 2 \in 1 .. n
    BY BytePlace
  <2>2. bytes[(k + 1) \div 2] \in 0 .. Byte - 1
    BY <2>1
  <2>3. /\ bytes[(k + 1) \div 2] \div Hex \in 0 .. Hex - 1
        /\ bytes[(k + 1) \div 2] % Hex \in 0 .. Hex - 1
    BY <2>2, TwoDigits
  <2>4. QED
    BY <2>3, <1>3
<1>5. s \in [1 .. 2 * n -> 0 .. Hex - 1]
  BY <1>3, <1>4
<1>6. 2 * n \in Nat /\ (2 * n) % 2 = 0 /\ (2 * n) \div 2 = n
  OBVIOUS
<1>7. s \in Seq(0 .. Hex - 1) /\ Len(s) = 2 * n
  BY <1>5, <1>6, AsSequence
<1>8. is_lower_hex_string(s)
  BY <1>4, <1>6, <1>7 DEF is_lower_hex_string
<1>9. ASSUME NEW i \in 1 .. n
      PROVE  s[2 * i - 1] * Hex + s[2 * i] = bytes[i]
  <2>1. s[2 * i - 1] = bytes[i] \div Hex /\ s[2 * i] = bytes[i] % Hex
    BY <1>3, TextPlaces
  <2>2. QED
    BY <2>1, TwoDigits
<1>10. [i \in 1 .. n |-> s[2 * i - 1] * Hex + s[2 * i]] = bytes
  BY <1>9
<1>11. hex_to_bytes(s) = {bytes}
  BY <1>6, <1>7, <1>8, <1>10 DEF hex_to_bytes
<1>12. QED
  BY <1>2, <1>5, <1>7, <1>8, <1>11

(* A digit more is no text. *)
LEMMA OddText ==
  ASSUME NEW n \in Nat, NEW s \in [1 .. 2 * n -> 0 .. Hex - 1]
  PROVE  hex_to_bytes(<<1>> \o s) = {}
<1>1. s \in Seq(0 .. Hex - 1) /\ Len(s) = 2 * n
  <2>1. 2 * n \in Nat
    OBVIOUS
  <2>2. QED
    BY <2>1, AsSequence
<1>2. <<1>> \in Seq(Int) /\ s \in Seq(Int) /\ Len(<<1>>) = 1
  BY <1>1, HexFacts
<1>3. Len(<<1>> \o s) = 1 + 2 * n
  BY <1>1, <1>2
<1>4. (1 + 2 * n) % 2 = 1
  OBVIOUS
<1>5. PICK t : t = <<1>> \o s
  OBVIOUS
<1>6. Len(t) % 2 = 1
  BY <1>3, <1>4, <1>5, Zenon
<1>7. ~is_lower_hex_string(t)
  BY <1>6 DEF is_lower_hex_string
<1>8. hex_to_bytes(t) = {}
  BY <1>7, Zenon DEF hex_to_bytes
<1>9. QED
  BY <1>5, <1>8

(* What is above a digit, and above a byte. *)
LEMMA DigitShift ==
  ASSUME NEW v \in Nat, NEW k \in Nat
  PROVE  /\ v \div 2 ^ (DigitBits * k) \in Nat
         /\ (v \div 2 ^ (DigitBits * k)) \div Hex = v \div 2 ^ (DigitBits * (k + 1))
<1>1. PICK d \in Nat \ {0} : d = DigitBits
  BY HexFacts
<1>2. PICK e \in Nat : e = d * k
  BY ProductIsNat
<1>3. d * (k + 1) = e + d
  BY <1>2
<1>4. PICK P \in Nat \ {0}, h \in Nat \ {0} : P = 2 ^ e /\ h = 2 ^ d
  BY PowerPositive
<1>5. 2 ^ (e + d) = P * h
  BY <1>4, PowerSum
<1>6. v \div P \in Nat
  BY DivIsNat
<1>7. (v \div P) \div h = v \div (P * h)
  <2>1. v \in Int
    OBVIOUS
  <2>2. QED
    BY <2>1, DivDiv, Zenon
<1>8. QED
  BY <1>1, <1>2, <1>3, <1>4, <1>5, <1>6, <1>7 DEF Hex

(* The two digits of the byte k digits up. *)
LEMMA DigitsOfByte ==
  ASSUME NEW v \in Nat, NEW k \in Nat
  PROVE  LET b == (v \div 2 ^ (DigitBits * k)) % Byte
         IN /\ b \in 0 .. Byte - 1
            /\ b \div Hex = (v \div 2 ^ (DigitBits * (k + 1))) % Hex
            /\ b % Hex = (v \div 2 ^ (DigitBits * k)) % Hex
<1>1. PICK h \in Nat \ {0}, B \in Nat \ {0} : h = Hex /\ B = Byte /\ B = h * h
  BY HexFacts
<1>2. PICK w \in Nat : w = v \div 2 ^ (DigitBits * k)
                       /\ w \div h = v \div 2 ^ (DigitBits * (k + 1))
  BY <1>1, DigitShift
<1>3. PICK q \in Nat, r \in 0 .. h - 1 : q = w \div h /\ r = w % h /\ w = h * q + r
  BY DivParts
<1>4. PICK p \in Nat, s \in 0 .. h - 1 : p = q \div h /\ s = q % h /\ q = h * p + s
  BY DivParts
<1>5. PICK b \in Nat : b = h * s + r
  BY ProductIsNat
<1>6. w = B * p + b
  <2>1. h * (h * p + s) = h * (h * p) + h * s
    BY Distribute, ProductIsInt
  <2>2. h * (h * p) = B * p
    BY <1>1, Associate
  <2>3. PICK x \in Int, y \in Int : x = B * p /\ y = h * s
    BY ProductIsInt
  <2>4. QED
    BY <2>1, <2>2, <2>3, <1>3, <1>4, <1>5
<1>7. b \in 0 .. B - 1
  <2>1. h * s <= h * (h - 1)
    BY ProductAtMost
  <2>2. h * (h - 1) = B - h
    BY <1>1
  <2>3. PICK y \in Nat : y = h * s
    BY ProductIsNat
  <2>4. QED
    BY <2>1, <2>2, <2>3, <1>5
<1>8. w % B = b
  BY <1>6, <1>7, DivOf
<1>9. b \div h = s /\ b % h = r
  BY <1>5, DivOf
<1>10. QED
  BY <1>1, <1>2, <1>3, <1>4, <1>7, <1>8, <1>9

(* The text of the bytes of a number has the number's digits.              *)
LEMMA TextDigits ==
  ASSUME NEW v \in Nat, NEW n \in Nat, NEW bytes \in [1 .. n -> 0 .. Byte - 1],
         \A i \in 1 .. n : bytes[i] = (v \div 2 ^ (DigitBits * (2 * (n - i)))) % Byte,
         NEW k \in 1 .. 2 * n
  PROVE  bytes_to_hex(bytes)[k] = (v \div 2 ^ (DigitBits * (2 * n - k))) % Hex
<1>1. Len(bytes) = n
  BY AsSequence
<1>2. bytes_to_hex(bytes)[k] = IF k % 2 = 1 THEN bytes[(k + 1) \div 2] \div Hex
                                            ELSE bytes[(k + 1) \div 2] % Hex
  BY <1>1 DEF bytes_to_hex
<1>3. PICK i \in 1 .. n : i = (k + 1) \div 2 /\ (k = 2 * i - 1 \/ k = 2 * i)
  BY BytePlace
<1>4. PICK m \in Nat : m = 2 * (n - i)
  OBVIOUS
<1>5. /\ bytes[i] \div Hex = (v \div 2 ^ (DigitBits * (m + 1))) % Hex
      /\ bytes[i] % Hex = (v \div 2 ^ (DigitBits * m)) % Hex
  <2>1. bytes[i] = (v \div 2 ^ (DigitBits * m)) % Byte
    BY <1>4
  <2>2. QED
    BY <2>1, DigitsOfByte
<1>6. CASE k = 2 * i - 1
  <2>1. k % 2 = 1 /\ 2 * n - k = m + 1
    BY <1>4, <1>6
  <2>2. QED
    BY <2>1, <1>2, <1>3, <1>5, Zenon
<1>7. CASE k = 2 * i
  <2>1. k % 2 # 1 /\ 2 * n - k = m
    BY <1>4, <1>7
  <2>2. QED
    BY <2>1, <1>2, <1>3, <1>5, Zenon
<1>8. QED
  BY <1>3, <1>6, <1>7

(* Byte k of a number. *)
LEMMA WordByte ==
  ASSUME NEW v \in Nat, NEW k \in Nat
  PROVE  /\ ByteOf(v, k) = (v \div 2 ^ (DigitBits * (2 * k))) % Byte
         /\ ByteOf(v, k) \in 0 .. Byte - 1
<1>1. PICK d \in Nat, e \in Nat : d = DigitBits /\ e = d * (2 * k)
  BY HexFacts, ProductIsNat
<1>2. 2 * d * k = d * (2 * k)
  OBVIOUS
<1>3. ByteOf(v, k) = (v \div 2 ^ (DigitBits * (2 * k))) % Byte
  BY <1>1, <1>2, HexFacts DEF ByteOf
<1>4. 2 * k \in Nat
  OBVIOUS
<1>5. (v \div 2 ^ (DigitBits * (2 * k))) % Byte \in 0 .. Byte - 1
  BY <1>4, DigitsOfByte
<1>6. QED
  BY <1>3, <1>5

(* The bytes of a word from the top and from the bottom. *)
BigEndian(v) == [i \in 1 .. 4 |-> ByteOf(v, 4 - i)]
LittleEndian(v) == [i \in 1 .. 4 |-> ByteOf(v, i - 1)]

(* They are bytes, and their texts those of hex.cpp. *)
LEMMA WordTexts ==
  ASSUME NEW v \in Nat
  PROVE  /\ BigEndian(v) \in [1 .. 4 -> 0 .. Byte - 1]
         /\ LittleEndian(v) \in [1 .. 4 -> 0 .. Byte - 1]
         /\ hex_from_u32_be(v) = bytes_to_hex(BigEndian(v))
         /\ hex_from_u32_le(v) = bytes_to_hex(LittleEndian(v))
<1>1. ASSUME NEW i \in 1 .. 4
      PROVE  ByteOf(v, 4 - i) \in 0 .. Byte - 1 /\ ByteOf(v, i - 1) \in 0 .. Byte - 1
  <2>1. 4 - i \in Nat /\ i - 1 \in Nat
    OBVIOUS
  <2>2. QED
    BY <2>1, WordByte
<1>2. QED
  BY <1>1 DEF BigEndian, LittleEndian, hex_from_u32_be, hex_from_u32_le

(* The two orders of a word's bytes are each other's reverse. *)
LEMMA WordReversed ==
  ASSUME NEW v \in Nat
  PROVE  LittleEndian(v) = Reverse(BigEndian(v))
<1>1. Len(BigEndian(v)) = 4
  BY WordTexts, AsSequence
<1>2. Reverse(BigEndian(v)) = [i \in 1 .. 4 |-> BigEndian(v)[(4 - i) + 1]]
  BY <1>1 DEF Reverse
<1>3. ASSUME NEW i \in 1 .. 4
      PROVE  BigEndian(v)[(4 - i) + 1] = ByteOf(v, i - 1)
  <2>1. (4 - i) + 1 \in 1 .. 4 /\ 4 - ((4 - i) + 1) = i - 1
    OBVIOUS
  <2>2. QED
    BY <2>1 DEF BigEndian
<1>4. QED
  BY <1>2, <1>3 DEF LittleEndian

(* The digits of a word from the top, and the digits read so far.          *)
LEMMA DigitsRead ==
  ASSUME NEW w \in 0 .. U32 - 1, NEW k \in 1 .. 8
  PROVE  LET read(m) == w \div 2 ^ (DigitBits * (8 - m))
         IN /\ read(0) = 0 /\ read(8) = w /\ read(k) \in Nat
            /\ ((read(k - 1) * Hex) % U32) + (read(k) % Hex) = read(k)
<1> DEFINE read(m) == w \div 2 ^ (DigitBits * (8 - m))
<1>1. PICK d \in Nat \ {0}, h \in Nat \ {0}, M \in Nat \ {0} :
        d = DigitBits /\ h = Hex /\ M = U32 /\ w \in Nat /\ w < M
  BY HexFacts
<1>2. read(0) = 0
  <2>1. d * 8 = 8 * d
    OBVIOUS
  <2>2. w \div M = 0
    BY <1>1, Small
  <2>3. 2 ^ (d * 8) = M
    BY <2>1, <1>1 DEF U32
  <2>4. 8 - 0 = 8
    OBVIOUS
  <2>5. QED
    BY <2>2, <2>3, <2>4, <1>1
<1>3. read(8) = w
  <2>1. d * (8 - 8) = 0 /\ 2 ^ 0 = 1 /\ w \div 1 = w
    BY PowerZero, <1>1
  <2>2. QED
    BY <2>1, <1>1
<1>4. PICK j \in Nat : j = 8 - k /\ j + 1 = 8 - (k - 1)
  OBVIOUS
<1>5. PICK r \in Nat, q \in Nat : r = read(k) /\ q = read(k - 1) /\ r \div h = q
  <2>1. w \div 2 ^ (DigitBits * j) \in Nat /\ w \div 2 ^ (DigitBits * (j + 1)) \in Nat
    <3>1. j + 1 \in Nat
      OBVIOUS
    <3>2. QED
      BY <1>1, <3>1, DigitShift
  <2>2. (w \div 2 ^ (DigitBits * j)) \div Hex = w \div 2 ^ (DigitBits * (j + 1))
    BY <1>1, DigitShift
  <2>3. QED
    BY <2>1, <2>2, <1>1, <1>4
<1>6. PICK t \in 0 .. h - 1 : t = r % h /\ r = h * q + t
  <2>1. PICK a \in Nat, b \in 0 .. h - 1 : a = r \div h /\ b = r % h /\ r = h * a + b
    BY DivParts
  <2>2. QED
    BY <2>1, <1>5
<1>7. r <= w
  <2>1. PICK P \in Nat \ {0} : P = 2 ^ (DigitBits * (8 - k))
    <3>1. PICK e \in Nat : e = d * j
      BY ProductIsNat
    <3>2. QED
      BY <3>1, <1>1, <1>4, PowerPositive
  <2>2. PICK a \in Nat, b \in 0 .. P - 1 : a = w \div P /\ w = P * a + b
    BY <1>1, DivParts
  <2>3. a * 1 <= a * P /\ a * P = P * a /\ P * a \in Nat
    BY ProductAtMost, ProductIsNat
  <2>4. QED
    BY <2>1, <2>2, <2>3, <1>5
<1>8. (q * h) % M = q * h
  <2>1. q * h = h * q /\ h * q \in Nat
    BY ProductIsNat
  <2>2. h * q \in 0 .. M - 1
    BY <2>1, <1>1, <1>6, <1>7
  <2>3. QED
    BY <2>1, <2>2, Small
<1>9. q * h + t = r
  <2>1. q * h = h * q
    OBVIOUS
  <2>2. QED
    BY <2>1, <1>6
<1>10. ((q * h) % M) + t = r
  BY <1>8, <1>9
<1>11. ((read(k - 1) * Hex) % U32) + (read(k) % Hex) = read(k) /\ read(k) \in Nat
  BY <1>1, <1>5, <1>6, <1>10
<1> HIDE DEF read
<1>12. QED
  BY <1>2, <1>3, <1>11 DEF read

(* A word comes back from its big-endian text. *)
LEMMA BigEndianBack ==
  ASSUME NEW w \in 0 .. U32 - 1
  PROVE  u32_from_hex_be(hex_from_u32_be(w)) = {w}
<1> DEFINE read(m) == w \div 2 ^ (DigitBits * (8 - m))
<1>1. w \in Nat
  OBVIOUS
<1>2. PICK s \in [1 .. 8 -> 0 .. Hex - 1] :
        s = hex_from_u32_be(w) /\ Len(s) = 8 /\ is_lower_hex_string(s)
  <2>1. BigEndian(w) \in [1 .. 4 -> 0 .. Byte - 1]
    BY <1>1, WordTexts
  <2>2. PICK s \in [1 .. 2 * 4 -> 0 .. Hex - 1] :
          s = bytes_to_hex(BigEndian(w)) /\ Len(s) = 2 * 4 /\ is_lower_hex_string(s)
    BY <2>1, HexAndBack
  <2>3. 2 * 4 = 8
    OBVIOUS
  <2>4. QED
    BY <2>2, <2>3, <1>1, WordTexts
<1>3. ASSUME NEW k \in 1 .. 8
      PROVE  s[k] = read(k) % Hex
  <2>1. ASSUME NEW i \in 1 .. 4
        PROVE  BigEndian(w)[i] = (w \div 2 ^ (DigitBits * (2 * (4 - i)))) % Byte
    <3>1. 4 - i \in Nat
      OBVIOUS
    <3>2. QED
      BY <3>1, <1>1, WordByte DEF BigEndian
  <2>2. BigEndian(w) \in [1 .. 4 -> 0 .. Byte - 1]
    BY <1>1, WordTexts
  <2>3. 4 \in Nat /\ k \in 1 .. 2 * 4 /\ 2 * 4 = 8
    OBVIOUS
  <2>4. bytes_to_hex(BigEndian(w))[k] = (w \div 2 ^ (DigitBits * (2 * 4 - k))) % Hex
    BY <2>1, <2>2, <2>3, <1>1, TextDigits
  <2>5. QED
    BY <2>3, <2>4, <1>1, <1>2, WordTexts
<1>4. PICK f : f = CHOOSE value :
        value = [k \in 0 .. 8 |-> IF k = 0 THEN 0 ELSE ((value[k - 1] * Hex) % U32) + s[k]]
  OBVIOUS
<1>5. /\ read(0) = 0 /\ read(8) = w
      /\ \A k \in 1 .. 8 : ((read(k - 1) * Hex) % U32) + s[k] = read(k)
  <2>1. 1 \in 1 .. 8
    OBVIOUS
  <2>2. read(0) = 0 /\ read(8) = w
    BY <2>1, DigitsRead
  <2>3. \A k \in 1 .. 8 : ((read(k - 1) * Hex) % U32) + (read(k) % Hex) = read(k)
    BY DigitsRead
  <2>4. QED
    BY <2>2, <2>3, <1>3
<1> HIDE DEF read
<1>6. f = [k \in 0 .. 8 |-> IF k = 0 THEN 0 ELSE ((f[k - 1] * Hex) % U32) + s[k]]
  <2> DEFINE Step(g) == [k \in 0 .. 8 |-> IF k = 0 THEN 0 ELSE ((g[k - 1] * Hex) % U32) + s[k]]
  <2>1. PICK g : g = [k \in 0 .. 8 |-> read(k)]
    OBVIOUS
  <2>2. ASSUME NEW k \in 0 .. 8
        PROVE  g[k] = IF k = 0 THEN 0 ELSE ((g[k - 1] * Hex) % U32) + s[k]
    <3>1. CASE k = 0
      BY <3>1, <2>1, <1>5
    <3>2. CASE k \in 1 .. 8
      <4>1. g[k] = read(k) /\ g[k - 1] = read(k - 1)
        BY <3>2, <2>1
      <4>2. QED
        BY <4>1, <3>2, <1>5
    <3>3. QED
      BY <3>1, <3>2
  <2>3. g = Step(g)
    BY <2>1, <2>2
  <2>4. f = CHOOSE h : h = Step(h)
    BY <1>4
  <2>5. f = Step(f)
    <3> HIDE DEF Step
    <3> QED BY <2>3, <2>4, Zenon
  <2>6. QED
    BY <2>5
<1>7. f[8] = w
  <2> DEFINE T == {k \in 0 .. 8 : f[k] = read(k)}
  <2>1. 0 \in T
    BY <1>5, <1>6
  <2>2. ASSUME NEW k \in 0 .. 8 - 1, k \in T
        PROVE  k + 1 \in T
    <3>1. f[k + 1] = ((f[k] * Hex) % U32) + s[k + 1]
      BY <1>6
    <3>2. ((read(k) * Hex) % U32) + s[k + 1] = read(k + 1)
      <4>1. k + 1 \in 1 .. 8 /\ (k + 1) - 1 = k
        OBVIOUS
      <4>2. QED
        BY <4>1, <1>5
    <3>3. QED
      BY <2>2, <3>1, <3>2
  <2>3. 0 .. 8 \subseteq T
    <3> HIDE DEF T
    <3>1. 8 \in Nat
      OBVIOUS
    <3> QED BY <2>1, <2>2, <3>1, UpTo
  <2>4. f[8] = read(8)
    BY <2>3
  <2>5. QED
    BY <2>4, <1>5
<1>8. u32_from_hex_be(s) = {f[8]}
  BY <1>2, <1>4 DEF u32_from_hex_be
<1>9. QED
  BY <1>2, <1>7, <1>8

(* A word is the sum of its bytes. *)
LEMMA WordOfBytes ==
  ASSUME NEW w \in 0 .. U32 - 1
  PROVE  ByteOf(w, 0) + 2 ^ (2 * DigitBits) * ByteOf(w, 1) + 2 ^ (4 * DigitBits) * ByteOf(w, 2)
           + 2 ^ (6 * DigitBits) * ByteOf(w, 3) = w
<1>1. PICK d \in Nat \ {0}, B \in Nat \ {0} : d = DigitBits /\ B = Byte /\ B = Hex * Hex
  BY HexFacts
<1>2. 2 ^ (2 * d) = B
  <2>1. ByteBits = 2 * d
    BY <1>1, ByteAssumption
  <2>2. QED
    BY <2>1, <1>1 DEF Byte
<1>3. PICK B2 \in Nat \ {0}, B3 \in Nat \ {0}, B4 \in Nat \ {0} :
        B2 = B * B /\ B3 = B2 * B /\ B4 = B3 * B
  BY ProductPositive
<1>4. 2 ^ (4 * d) = B2 /\ 2 ^ (6 * d) = B3 /\ 2 ^ (8 * d) = B4
  <2>1. PICK e \in Nat : e = 2 * d
    OBVIOUS
  <2>2. 4 * d = e + e /\ 6 * d = (e + e) + e /\ 8 * d = ((e + e) + e) + e
    BY <2>1
  <2>3. PICK e2 \in Nat, e3 \in Nat : e2 = e + e /\ e3 = e2 + e
    OBVIOUS
  <2>4. 2 ^ (e + e) = 2 ^ e * 2 ^ e /\ 2 ^ (e2 + e) = 2 ^ e2 * 2 ^ e
        /\ 2 ^ (e3 + e) = 2 ^ e3 * 2 ^ e
    BY PowerSum
  <2>5. QED
    BY <2>1, <2>2, <2>3, <2>4, <1>2, <1>3
<1>5. w \in Nat /\ w < B4
  BY <1>1, <1>4, HexFacts DEF U32
<1>6. PICK q0 \in Nat, b0 \in 0 .. B - 1 : q0 = w \div B /\ b0 = w % B /\ w = B * q0 + b0
  BY <1>5, DivParts
<1>7. PICK q1 \in Nat, b1 \in 0 .. B - 1 : q1 = q0 \div B /\ b1 = q0 % B /\ q0 = B * q1 + b1
  BY DivParts
<1>8. PICK q2 \in Nat, b2 \in 0 .. B - 1 : q2 = q1 \div B /\ b2 = q1 % B /\ q1 = B * q2 + b2
  BY DivParts
<1>9. q0 = w \div B /\ q1 = w \div B2 /\ q2 = w \div B3
  <2>1. w \in Int
    BY <1>5
  <2>2. (w \div B) \div B = w \div (B * B) /\ (w \div B2) \div B = w \div (B2 * B)
    BY <2>1, DivDiv
  <2>3. QED
    BY <2>2, <1>3, <1>6, <1>7, <1>8
<1>10. q2 \in 0 .. B - 1
  <2>1. w < B3 * B
    BY <1>3, <1>5
  <2>2. QED
    BY <2>1, <1>5, <1>9, DivBelow
<1>11. q2 % B = q2
  BY <1>10, Small
<1>12. ByteOf(w, 0) = b0 /\ ByteOf(w, 1) = b1 /\ ByteOf(w, 2) = b2 /\ ByteOf(w, 3) = q2
  <2>1. 2 * d * 0 = 0 /\ 2 * d * 1 = 2 * d /\ 2 * d * 2 = 4 * d /\ 2 * d * 3 = 6 * d
    BY <1>1
  <2>2. ByteOf(w, 0) = (w \div 2 ^ 0) % B /\ ByteOf(w, 1) = (w \div B) % B
        /\ ByteOf(w, 2) = (w \div B2) % B /\ ByteOf(w, 3) = (w \div B3) % B
    BY <2>1, <1>1, <1>2, <1>4 DEF ByteOf
  <2>3. w \div 2 ^ 0 = w
    BY <1>5, PowerZero
  <2>4. QED
    BY <2>2, <2>3, <1>6, <1>7, <1>8, <1>9, <1>11
<1>13. w = b0 + B * b1 + B2 * b2 + B3 * q2
  <2>1. PICK x \in Int, y \in Int, z \in Int : x = B * b1 /\ y = B2 * b2 /\ z = B3 * q2
    BY ProductIsInt
  <2>2. B * q1 = B * (B * q2) + B * b2
    BY <1>8, Distribute, ProductIsInt
  <2>3. B * (B * q2) = B2 * q2 /\ B * (B2 * q2) = (B * B2) * q2 /\ B * (B * b2) = B2 * b2
    BY <1>3, Associate
  <2>4. B * B2 = B3
    BY <1>3
  <2>5. PICK u \in Int : u = B * q1 /\ u = B2 * q2 + B * b2
    BY <2>2, <2>3, ProductIsInt
  <2>6. B * (B2 * q2 + B * b2) = B * (B2 * q2) + B * (B * b2)
    BY Distribute, ProductIsInt
  <2>7. B * u = z + y
    BY <2>1, <2>3, <2>4, <2>5, <2>6
  <2>8. B * (u + b1) = B * u + B * b1
    BY Distribute
  <2>9. B * q0 = z + y + x
    BY <2>1, <2>5, <2>7, <2>8, <1>7
  <2>10. QED
    BY <2>1, <2>9, <1>6
<1>14. QED
  BY <1>1, <1>2, <1>4, <1>12, <1>13

(* A word comes back from its little-endian text. *)
LEMMA LittleEndianBack ==
  ASSUME NEW w \in 0 .. U32 - 1
  PROVE  u32_from_hex_le(hex_from_u32_le(w)) = {w}
<1>1. PICK b : b = LittleEndian(w)
  OBVIOUS
<1>2. w \in Nat /\ 4 \in Nat /\ 2 * 4 = 8
  OBVIOUS
<1>3. b \in [1 .. 4 -> 0 .. Byte - 1] /\ hex_from_u32_le(w) = bytes_to_hex(b)
  BY <1>1, <1>2, WordTexts
<1>4. Len(bytes_to_hex(b)) = 8 /\ hex_to_bytes(bytes_to_hex(b)) = {b}
  BY <1>2, <1>3, HexAndBack
<1>5. b[1] = ByteOf(w, 0) /\ b[2] = ByteOf(w, 1) /\ b[3] = ByteOf(w, 2) /\ b[4] = ByteOf(w, 3)
  BY <1>1 DEF LittleEndian
<1>6. u32_from_hex_le(bytes_to_hex(b)) =
        {c[1] + 2 ^ (2 * DigitBits) * c[2] + 2 ^ (4 * DigitBits) * c[3]
           + 2 ^ (6 * DigitBits) * c[4] : c \in {b}}
  BY <1>4 DEF u32_from_hex_le
<1>7. b[1] + 2 ^ (2 * DigitBits) * b[2] + 2 ^ (4 * DigitBits) * b[3]
        + 2 ^ (6 * DigitBits) * b[4] = w
  BY <1>5, WordOfBytes
<1>8. QED
  BY <1>3, <1>6, <1>7, Zenon

(* Above its four bytes a word has zeros. *)
LEMMA NoByteAbove ==
  ASSUME NEW w \in 0 .. U32 - 1, NEW k \in Nat, k >= 4
  PROVE  ByteOf(w, k) = 0
<1>1. PICK d \in Nat \ {0}, B \in Nat \ {0} : d = DigitBits /\ B = Byte
  BY HexFacts
<1>2. PICK j \in Nat : k = 4 + j
  OBVIOUS
<1>3. PICK e \in Nat : e = d * (2 * j)
  BY ProductIsNat
<1>4. d * (2 * k) = 8 * d + e /\ 8 * d \in Nat
  BY <1>1, <1>2, <1>3
<1>5. PICK M \in Nat \ {0}, P \in Nat \ {0} : M = 2 ^ (8 * d) /\ P = 2 ^ e
  BY <1>4, PowerPositive
<1>6. 2 ^ (8 * d + e) = M * P
  BY <1>4, <1>5, PowerSum
<1>7. w \in Nat /\ w < M
  BY <1>1, <1>5 DEF U32
<1>8. w \div (M * P) = 0
  <2>1. M * 1 <= M * P
    BY ProductAtMost
  <2>2. PICK N \in Nat \ {0} : N = M * P
    BY ProductPositive
  <2>3. w \in 0 .. N - 1
    BY <2>1, <2>2, <1>7
  <2>4. QED
    BY <2>2, <2>3, Small
<1>9. 0 % B = 0
  BY Small
<1>10. ByteOf(w, k) = (w \div 2 ^ (DigitBits * (2 * k))) % Byte
  BY <1>7, WordByte
<1>11. QED
  BY <1>1, <1>4, <1>6, <1>8, <1>9, <1>10

(* A longer text of a word has zeros in front. *)
LEMMA LongText ==
  ASSUME NEW w \in 0 .. U32 - 1, NEW size \in 4 .. 8
  PROVE  hex_from_u64_be(w, size) = {bytes_to_hex([i \in 1 .. size - 4 |-> 0] \o BigEndian(w))}
<1> DEFINE zeros == [i \in 1 .. size - 4 |-> 0]
           long == [i \in 1 .. size |-> ByteOf(w, size - i)]
<1>1. zeros \in Seq(Int) /\ Len(zeros) = size - 4
  OBVIOUS
<1>2. PICK b \in [1 .. 4 -> Int] : b = BigEndian(w)
  <2>1. w \in Nat
    OBVIOUS
  <2>2. BigEndian(w) \in [1 .. 4 -> 0 .. Byte - 1]
    BY <2>1, WordTexts
  <2>3. QED
    BY <2>2, HexFacts
<1>3. b \in Seq(Int) /\ Len(b) = 4
  BY <1>2, AsSequence
<1>4. PICK c : /\ c = zeros \o b /\ c = [i \in 1 .. size |-> c[i]]
               /\ \A i \in 1 .. size : /\ i <= size - 4 => c[i] = zeros[i]
                                       /\ i > size - 4 => c[i] = b[i - (size - 4)]
  <2> HIDE DEF zeros
  <2>1. PICK m \in Nat : m = size - 4 /\ size = m + 4
    OBVIOUS
  <2>2. PICK c : c = zeros \o b
    OBVIOUS
  <2>3. /\ c \in Seq(Int) /\ Len(c) = m + 4
        /\ \A i \in 1 .. m + 4 : c[i] = IF i <= m THEN zeros[i] ELSE b[i - m]
    <3>1. zeros \in Seq(Int) /\ b \in Seq(Int) /\ Len(zeros) = m /\ Len(b) = 4
      BY <1>1, <1>3, <2>1
    <3>2. /\ zeros \o b \in Seq(Int)
          /\ Len(zeros \o b) = Len(zeros) + Len(b)
          /\ \A i \in 1 .. Len(zeros) + Len(b) :
               (zeros \o b)[i] = IF i <= Len(zeros) THEN zeros[i] ELSE b[i - Len(zeros)]
      BY <3>1, ConcatProperties, Zenon
    <3>3. QED
      BY <2>2, <3>1, <3>2, Zenon
  <2>4. c = [i \in 1 .. size |-> c[i]]
    BY <2>1, <2>3, LenProperties
  <2>5. ASSUME NEW i \in 1 .. size
        PROVE  /\ i <= size - 4 => c[i] = zeros[i]
               /\ i > size - 4 => c[i] = b[i - (size - 4)]
    BY <2>1, <2>3
  <2>6. QED
    BY <2>2, <2>4, <2>5
<1>5. ASSUME NEW i \in 1 .. size
      PROVE  c[i] = ByteOf(w, size - i)
  <2>1. CASE i <= size - 4
    <3>1. size - i \in Nat /\ size - i >= 4
      BY <2>1
    <3>2. i \in 1 .. size - 4 /\ c[i] = 0
      BY <2>1, <1>4
    <3>3. QED
      BY <3>1, <3>2, NoByteAbove
  <2>2. CASE i > size - 4
    <3>1. i - (size - 4) \in 1 .. 4 /\ 4 - (i - (size - 4)) = size - i
      BY <2>2
    <3>2. c[i] = b[i - (size - 4)]
      BY <2>2, <1>4
    <3>3. QED
      BY <3>1, <3>2, <1>2 DEF BigEndian
  <2>3. QED
    BY <2>1, <2>2
<1>6. c = long
  <2>1. [i \in 1 .. size |-> c[i]] = long
    BY <1>5
  <2>2. QED
    BY <2>1, <1>4
<1>7. hex_from_u64_be(w, size) = {bytes_to_hex(long)}
  BY DEF hex_from_u64_be
<1>8. QED
  BY <1>2, <1>4, <1>6, <1>7

(* A shorter text of a word has its last bytes. *)
LEMMA ShortText ==
  ASSUME NEW w \in 0 .. U32 - 1, NEW size \in 0 .. 3
  PROVE  hex_from_u64_be(w, size) =
           {bytes_to_hex([i \in 1 .. size |-> BigEndian(w)[4 - size + i]])}
<1>1. ASSUME NEW i \in 1 .. size
      PROVE  BigEndian(w)[4 - size + i] = ByteOf(w, size - i)
  <2>1. 4 - size + i \in 1 .. 4 /\ 4 - (4 - size + i) = size - i
    OBVIOUS
  <2>2. QED
    BY <2>1 DEF BigEndian
<1>2. [i \in 1 .. size |-> BigEndian(w)[4 - size + i]] = [i \in 1 .. size |-> ByteOf(w, size - i)]
  BY <1>1
<1>3. hex_from_u64_be(w, size) = {bytes_to_hex([i \in 1 .. size |-> ByteOf(w, size - i)])}
  BY DEF hex_from_u64_be
<1>4. QED
  BY <1>2, <1>3

(* The bytes of a number in big-endian order are a function of 1 .. n, and *)
(* the digits of their text are the number's.                              *)
LEMMA FixedText ==
  ASSUME NEW x \in uint256
  PROVE  /\ BytesBe(x) \in [1 .. NumBytes -> 0 .. Byte - 1]
         /\ \A k \in 1 .. 2 * NumBytes :
              to_hex_be_fixed(x)[k] = (Value(x) \div 2 ^ (DigitBits * (2 * NumBytes - k))) % Hex
<1>1. PICK n \in Nat \ {0}, v \in Nat, B \in Nat \ {0} :
        n = NumBytes /\ v = Value(x) /\ B = Byte
  BY ByteFacts, ValueRange
<1>2. ASSUME NEW i \in 1 .. n
      PROVE  BytesBe(x)[i] = (v \div 2 ^ (DigitBits * (2 * (n - i)))) % B
  <2>1. PICK k \in 0 .. n - 1 : k = i - 1 /\ NumBytes - 1 - k = n - i /\ n - i \in 0 .. n - 1
    BY <1>1
  <2>2. to_bytes_be(x)[k] = to_bytes_le(x)[n - i]
    BY <2>1, <1>1, BigEndianBytes
  <2>3. to_bytes_le(x)[n - i] = (v \div 2 ^ (ByteBits * (n - i))) % B
    BY <2>1, <1>1, LittleEndianBytes
  <2>4. ByteBits * (n - i) = DigitBits * (2 * (n - i))
    <3>1. PICK d \in Nat : d = DigitBits /\ ByteBits = 2 * d
      BY HexFacts, ByteAssumption
    <3>2. 2 * d * (n - i) = d * (2 * (n - i))
      OBVIOUS
    <3>3. QED
      BY <3>1, <3>2
  <2>5. BytesBe(x)[i] = to_bytes_be(x)[k]
    BY <2>1, <1>1 DEF BytesBe
  <2>6. QED
    BY <2>2, <2>3, <2>4, <2>5
<1>3. ASSUME NEW i \in 1 .. n
      PROVE  BytesBe(x)[i] \in 0 .. B - 1
  <2>1. PICK m \in Nat : m = 2 * (n - i)
    OBVIOUS
  <2>2. (v \div 2 ^ (DigitBits * m)) % Byte \in 0 .. Byte - 1
    BY DigitsOfByte
  <2>3. QED
    BY <2>1, <2>2, <1>1, <1>2
<1>4. BytesBe(x) = [i \in 1 .. n |-> BytesBe(x)[i]]
  BY <1>1 DEF BytesBe
<1>5. PICK bytes \in [1 .. n -> 0 .. Byte - 1] : bytes = BytesBe(x)
  BY <1>1, <1>3, <1>4
<1>6. \A i \in 1 .. n : bytes[i] = (v \div 2 ^ (DigitBits * (2 * (n - i)))) % Byte
  BY <1>1, <1>2, <1>5
<1>7. \A k \in 1 .. 2 * n :
        bytes_to_hex(bytes)[k] = (v \div 2 ^ (DigitBits * (2 * n - k))) % Hex
  <2>1. n \in Nat
    OBVIOUS
  <2>2. QED
    BY <2>1, <1>6, TextDigits
<1>8. QED
  BY <1>1, <1>5, <1>7 DEF to_hex_be_fixed

(* Whatever the target, its hexadecimal text and that of its word are      *)
(* right.                                                                  *)
LEMMA HexOfTarget ==
  ASSUME target \in uint256
  PROVE  HexExact
<1>1. PICK n : n = NumBytes /\ n \in Nat \ {0} /\ Word \in 0 .. U32 - 1
  <2>1. PICK v \in Nat : v = Value(target)
    BY ValueRange
  <2>2. PICK M \in Nat \ {0} : M = U32
    BY HexFacts
  <2>3. v % M \in 0 .. M - 1
    BY DivSplit
  <2>4. QED
    BY <2>1, <2>2, <2>3, ByteFacts DEF Word
<1>2. PICK bytes \in [1 .. n -> 0 .. Byte - 1] : bytes = BytesBe(target)
  BY <1>1, FixedText
<1>3. PICK fixed \in [1 .. 2 * n -> 0 .. Hex - 1] :
        fixed = to_hex_be_fixed(target) /\ hex_to_bytes(fixed) = {bytes}
  <2>1. n \in Nat
    BY <1>1
  <2>2. QED
    BY <2>1, <1>2, HexAndBack DEF to_hex_be_fixed
<1>4. hex_to_bytes(<<1>> \o fixed) = {}
  <2>1. n \in Nat
    BY <1>1
  <2>2. QED
    BY <2>1, OddText
<1>5. Word \in Nat /\ 4 \in Nat
  BY <1>1, HexFacts
<1>6. hex_to_bytes(hex_from_u32_be(Word)) = {BigEndian(Word)}
  BY <1>5, WordTexts, HexAndBack
<1>7. hex_to_bytes(hex_from_u32_le(Word)) = {Reverse(BigEndian(Word))}
  <2>1. hex_to_bytes(hex_from_u32_le(Word)) = {LittleEndian(Word)}
    BY <1>5, WordTexts, HexAndBack
  <2>2. QED
    BY <2>1, <1>5, WordReversed
<1>8. \A size \in 0 .. 3 :
        hex_from_u64_be(Word, size) =
          {bytes_to_hex([i \in 1 .. size |-> BigEndian(Word)[4 - size + i]])}
  BY <1>1, ShortText
<1>9. \A size \in 4 .. 8 :
        hex_from_u64_be(Word, size) =
          {bytes_to_hex([i \in 1 .. size - 4 |-> 0] \o BigEndian(Word))}
  BY <1>1, LongText
<1>10. hex_from_u64_be(Word, 9) = {}
  BY DEF hex_from_u64_be
<1>11. /\ u32_from_hex_be(hex_from_u32_be(Word)) = {Word}
       /\ u32_from_hex_le(hex_from_u32_le(Word)) = {Word}
  BY <1>1, BigEndianBack, LittleEndianBack
<1>12. ASSUME NEW b \in hex_to_bytes(hex_from_u32_be(Word))
       PROVE  /\ hex_to_bytes(hex_from_u32_le(Word)) = {Reverse(b)}
              /\ \A size \in 0 .. 3 :
                   hex_from_u64_be(Word, size) =
                     {bytes_to_hex([i \in 1 .. size |-> b[4 - size + i]])}
              /\ \A size \in 4 .. 8 :
                   hex_from_u64_be(Word, size) = {bytes_to_hex([i \in 1 .. size - 4 |-> 0] \o b)}
  <2>1. b = BigEndian(Word)
    BY <1>6
  <2>2. QED
    BY <2>1, <1>7, <1>8, <1>9
<1>13. \A k \in 1 .. 2 * NumBytes :
         fixed[k] = (Value(target) \div 2 ^ (DigitBits * (2 * NumBytes - k))) % Hex
  BY <1>3, FixedText
<1>14. /\ \A k \in 1 .. 2 * NumBytes :
            to_hex_be_fixed(target)[k] =
              (Value(target) \div 2 ^ (DigitBits * (2 * NumBytes - k))) % Hex
       /\ hex_to_bytes(to_hex_be_fixed(target)) = {BytesBe(target)}
       /\ hex_to_bytes(<<1>> \o to_hex_be_fixed(target)) = {}
  BY <1>2, <1>3, <1>4, <1>13, Zenon
<1>15. QED
  BY <1>1, <1>10, <1>11, <1>12, <1>14, Zenon DEF HexExact

(* Every target published, and every word in one, survives its way through *)
(* hexadecimal text, in both byte orders and at every size                 *)
(* (uint256.hpp 369-388, hex.cpp 24-167).                                  *)
THEOREM HexText == Spec => []HexExact
<1>1. TargetInv => HexExact
  BY HexOfTarget DEF TargetInv
<1>2. QED
  BY <1>1, TargetAlways, PTL

=============================================================================
