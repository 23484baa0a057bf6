---------------------------- MODULE DivModProofs ----------------------------
(***************************************************************************)
(* TLAPS proofs about DivMod: division is exact on every path, and so are  *)
(* the operators it is made of.                                            *)
(***************************************************************************)
EXTENDS DivMod, Uint256Proofs, TLAPS

(* In the bitwise loop i is the bit to bring down and the bits above it    *)
(* are divided.                                                            *)
DivisionInv ==
  /\ n \in uint256 /\ d \in uint256
  /\ qr \in [q : uint256, r : uint256]
  /\ pc \in {"start", "loop", "done"}
  /\ pc = "start" => qr = [q |-> Zero, r |-> Zero] /\ i = bit_width_v - 1
  /\ pc = "loop" => /\ i \in 0 .. bit_width_v - 1
                    /\ ~is_zero(d)
                    /\ Divided(n, d, qr, i + 1)
  /\ DivisionExact

(* The zeros divmod starts from and returns for a zero divisor.            *)
LEMMA ZerosTyped ==
  /\ [q |-> Zero, r |-> Zero] \in [q : uint256, r : uint256]
  /\ is_zero(Zero)
<1>1. Zero \in uint256 /\ Value(Zero) = 0
  BY ZeroExact
<1>2. QED
  BY <1>1, ZeroOrNot

(* Above the topmost bit there is nothing to divide. *)
LEMMA NothingBroughtDown ==
  ASSUME NEW x \in uint256, NEW y \in uint256, ~is_zero(y)
  PROVE  Divided(x, y, [q |-> Zero, r |-> Zero], bit_width_v - 1 + 1)
<1>1. PICK M \in Nat \ {0} : M = 2 ^ bit_width_v /\ M = Modulus
  BY LimbFacts DEF Modulus
<1>2. bit_width_v - 1 + 1 = bit_width_v
  BY LimbFacts
<1>3. PICK V \in 0 .. M - 1 : V = Value(x)
  BY <1>1, ValueRange
<1>4. V \div M = 0
  BY Small
<1>5. 0 \div M = 0 /\ 0 % M = 0
  OBVIOUS
<1>6. PICK D \in Nat \ {0} : D = Value(y)
  BY ValueRange, ZeroOrNot
<1>7. 0 \div D = 0 /\ 0 % D = 0
  OBVIOUS
<1>8. PICK z : z = [q |-> Zero, r |-> Zero]
  OBVIOUS
<1>9. Value(z.q) = 0 /\ Value(z.r) = 0
  BY <1>8, ZeroExact
<1>10. Divided(x, y, z, bit_width_v)
  BY <1>1, <1>3, <1>4, <1>5, <1>6, <1>7, <1>9, Zenon DEF Divided
<1>11. QED
  BY <1>2, <1>8, <1>10

(* The invariant holds at the start.                                       *)
LEMMA DivisionInit == Init => DivisionInv
BY OperandAssumption, ZerosTyped DEF Init, DivisionInv, DivisionExact

(* Every step keeps it.                                                    *)
LEMMA DivisionNext == DivisionInv /\ [Next]_vars => DivisionInv'
<1> SUFFICES ASSUME DivisionInv, [Next]_vars
             PROVE  DivisionInv'
  OBVIOUS
<1>1. n \in uint256 /\ d \in uint256 /\ qr \in [q : uint256, r : uint256]
  BY DEF DivisionInv
<1>2. CASE DivideByZero
  BY <1>1, <1>2, ZerosTyped DEF DivideByZero, Finish, DivisionInv, DivisionExact
<1>3. CASE DivideByLimb
  <2>1. PICK c \in Digit : c = d[0] /\ c # 0 /\ Value(d) = c
    <3>1. d[0] \in Digit
      BY <1>1, LimbIsDigit
    <3>2. d[1] = 0 /\ d[2] = 0 /\ d[3] = 0
      BY <1>3 DEF DivideByLimb, fits_u64, Indices, limb_count
    <3>3. d[0] # 0
      BY <3>2, <1>3 DEF DivideByLimb, is_zero, Indices, limb_count
    <3>4. PICK L \in Nat, v \in Nat : L = Limb /\ v = d[0]
      BY <1>1, LimbFacts, LimbIsDigit
    <3>5. Value(d) = v + L * (0 + L * (0 + L * 0))
      BY <3>2, <3>4, Zenon DEF Value
    <3>6. Value(d) = d[0]
      BY <3>4, <3>5
    <3>7. QED
      BY <3>1, <3>3, <3>6
  <2>2. /\ qr' \in [q : uint256, r : uint256]
        /\ Value(qr'.q) = Value(n) \div c /\ Value(qr'.r) = Value(n) % c
    <3>1. qr' = divmod_u64(n, c)
      BY <1>3, <2>1 DEF DivideByLimb, Finish
    <3>2. QED
      BY <3>1, <2>1, <1>1, DivideByLimbExact
  <2>3. pc' = "done" /\ UNCHANGED <<n, d, i>> /\ ~is_zero(d)
    BY <1>3 DEF DivideByLimb, Finish
  <2>4. DivisionExact'
    BY <2>1, <2>2, <2>3 DEF DivisionExact
  <2>5. QED
    BY <1>1, <2>2, <2>3, <2>4 DEF DivisionInv
<1>4. CASE DivideByPower
  <2>1. qr' = divmod_power(n, d) /\ has_single_bit(d) /\ pc' = "done" /\ UNCHANGED <<n, d, i>>
    BY <1>4 DEF DivideByPower, Finish
  <2>2. /\ ~is_zero(d) /\ qr' \in [q : uint256, r : uint256]
        /\ Value(qr'.q) = Value(n) \div Value(d) /\ Value(qr'.r) = Value(n) % Value(d)
    BY <1>1, <2>1, DivideByPowerExact
  <2>3. DivisionExact'
    BY <2>1, <2>2 DEF DivisionExact
  <2>4. QED
    BY <1>1, <2>1, <2>2, <2>3 DEF DivisionInv
<1>5. CASE DivideBitwise
  <2>1. /\ pc = "start" /\ pc' = "loop" /\ UNCHANGED <<n, d, qr, i>>
        /\ qr = [q |-> Zero, r |-> Zero] /\ i = bit_width_v - 1
    BY <1>5 DEF DivideBitwise, DivisionInv
  <2>2. ~is_zero(d)
    BY <1>5 DEF DivideBitwise, fits_u64, is_zero
  <2>3. Divided(n, d, qr, i + 1)
    BY <1>1, <2>1, <2>2, NothingBroughtDown, Zenon
  <2>4. i \in 0 .. bit_width_v - 1
    BY <2>1, LimbFacts
  <2>5. QED
    BY <1>1, <2>1, <2>2, <2>3, <2>4 DEF DivisionInv, DivisionExact, Divided
<1>6. CASE Loop
  <2>1. /\ pc = "loop" /\ qr' = DivideBit(n, d, qr, i) /\ i' = i - 1
        /\ pc' = IF i = 0 THEN "done" ELSE "loop"
        /\ n' = n /\ d' = d
    BY <1>6 DEF Loop
  <2>2. i \in 0 .. bit_width_v - 1 /\ ~is_zero(d) /\ Divided(n, d, qr, i + 1)
    BY <2>1 DEF DivisionInv
  <2>3. i \in Nat /\ i < bit_width_v
    BY <2>2, LimbFacts
  <2>4. qr' \in [q : uint256, r : uint256] /\ Divided(n, d, qr', i)
    BY <1>1, <2>1, <2>2, <2>3, DivideBitExact
  <2>5. CASE i = 0
    <3>1. Value(qr'.q) = Value(n) \div Value(d) /\ Value(qr'.r) = Value(n) % Value(d)
      <4>1. Value(qr'.q) \in Nat /\ Value(n) \in Nat
        BY <1>1, <2>4, ValueRange
      <4>2. Value(qr'.q) \div 1 = Value(qr'.q) /\ Value(n) \div 1 = Value(n)
        BY <4>1
      <4>3. QED
        BY <2>4, <2>5, <4>2, PowerZero DEF Divided
    <3>2. QED
      BY <1>1, <2>1, <2>2, <2>4, <2>5, <3>1 DEF DivisionInv, DivisionExact
  <2>6. CASE i # 0
    <3>1. i' \in 0 .. bit_width_v - 1 /\ i' + 1 = i /\ pc' = "loop"
      BY <2>1, <2>2, <2>3, <2>6, LimbFacts
    <3>2. Divided(n', d', qr', i' + 1)
      BY <2>1, <2>4, <3>1
    <3>3. QED
      BY <1>1, <2>1, <2>2, <2>4, <3>1, <3>2 DEF DivisionInv, DivisionExact, Divided
  <2>7. QED
    BY <2>5, <2>6
<1>7. CASE Done
  BY <1>7 DEF Done, vars, DivisionInv, DivisionExact, Divided
<1>8. CASE UNCHANGED vars
  BY <1>8 DEF vars, DivisionInv, DivisionExact, Divided
<1>9. QED
  BY <1>2, <1>3, <1>4, <1>5, <1>6, <1>7, <1>8 DEF Next

(* So it always holds.                                                     *)
LEMMA DivisionAlways == Spec => []DivisionInv
<1>1. QED
  BY DivisionInit, DivisionNext, PTL DEF Spec

(* Whichever path divmod takes, and whatever the operands, quotient and    *)
(* remainder are those of the numbers, and zeros for a zero divisor        *)
(* (uint256.hpp 613-645).                                                  *)
THEOREM Division == Spec => []DivisionExact
<1>1. DivisionInv => DivisionExact
  BY DEF DivisionInv
<1>2. QED
  BY <1>1, DivisionAlways, PTL

(* After every turn of the bitwise loop the bits brought down are the      *)
(* quotient so far times the divisor plus a remainder below it: shl1 never *)
(* loses the remainder's top bit (uint256.hpp 636-643).                    *)
THEOREM LoopInvariant == Spec => []LoopInv
<1>1. DivisionInv => LoopInv
  BY DEF DivisionInv, LoopInv, Divided
<1>2. QED
  BY <1>1, DivisionAlways, PTL

(* Sum, difference, product and order.                                     *)
LEMMA ArithmeticExact ==
  ASSUME NEW x \in uint256, NEW y \in uint256
  PROVE  /\ Value(Plus(x, y)) = (Value(x) + Value(y)) % Modulus
         /\ Value(Minus(x, y)) = (Value(x) - Value(y)) % Modulus
         /\ Value(Times(x, y)) = (Value(x) * Value(y)) % Modulus
         /\ LessThan(x, y) <=> Value(x) < Value(y)
BY PlusExact, MinusExact, TimesExact, Uint256LessThan

(* The bit queries.                                                        *)
LEMMA QueriesExact ==
  ASSUME NEW x \in uint256, NEW w, w = bit_width(x)
  PROVE  /\ Value(x) < 2 ^ w
         /\ w > 0 => Value(x) >= 2 ^ (w - 1)
         /\ countl_zero(x) = bit_width_v - w
         /\ Value(x) % 2 ^ countr_zero(x) = 0
         /\ ~is_zero(x) => get_bit(x, countr_zero(x))
         /\ has_single_bit(x) <=> w = countr_zero(x) + 1
<1>1. /\ Value(x) < 2 ^ w
      /\ w > 0 => Value(x) >= 2 ^ (w - 1)
      /\ countl_zero(x) = bit_width_v - w
  BY BitWidthExact
<1>2. Value(x) % 2 ^ countr_zero(x) = 0
  BY TrailingZerosExact
<1>3. ASSUME ~is_zero(x)
      PROVE  get_bit(x, countr_zero(x))
  <2>1. PICK s \in Nat : s = countr_zero(x) /\ s < bit_width_v /\ BitOf(Value(x), s) = 1
    BY <1>3, TrailingZerosExact
  <2>2. s \in Nat /\ s < bit_width_v
    BY <2>1
  <2>3. get_bit(x, s) <=> BitOf(Value(x), s) = 1
    BY <2>2, GetBit
  <2>4. QED
    BY <2>1, <2>3
<1>4. has_single_bit(x) <=> w = countr_zero(x) + 1
  BY SingleBit
<1>5. QED
  BY <1>1, <1>2, <1>3, <1>4

(* For all operands addition, subtraction, multiplication, order, shifts   *)
(* of every distance, bit queries and both byte orders agree with the      *)
(* arithmetic of the numbers modulo 2^256 (uint256.hpp 146-328, 446-465,   *)
(* 535-604, 673-709).                                                      *)
THEOREM Operators == Spec => []OperatorsExact
<1>1. DivisionInv => OperatorsExact
  <2> SUFFICES ASSUME DivisionInv
               PROVE  OperatorsExact
    OBVIOUS
  <2>1. n \in uint256 /\ d \in uint256
    BY DEF DivisionInv
  <2>2. /\ Value(Plus(n, d)) = (Value(n) + Value(d)) % Modulus
        /\ Value(Minus(n, d)) = (Value(n) - Value(d)) % Modulus
        /\ Value(Times(n, d)) = (Value(n) * Value(d)) % Modulus
        /\ LessThan(n, d) <=> Value(n) < Value(d)
    BY <2>1, ArithmeticExact
  <2>3. \A s \in 0 .. bit_width_v + 1 :
          /\ Value(ShiftLeft(n, s)) = (Value(n) * 2 ^ s) % Modulus
          /\ Value(ShiftRight(n, s)) = Value(n) \div 2 ^ s
    <3>1. TAKE s \in 0 .. bit_width_v + 1
    <3>2. s \in Nat
      BY LimbFacts
    <3>3. QED
      BY <2>1, <3>2, ShiftLeftExact, ShiftRightExact
  <2>4. shl1(n) = ShiftLeft(n, 1)
    BY <2>1, Shl1IsShift
  <2>5. LET w == bit_width(n)
        IN /\ Value(n) < 2 ^ w
           /\ w > 0 => Value(n) >= 2 ^ (w - 1)
           /\ countl_zero(n) = bit_width_v - w
           /\ Value(n) % 2 ^ countr_zero(n) = 0
           /\ ~is_zero(n) => get_bit(n, countr_zero(n))
           /\ has_single_bit(n) <=> w = countr_zero(n) + 1
    BY <2>1, QueriesExact
  <2>6. from_bytes_le(to_bytes_le(n)) = n /\ from_bytes_be(to_bytes_be(n)) = n
    BY <2>1, BytesAndBack
  <2>7. \A k \in 0 .. NumBytes - 1 :
          /\ to_bytes_le(n)[k] = (Value(n) \div 2 ^ (ByteBits * k)) % Byte
          /\ to_bytes_be(n)[k] = to_bytes_le(n)[NumBytes - 1 - k]
    BY <2>1, LittleEndianBytes, BigEndianBytes
  <2>8. QED
    BY <2>2, <2>3, <2>4, <2>5, <2>6, <2>7, Zenon DEF OperatorsExact
<1>2. QED
  BY <1>1, DivisionAlways, PTL

=============================================================================
