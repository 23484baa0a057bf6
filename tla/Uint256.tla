------------------------------ MODULE Uint256 ------------------------------
(***************************************************************************)
(* The limb arithmetic of util/uint256.hpp: a number is four limbs, the    *)
(* least significant first.  The code's limbs have 64 bits and its bytes   *)
(* 8; the widths are constants here, so that TLC can try every operand.    *)
(* A 128-bit intermediate is a number modulo DoubleLimb.                   *)
(*                                                                         *)
(* The loops that shift in place read limbs they have not yet written, so  *)
(* each is a function of the limbs before it.                              *)
(***************************************************************************)
EXTENDS Integers, FiniteSets, FiniteSetsExt

CONSTANTS
  LimbBits,   \* 64
  ByteBits    \* 8

limb_count == 4

ASSUME WidthAssumption ==
  /\ LimbBits \in Nat \ {0}
  /\ ByteBits \in Nat \ {0}
  /\ LimbBits % ByteBits = 0

bit_width_v == limb_count * LimbBits
Limb == 2 ^ LimbBits
DoubleLimb == Limb * Limb
Byte == 2 ^ ByteBits
LimbBytes == LimbBits \div ByteBits
NumBytes == limb_count * LimbBytes

Indices == 0 .. limb_count - 1
uint256 == [Indices -> 0 .. Limb - 1]
bytes32 == [0 .. NumBytes - 1 -> 0 .. Byte - 1]

(* The number a limb array stands for, and the array of a number: the      *)
(* reference the operations are compared with.                             *)
Modulus == 2 ^ bit_width_v
Value(x) == x[0] + Limb * (x[1] + Limb * (x[2] + Limb * x[3]))
OfValue(v) == [i \in Indices |-> (v \div Limb ^ i) % Limb]

FromLimb(v) == [i \in Indices |-> IF i = 0 THEN v % Limb ELSE 0]
Zero == FromLimb(0)
is_zero(x) == \A i \in Indices : x[i] = 0

-----------------------------------------------------------------------------
(* Comparison and bitwise operators.  The operands of the limbs' & and |   *)
(* have at most the bits of a 128-bit intermediate.                        *)

(* t[1] + ... + t[count] *)
SumOf(t, count) ==
  LET sum[k \in 0 .. count] == IF k = 0 THEN 0 ELSE sum[k - 1] + t[k]
  IN sum[count]

BitOf(v, k) == (v \div 2 ^ k) % 2

LimbAnd(a, b) ==
  SumOf([k \in 1 .. 2 * LimbBits |-> 2 ^ (k - 1) * (BitOf(a, k - 1) * BitOf(b, k - 1))],
        2 * LimbBits)

LimbOr(a, b) == a + b - LimbAnd(a, b)

LessThan(a, b) ==
  \E i \in Indices :
    /\ a[i] < b[i]
    /\ \A j \in Indices : j > i => a[j] = b[j]

LessOrEqual(a, b) == ~LessThan(b, a)

BitAnd(a, b) == [i \in Indices |-> LimbAnd(a[i], b[i])]

-----------------------------------------------------------------------------
(* Shifts. *)

LimbShiftLeft(v, s) == (v * 2 ^ s) % Limb
LimbShiftRight(v, s) == v \div 2 ^ s

ShiftLeft(x, s) ==
  IF s >= bit_width_v THEN Zero ELSE
    LET limb_shift == s \div LimbBits
        bit_shift == s % LimbBits
        moved == [i \in Indices |->
                    IF i >= limb_shift THEN x[i - limb_shift] ELSE 0]
        carry(i) == IF i > 0 THEN LimbShiftRight(moved[i - 1], LimbBits - bit_shift)
                             ELSE 0
    IN IF bit_shift = 0
         THEN moved
         ELSE [i \in Indices |-> LimbOr(LimbShiftLeft(moved[i], bit_shift), carry(i))]

(* Faulty variant: the bits that leave the next limb are dropped. *)
ShiftRightUncarried(x, s) ==
  IF s >= bit_width_v THEN Zero ELSE
    [i \in Indices |->
       IF i + s \div LimbBits < limb_count
         THEN LimbShiftRight(x[i + s \div LimbBits], s % LimbBits) ELSE 0]

ShiftRight(x, s) ==
  IF s >= bit_width_v THEN Zero ELSE
    LET limb_shift == s \div LimbBits
        bit_shift == s % LimbBits
        moved == [i \in Indices |->
                    IF i + limb_shift < limb_count THEN x[i + limb_shift] ELSE 0]
        carry(i) == IF i + 1 < limb_count
                      THEN LimbShiftLeft(moved[i + 1], LimbBits - bit_shift) ELSE 0
    IN IF bit_shift = 0
         THEN moved
         ELSE [i \in Indices |-> LimbOr(LimbShiftRight(moved[i], bit_shift), carry(i))]

shl1(x) ==
  [i \in Indices |->
     LimbOr(LimbShiftLeft(x[i], 1),
            IF i > 0 THEN LimbShiftRight(x[i - 1], LimbBits - 1) ELSE 0)]

-----------------------------------------------------------------------------
(* Bytes.  The shifted bytes of a limb do not overlap: their | is a sum.   *)

to_bytes_le(x) ==
  [k \in 0 .. NumBytes - 1 |->
     LimbShiftRight(x[k \div LimbBytes], ByteBits * (k % LimbBytes)) % Byte]

to_bytes_be(x) ==
  [k \in 0 .. NumBytes - 1 |->
     LimbShiftRight(x[limb_count - 1 - k \div LimbBytes],
                    ByteBits * (LimbBytes - 1 - (k % LimbBytes))) % Byte]

from_bytes_le(in) ==
  [i \in Indices |->
     SumOf([k \in 1 .. LimbBytes |->
              LimbShiftLeft(in[i * LimbBytes + (k - 1)], ByteBits * (k - 1))],
           LimbBytes)]

from_bytes_be(in) ==
  [i \in Indices |->
     SumOf([k \in 1 .. LimbBytes |->
              LimbShiftLeft(in[(limb_count - 1 - i) * LimbBytes + (LimbBytes - k)],
                            ByteBits * (k - 1))],
           LimbBytes)]

-----------------------------------------------------------------------------
(* Addition, subtraction, multiplication, all modulo 2^256. *)

add_carry(a, b, carry) ==
  LET sum == (a + b + carry) % DoubleLimb
  IN [limb |-> sum % Limb, carry |-> sum \div Limb]

sub_borrow(a, b, borrow) ==
  LET bb == (b + borrow) % DoubleLimb
  IN [limb |-> (a - bb) % Limb, borrow |-> IF a < bb THEN 1 ELSE 0]

Plus(a, b) ==
  LET step[i \in Indices] ==
        add_carry(a[i], b[i], IF i = 0 THEN 0 ELSE step[i - 1].carry)
  IN [i \in Indices |-> step[i].limb]

Minus(a, b) ==
  LET step[i \in Indices] ==
        sub_borrow(a[i], b[i], IF i = 0 THEN 0 ELSE step[i - 1].borrow)
  IN [i \in Indices |-> step[i].limb]

(* One turn of the outer loop: r plus b times limb i of a, i limbs up.     *)
AddRow(r, a, b, i) ==
  LET cur[j \in 0 .. limb_count - 1 - i] ==
        (a[i] * b[j] + r[i + j] + (IF j = 0 THEN 0 ELSE cur[j - 1] \div Limb))
          % DoubleLimb
  IN [k \in Indices |-> IF k < i THEN r[k] ELSE cur[k - i] % Limb]

Times(a, b) ==
  AddRow(AddRow(AddRow(AddRow(Zero, a, b, 0), a, b, 1), a, b, 2), a, b, 3)

-----------------------------------------------------------------------------
(* Single bits. *)

get_bit(x, i) == LimbShiftRight(x[i \div LimbBits], i % LimbBits) % 2 = 1
set_bit(x, i) == [x EXCEPT ![i \div LimbBits] = LimbOr(@, 2 ^ (i % LimbBits))]

fits_u64(x) == \A i \in Indices : i > 0 => x[i] = 0

BitsOf(v) == {k \in 0 .. LimbBits - 1 : LimbShiftRight(v, k) % 2 = 1}

NonzeroLimbs(x) == {i \in Indices : x[i] # 0}

has_single_bit(x) ==
  /\ Cardinality(NonzeroLimbs(x)) = 1
  /\ \A i \in NonzeroLimbs(x) : Cardinality(BitsOf(x[i])) = 1

countr_zero(x) ==
  IF is_zero(x) THEN bit_width_v ELSE
    LET i == Min(NonzeroLimbs(x)) IN i * LimbBits + Min(BitsOf(x[i]))

bit_width(x) ==
  IF is_zero(x) THEN 0 ELSE
    LET i == Max(NonzeroLimbs(x)) IN i * LimbBits + Max(BitsOf(x[i])) + 1

countl_zero(x) ==
  IF is_zero(x) THEN bit_width_v ELSE
    LET i == Max(NonzeroLimbs(x))
    IN (limb_count - 1 - i) * LimbBits + (LimbBits - 1 - Max(BitsOf(x[i])))

-----------------------------------------------------------------------------
(* Division: by one limb, by a power of two, or bit by bit. *)

(* Faulty variant: the remainder of the last limb is not carried down. *)
divmod_u64_uncarried(n, d) ==
  [q |-> [i \in Indices |-> n[i] \div d], r |-> FromLimb(n[0] % d)]

(* The running remainder r shifted up by a limb, with limb i of n below.   *)
divmod_u64(n, d) ==
  LET step[k \in 0 .. limb_count] ==   \* k limbs done, from the top
        IF k = 0 THEN [digit |-> 0, r |-> 0] ELSE
          LET r == LimbOr((step[k - 1].r * Limb) % DoubleLimb, n[limb_count - k])
          IN [digit |-> (r \div d) % Limb, r |-> r % d]
  IN [q |-> [i \in Indices |-> step[limb_count - i].digit],
      r |-> FromLimb(step[limb_count].r)]

divmod_power(n, d) ==
  [q |-> ShiftRight(n, countr_zero(d)), r |-> BitAnd(n, Minus(d, FromLimb(1)))]

(* One turn of the bitwise loop, for bit i. *)
BringDown(n, r, i) ==
  LET s == shl1(r) IN IF get_bit(n, i) THEN [s EXCEPT ![0] = LimbOr(@, 1)] ELSE s

(* Faulty variant: the remainder may stay equal to the divisor. *)
DivideBitStrict(n, d, qr, i) ==
  LET r == BringDown(n, qr.r, i)
  IN IF LessThan(d, r)
       THEN [q |-> set_bit(qr.q, i), r |-> Minus(r, d)]
       ELSE [q |-> qr.q, r |-> r]

DivideBit(n, d, qr, i) ==
  LET r == BringDown(n, qr.r, i)
  IN IF LessOrEqual(d, r)
       THEN [q |-> set_bit(qr.q, i), r |-> Minus(r, d)]
       ELSE [q |-> qr.q, r |-> r]

=============================================================================
