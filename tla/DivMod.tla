------------------------------- MODULE DivMod -------------------------------
(***************************************************************************)
(* divmod of util/uint256.hpp step by step, on operands chosen at the      *)
(* start; the other operations are compared with the numbers' arithmetic   *)
(* on the same operands.                                                   *)
(***************************************************************************)
EXTENDS Uint256

CONSTANT Operands   \* the numbers tried, as limb arrays

ASSUME OperandAssumption == Operands \subseteq uint256

VARIABLES
  n, d,     \* the operands
  qr,       \* quotient and remainder
  i,        \* loop variable of the bitwise loop: the bit to bring down
  pc

vars == <<n, d, qr, i, pc>>

Init ==
  /\ n \in Operands
  /\ d \in Operands
  /\ qr = [q |-> Zero, r |-> Zero]
  /\ i = bit_width_v - 1
  /\ pc = "start"

Finish(result) ==
  /\ qr' = result
  /\ pc' = "done"
  /\ UNCHANGED <<n, d, i>>

(* A divisor of zero gives zero twice. *)
DivideByZero ==
  /\ pc = "start"
  /\ is_zero(d)
  /\ Finish([q |-> Zero, r |-> Zero])

DivideByLimb ==
  /\ pc = "start"
  /\ ~is_zero(d)
  /\ fits_u64(d)
  /\ Finish(divmod_u64(n, d[0]))

DivideByPower ==
  /\ pc = "start"
  /\ ~fits_u64(d)
  /\ has_single_bit(d)
  /\ Finish(divmod_power(n, d))

DivideBitwise ==
  /\ pc = "start"
  /\ ~fits_u64(d)
  /\ ~has_single_bit(d)
  /\ pc' = "loop"
  /\ UNCHANGED <<n, d, qr, i>>

Loop ==
  /\ pc = "loop"
  /\ qr' = DivideBit(n, d, qr, i)
  /\ i' = i - 1
  /\ pc' = IF i = 0 THEN "done" ELSE "loop"
  /\ UNCHANGED <<n, d>>

Done == pc = "done" /\ UNCHANGED vars

Next ==
  \/ DivideByZero
  \/ DivideByLimb
  \/ DivideByPower
  \/ DivideBitwise
  \/ Loop
  \/ Done

Spec == Init /\ [][Next]_vars

-----------------------------------------------------------------------------
(* Properties. *)

(* The bits of n above i are exactly the quotient so far times d plus a    *)
(* remainder below d: shl1 never loses the remainder's top bit, although   *)
(* the divisor may be above 2^255 (uint256.hpp 636-643).                   *)
LoopInv ==
  /\ n \in uint256 /\ d \in uint256
  /\ qr \in [q : uint256, r : uint256]
  /\ pc = "loop" =>
       LET brought == Value(n) \div 2 ^ (i + 1)
       IN /\ Value(qr.q) \div 2 ^ (i + 1) = brought \div Value(d)
          /\ Value(qr.q) % 2 ^ (i + 1) = 0
          /\ Value(qr.r) = brought % Value(d)

(* All paths of divmod compute the same function: quotient and remainder,  *)
(* and zeros for a zero divisor (uint256.hpp 613-645).                     *)
DivisionExact ==
  pc = "done" =>
    IF is_zero(d)
      THEN is_zero(qr.q) /\ is_zero(qr.r)
      ELSE /\ Value(qr.q) = Value(n) \div Value(d)
           /\ Value(qr.r) = Value(n) % Value(d)

(* Carries, borrows and partial products are those of the numbers modulo   *)
(* 2^256, and the limbwise order is that of the numbers.  Shifts of every  *)
(* distance, limb boundaries and overlong ones included, the bit queries   *)
(* and both byte orders agree with the number (uint256.hpp 146-328,        *)
(* 446-465, 535-604, 673-709).                                             *)
OperatorsExact ==
  pc = "start" =>
    /\ Value(Plus(n, d)) = (Value(n) + Value(d)) % Modulus
    /\ Value(Minus(n, d)) = (Value(n) - Value(d)) % Modulus
    /\ Value(Times(n, d)) = (Value(n) * Value(d)) % Modulus
    /\ LessThan(n, d) <=> Value(n) < Value(d)
    /\ \A s \in 0 .. bit_width_v + 1 :
         /\ Value(ShiftLeft(n, s)) = (Value(n) * 2 ^ s) % Modulus
         /\ Value(ShiftRight(n, s)) = Value(n) \div 2 ^ s
    /\ shl1(n) = ShiftLeft(n, 1)
    /\ LET w == bit_width(n)
       IN /\ Value(n) < 2 ^ w
          /\ w > 0 => Value(n) >= 2 ^ (w - 1)
          /\ countl_zero(n) = bit_width_v - w
          /\ Value(n) % 2 ^ countr_zero(n) = 0
          /\ ~is_zero(n) => get_bit(n, countr_zero(n))
          /\ has_single_bit(n) <=> w = countr_zero(n) + 1
    /\ from_bytes_le(to_bytes_le(n)) = n
    /\ from_bytes_be(to_bytes_be(n)) = n
    /\ \A k \in 0 .. NumBytes - 1 :
         /\ to_bytes_le(n)[k] = (Value(n) \div 2 ^ (ByteBits * k)) % Byte
         /\ to_bytes_be(n)[k] = to_bytes_le(n)[NumBytes - 1 - k]

=============================================================================
