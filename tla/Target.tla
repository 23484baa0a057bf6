------------------------------- MODULE Target -------------------------------
(***************************************************************************)
(* Targets of mining_job/target.cpp over the limb arithmetic of Uint256:   *)
(* what publish_latest_work makes of a job's nbits or of the difficulty,   *)
(* two calculations that share nothing, and which digests meet the result. *)
(*                                                                         *)
(* A compact target is its exponent and its coefficient.  A difficulty is  *)
(* counted in halves of the code's fixed-point unit 1 / kScale, so that    *)
(* the rounding has a tie to break.                                        *)
(***************************************************************************)
EXTENDS Uint256

CONSTANTS
  Exponents,      \* exponents tried
  Coefficients,   \* coefficients tried
  Difficulties,   \* difficulties tried, in halves of 1 / kScale
  Digests         \* digests tried, as bytes

(* The scale of 2^32 is half a limb.  A limb holds a coefficient, and      *)
(* difficulty 1 leaves the four topmost bytes free.                        *)
ScaleBits == LimbBits \div 2

ASSUME TargetAssumption ==
  /\ LimbBits % 2 = 0
  /\ NumBytes >= 6
  /\ 3 * ByteBits - 1 <= LimbBits
  /\ ScaleBits <= 4 * ByteBits
  /\ Exponents \subseteq Nat
  /\ Coefficients \subseteq 0 .. 2 ^ (3 * ByteBits - 1) - 1
  /\ Difficulties \subseteq Nat
  /\ Digests \subseteq bytes32

CompactTargets == [exponent : Exponents, coefficient : Coefficients]

VARIABLES
  input,    \* a compact target, or a difficulty
  target,   \* the result
  pc        \* what is calculated, then how that ended

vars == <<input, target, pc>>

-----------------------------------------------------------------------------
(* Faulty variant: the coefficient is shifted before it is widened. *)
expand_compact_target_narrow(exp, coeff) ==
  IF exp <= 3
    THEN FromLimb(LimbShiftRight(coeff, ByteBits * (3 - exp)))
    ELSE FromLimb(LimbShiftLeft(coeff, ByteBits * (exp - 3)))

(* expand_compact_target. *)
expand_compact_target(exp, coeff) ==
  IF exp <= 3
    THEN FromLimb(LimbShiftRight(coeff, ByteBits * (3 - exp)))
    ELSE Times(FromLimb(coeff), ShiftLeft(FromLimb(1), ByteBits * (exp - 3)))

(* 0x1d00ffff: exponent 29 of 32 bytes, two bytes of ones. *)
difficulty_1_target == expand_compact_target(NumBytes - 3, 2 ^ (2 * ByteBits) - 1)

(* difficulty * kScale is halves / 2.  It must be at least 1 and at most   *)
(* the largest limb.                                                       *)
InRange(halves) == halves >= 2 /\ halves <= 2 * (Limb - 1)

(* Faulty variant: the scaled difficulty is truncated. *)
llround_truncates(halves) == {halves \div 2}

(* llround, converted to unsigned: halves round up.  A result beyond the   *)
(* signed range is unspecified; processors deliver the smallest signed     *)
(* number, or the largest one.                                             *)
llround(halves) ==
  LET rounded == (halves + 1) \div 2
  IN IF rounded < Limb \div 2 THEN {rounded} ELSE {Limb \div 2, Limb \div 2 - 1}

(* (diff1 << 32) / scaled: the divisor is a single limb. *)
ShareTarget(scaled) == divmod_u64(ShiftLeft(difficulty_1_target, ScaleBits), scaled).q

hash_meets_target(digest, t) == LessOrEqual(from_bytes_le(digest), t)

-----------------------------------------------------------------------------

Init ==
  /\ \/ pc = "network" /\ input \in CompactTargets
     \/ pc = "share" /\ input \in Difficulties
  /\ target = Zero

ExpandNetworkTarget ==
  /\ pc = "network"
  /\ target' = expand_compact_target(input.exponent, input.coefficient)
  /\ pc' = "network published"
  /\ UNCHANGED input

RejectDifficulty ==
  /\ pc = "share"
  /\ ~InRange(input)
  /\ pc' = "rejected"
  /\ UNCHANGED <<input, target>>

DivideByDifficulty ==
  /\ pc = "share"
  /\ InRange(input)
  /\ \E scaled \in llround(input) : target' = ShareTarget(scaled)
  /\ pc' = "share published"
  /\ UNCHANGED input

Done == pc \in {"rejected", "network published", "share published"} /\ UNCHANGED vars

Next == ExpandNetworkTarget \/ RejectDifficulty \/ DivideByDifficulty \/ Done

Spec == Init /\ [][Next]_vars

-----------------------------------------------------------------------------
(* Properties. *)

(* The network target is the number the compact form denotes: coefficient  *)
(* times 2 to the 8 * (exponent - 3), rounded down, and with whatever does *)
(* not fit into 256 bits cut off (target.cpp 15-26).                       *)
CompactExact ==
  pc = "network published" =>
    Value(target) =
      IF input.exponent < 3
        THEN input.coefficient \div 2 ^ (ByteBits * (3 - input.exponent))
        ELSE (input.coefficient * 2 ^ (ByteBits * (input.exponent - 3))) % Modulus

(* diff1 and the scaled difficulty as numbers. *)
Diff1 == (2 ^ (2 * ByteBits) - 1) * 2 ^ (ByteBits * (NumBytes - 6))
Rounded == (input + 1) \div 2

IsFloorOfQuotient(t) ==
  /\ t * Rounded <= Diff1 * 2 ^ ScaleBits
  /\ (t + 1) * Rounded > Diff1 * 2 ^ ScaleBits

(* Up to half of the supported range the share target is the floor of      *)
(* diff1 / difficulty in fixed point, and exactly the digests that are at  *)
(* most as large meet it, read as little-endian numbers (target.cpp 34-62, *)
(* 72-79).                                                                 *)
TargetExact ==
  (pc = "share published" /\ Rounded < Limb \div 2) =>
    /\ IsFloorOfQuotient(Value(target))
    /\ \A digest \in Digests :
         hash_meets_target(digest, target) <=>
           SumOf([k \in 1 .. NumBytes |-> digest[k - 1] * 2 ^ (ByteBits * (k - 1))],
                 NumBytes) <= Value(target)

(* target.cpp 39-41: "target = floor(diff1 / difficulty) = floor((diff1 << *)
(* 32) / round(difficulty * 2^32))" for every difficulty the range check   *)
(* admits.                                                                 *)
TargetFollowsDifficulty ==
  pc = "share published" => IsFloorOfQuotient(Value(target))

=============================================================================
