------------------------------ MODULE MCTarget ------------------------------
(***************************************************************************)
(* Instance of Target: limbs of six bits, three bytes to a limb, so that a *)
(* number has twelve bytes and the fixed point three bits.                 *)
(***************************************************************************)
EXTENDS TargetText

(* Below, at and above three bytes, up to past the topmost byte. *)
MCExponents == 0 .. NumBytes + 3

(* All of them: up to three bytes less the sign bit. *)
MCCoefficients == 0 .. 2 ^ (3 * ByteBits - 1) - 1

(* Zero, the two ends of the supported range and everything in between. *)
MCDifficulties == 0 .. 2 * Limb

(* Digests around some of the share targets. *)
MCDigests ==
  {to_bytes_le(OfValue(v)) :
     v \in UNION {{Value(ShareTarget(scaled)) + delta : delta \in {-1, 0, 1, Limb ^ 3}} :
                    scaled \in {1, 2, 3, 7, 31}}}

=============================================================================
