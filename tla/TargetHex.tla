----------------------------- MODULE TargetHex ------------------------------
(***************************************************************************)
(* The conversions of hex.cpp, applied to the targets that Target computes *)
(* and to the 32-bit words in them, as the miner applies them to a job's   *)
(* fields, the nonce and extranonce2.                                      *)
(***************************************************************************)
EXTENDS Target, Hex

ASSUME ByteAssumption == ByteBits = 2 * DigitBits

BytesBe(x) == [i \in 1 .. NumBytes |-> to_bytes_be(x)[i - 1]]

to_hex_be_fixed(x) == bytes_to_hex(BytesBe(x))

-----------------------------------------------------------------------------
(* Properties. *)

Word == Value(target) % U32

(* The digits of a target are those of its number, and its bytes come back *)
(* from them; a digit too many is refused.  A word comes back from both    *)
(* byte orders, which are each other's reverse, and of its bytes a text of *)
(* another size has the last ones or zeros in front of them, up to eight   *)
(* (uint256.hpp 369-388, hex.cpp 24-167).                                  *)
HexExact ==
  LET fixed == to_hex_be_fixed(target)
  IN /\ \A k \in 1 .. 2 * NumBytes :
          fixed[k] = (Value(target) \div 2 ^ (DigitBits * (2 * NumBytes - k))) % Hex
     /\ hex_to_bytes(fixed) = {BytesBe(target)}
     /\ hex_to_bytes(<<1>> \o fixed) = {}
     /\ u32_from_hex_be(hex_from_u32_be(Word)) = {Word}
     /\ u32_from_hex_le(hex_from_u32_le(Word)) = {Word}
     /\ \A b \in hex_to_bytes(hex_from_u32_be(Word)) :
          /\ hex_to_bytes(hex_from_u32_le(Word)) = {Reverse(b)}
          /\ \A size \in 0 .. 3 :
               hex_from_u64_be(Word, size) = {bytes_to_hex([i \in 1 .. size |-> b[4 - size + i]])}
          /\ \A size \in 4 .. 8 :
               hex_from_u64_be(Word, size) = {bytes_to_hex([i \in 1 .. size - 4 |-> 0] \o b)}
     /\ hex_from_u64_be(Word, 9) = {}

=============================================================================
