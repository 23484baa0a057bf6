-------------------------------- MODULE Hex --------------------------------
(***************************************************************************)
(* Hexadecimal text of util/hex.cpp: the form in which jobs, shares and    *)
(* hashes travel.  A character is the value of its digit; every other      *)
(* number is a character that is_lower_hex_digit refuses.  A function that *)
(* throws std::invalid_argument returns the empty set, any other one the   *)
(* set of its result.                                                      *)
(***************************************************************************)
EXTENDS Integers, SequencesExt

CONSTANT DigitBits   \* 4

ASSUME DigitAssumption == DigitBits \in Nat \ {0}

Hex == 2 ^ DigitBits
ByteOf(value, k) == (value \div 2 ^ (2 * DigitBits * k)) % (Hex * Hex)
U32 == 2 ^ (8 * DigitBits)

(* Faulty variant: a digit may be left over. *)
is_lower_hex_string_odd(s) == \A i \in DOMAIN s : s[i] \in 0 .. Hex - 1

is_lower_hex_string(s) == Len(s) % 2 = 0 /\ \A i \in DOMAIN s : s[i] \in 0 .. Hex - 1

bytes_to_hex(bytes) ==
  [k \in 1 .. 2 * Len(bytes) |->
     LET byte == bytes[(k + 1) \div 2]
     IN IF k % 2 = 1 THEN byte \div Hex ELSE byte % Hex]

hex_to_bytes(s) ==
  IF is_lower_hex_string(s)
    THEN {[i \in 1 .. Len(s) \div 2 |-> s[2 * i - 1] * Hex + s[2 * i]]} ELSE {}

hex_from_u32_be(value) == bytes_to_hex([i \in 1 .. 4 |-> ByteOf(value, 4 - i)])
hex_from_u32_le(value) == bytes_to_hex([i \in 1 .. 4 |-> ByteOf(value, i - 1)])

hex_from_u64_be(value, size_bytes) ==
  IF size_bytes > 8 THEN {}
    ELSE {bytes_to_hex([i \in 1 .. size_bytes |-> ByteOf(value, size_bytes - i)])}

(* The loop over the digits; a shift drops what leaves the 32 bits. *)
u32_from_hex_be(s) ==
  LET value[k \in 0 .. 8] == IF k = 0 THEN 0 ELSE ((value[k - 1] * Hex) % U32) + s[k]
  IN IF Len(s) = 8 /\ is_lower_hex_string(s) THEN {value[8]} ELSE {}

u32_from_hex_le(s) ==
  IF Len(s) # 8 THEN {}
    ELSE {b[1] + 2 ^ (2 * DigitBits) * b[2] + 2 ^ (4 * DigitBits) * b[3]
               + 2 ^ (6 * DigitBits) * b[4] : b \in hex_to_bytes(s)}

=============================================================================
