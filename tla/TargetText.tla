----------------------------- MODULE TargetText -----------------------------
(***************************************************************************)
(* Targets as text: the conversions of uint256.hpp.                        *)
(*                                                                         *)
(* A text is its lead, "0x", "+" or none, and the characters behind it, a  *)
(* character being the value of its digit whatever its case.               *)
(***************************************************************************)
EXTENDS TargetHex

CONSTANTS
  OctBits,   \* 3
  Decimal    \* 10

ASSUME TextAssumption ==
  /\ OctBits \in 1 .. LimbBits - 1
  /\ Decimal \in 2 .. Limb - 1

Separator == -1
NoDigit == -2
Text(lead, digits) == [lead |-> lead, digits |-> digits]

(* From the first nonzero digit, or else the last digit, on. *)
Stripped(digits) ==
  SubSeq(digits,
         Min({k \in DOMAIN digits : digits[k] # 0} \cup {Len(digits)}), Len(digits))

-----------------------------------------------------------------------------
(* Writing. *)

(* Without leading zero bytes: the first byte keeps both its digits. *)
to_hex_be(x) == bytes_to_hex(Stripped(BytesBe(x)))

LimbDigits == LimbBits \div DigitBits

WriteHex(x) ==
  Stripped([k \in 1 .. limb_count * LimbDigits |->
              LET limb == x[limb_count - 1 - ((k - 1) \div LimbDigits)]
              IN LimbShiftRight(limb, DigitBits * (LimbDigits - 1 - ((k - 1) % LimbDigits)))
                   % Hex])

(* The most digits that a limb can hold in the base, 21 and 19. *)
ChunkDigits(base) == Max({n \in 1 .. LimbBits : base ^ n < Limb})
Digits(v, base) ==
  LET width == ChunkDigits(base)
  IN [k \in 1 .. width |-> (v \div base ^ (width - k)) % base]

(* x itself, which TLC evaluates here and not wherever a limb is used. *)
Evaluated(x) == x @@ <<>>

RECURSIVE ChunksOf(_, _)
ChunksOf(t, size) ==
  IF is_zero(t) THEN <<>>
  ELSE LET d == divmod_u64(t, size) IN <<d.r[0]>> \o ChunksOf(Evaluated(d.q), size)

(* The remainders of x by the largest power of the base in a limb, least   *)
(* significant first.                                                      *)
Chunks(x, base) == ChunksOf(x, base ^ ChunkDigits(base))

(* Faulty variant: no chunk is filled up with zeros. *)
WriteChunksUnpadded(x, base) ==
  LET chunks == Chunks(x, base)
  IN IF is_zero(x) THEN <<0>>
     ELSE FlattenSeq(Reverse([k \in DOMAIN chunks |-> Stripped(Digits(chunks[k], base))]))

(* Octal and decimal: the top chunk as it is, the others at full width.    *)
WriteChunks(x, base) ==
  LET chunks == Chunks(x, base)
      text(k) == Digits(chunks[k], base)
  IN IF is_zero(x) THEN <<0>>
     ELSE FlattenSeq(Reverse([k \in DOMAIN chunks |->
                                IF k = Len(chunks) THEN Stripped(text(k)) ELSE text(k)]))

Bases == [hex |-> Hex, oct |-> 2 ^ OctBits, dec |-> Decimal]

(* operator<< without showbase. *)
Write(mode, x) == IF mode = "hex" THEN WriteHex(x) ELSE WriteChunks(x, Bases[mode])

-----------------------------------------------------------------------------
(* Reading: the set of the result, empty where the text is refused. *)

Compact(digits) == SelectSeq(digits, LAMBDA c : c # Separator)
AllDigits(digits, base) == \A i \in DOMAIN digits : digits[i] \in 0 .. base - 1

(* Filled up to the left with zeros; a separator may stand anywhere.       *)
from_hex_be(text) ==
  LET compact == Compact(text.digits)
      length == 2 * NumBytes
      digit(k) == IF k <= length - Len(compact) THEN 0
                  ELSE compact[k - (length - Len(compact))]
  IN IF /\ text.lead # "+"
        /\ Len(compact) \in 1 .. length
        /\ AllDigits(compact, Hex)
       THEN {from_bytes_be([i \in 0 .. NumBytes - 1 |->
                              digit(2 * i + 1) * Hex + digit(2 * i + 2)])}
       ELSE {}

(* The characters of parse_base one by one.  Modulo 2^256.                 *)
RECURSIVE ParseDigits(_, _, _)
ParseDigits(x, digits, base) ==
  CASE digits = <<>> -> {x}
    [] digits # <<>> /\ Head(digits) = Separator -> ParseDigits(x, Tail(digits), base)
    [] digits # <<>> /\ Head(digits) \in 0 .. base - 1 ->
         UNION {ParseDigits(y, Tail(digits), base) :
                  y \in {Evaluated(Plus(Times(x, FromLimb(base)), FromLimb(Head(digits))))}}
    [] OTHER -> {}

(* Zero if there is nothing but separators. *)
parse_base(digits, base) ==
  IF digits = <<>> THEN {} ELSE ParseDigits(Zero, digits, base)

(* operator>>: both leads are for decimal mode only, 0x leaves it.  In     *)
(* hexadecimal mode 0x is refused, which the comment at uint256.hpp 867    *)
(* ("for hex when basefield is dec, too") does not say.                    *)
Read(mode, text) ==
  CASE text.lead = "" -> parse_base(text.digits, Bases[mode])
    [] mode = "dec" /\ text.lead = "0x" -> parse_base(text.digits, Hex)
    [] mode = "dec" /\ text.lead = "+" -> parse_base(text.digits, Decimal)
    [] OTHER -> {}

-----------------------------------------------------------------------------
(* Properties. *)

RECURSIVE NumberOf(_, _)
NumberOf(digits, base) ==
  IF digits = <<>> THEN 0
  ELSE NumberOf(Front(digits), base) * base + Last(digits)

(* A target is written as the number it is and read back from these forms, *)
(* 0x in hexadecimal mode not among them; a digit too many is refused by from_hex_be and falls  *)
(* off at the top elsewhere; a character that is no digit is refused       *)
(* (uint256.hpp 329-441, 731-910).                                         *)
TextExact ==
  LET fixed == to_hex_be_fixed(target)
      long == <<1>> \o fixed
  IN /\ NumberOf(fixed, Hex) = Value(target)
     /\ \A mode \in DOMAIN Bases :
          \E written \in {Write(mode, target)} :
            /\ NumberOf(written, Bases[mode]) = Value(target)
            /\ Read(mode, Text("", written)) = {target}
            /\ Head(written) = 0 => is_zero(target)
            /\ Read(mode, Text("", Append(written, NoDigit))) = {}
     /\ \A lead \in {"", "0x"}, digits \in {fixed, to_hex_be(target), WriteHex(target)} :
          /\ from_hex_be(Text(lead, digits)) = {target}
          /\ from_hex_be(Text(lead, <<Separator>> \o digits)) = {target}
     /\ Read("dec", Text("0x", WriteHex(target))) = {target}
     /\ Read("dec", Text("+", Append(Write("dec", target), Separator))) = {target}
     /\ from_hex_be(Text("", long)) = {}
     /\ Read("hex", Text("", long)) = {target}

=============================================================================
