------------------------------ MODULE Coinbase ------------------------------
(***************************************************************************)
(* decode_coinbase and what it says of the outputs (coinbase.cpp): a       *)
(* reader that checks its bounds walks over bytes the pool supplied.  The  *)
(* result is only printed, but an exception ends main (Lifecycle's         *)
(* RenderFails).                                                           *)
(*                                                                         *)
(* The widths of bytes, integers, hashes and bech32 groups are constants,  *)
(* so that TLC can take every byte at every place.  Characters of an       *)
(* address are their places in kBech32Charset; "bc1" in front is left out. *)
(***************************************************************************)
EXTENDS Integers, SequencesExt, Bitwise

CONSTANTS
  ByteBits, GroupBits, AccBits,      \* 8, 5 and the 32 of an int
  U16Size, U32Size, U64Size,         \* bytes: 2, 4, 8
  HashSize,                          \* 32: the hash of a prevout
  KeyHashSize, ScriptHashSize,       \* 20 and 32: the witness programs
  Op,                                \* opcodes, a record
  Gen, Hrp,                          \* bech32's generator and "bc"
  ReserveLimit,                      \* a vector of that size can be reserved
  Inputs,                            \* byte strings to decode
  ValidTransactions                  \* those that are serialized transactions

ASSUME ReaderAssumption ==
  /\ AccBits >= ByteBits + GroupBits
  /\ U16Size < U32Size /\ U32Size < U64Size
  /\ \A bytes \in Inputs : Len(bytes) <= ReserveLimit
  /\ ValidTransactions \subseteq Inputs

Byte == 2 ^ ByteBits
Group == 2 ^ GroupBits

VARIABLES
  tx,       \* ByteReader::bytes_
  pos,      \* ByteReader::pos_
  stage,    \* what decode_coinbase reads next
  left,     \* outputs or witness items still to be read
  decoded,  \* CoinbaseDecoded
  witness,  \* history: the witness items, which the code discards
  widths    \* history: bytes behind the first one of each compact size

historyVars == <<witness, widths>>
vars == <<tx, pos, stage, left, decoded, historyVars>>

-----------------------------------------------------------------------------
(* ByteReader.  A read throws or gives a value and the next position.  A   *)
(* byte behind the end is one nobody may look at.                          *)

NoByte == -1
At(p, count) == [k \in 1 .. count |-> IF p + k <= Len(tx) THEN tx[p + k] ELSE NoByte]

LittleEndian(bytes) == FoldRight(LAMBDA b, v : b + Byte * v, bytes, 0)

Thrown == [ok |-> FALSE]
Got(value, p) == [ok |-> TRUE, value |-> value, pos |-> p]

(* Faulty variant: the end of the read is compared, and it may wrap. *)
require_end(p, count) == (p + count) % Byte ^ U64Size <= Len(tx)

require(p, count) == count <= Len(tx) - p

read_bytes(p, count) ==
  IF require(p, count) THEN Got(At(p, count), p + count) ELSE Thrown

read_uint(p, size) ==
  LET r == read_bytes(p, size)
  IN IF r.ok THEN Got(LittleEndian(r.value), r.pos) ELSE Thrown

(* Bytes that follow the first byte of a compact size. *)
Width(first) ==
  CASE first < Byte - 3 -> 0
    [] first = Byte - 3 -> U16Size
    [] first = Byte - 2 -> U32Size
    [] OTHER -> U64Size

read_compact_size(p) ==
  LET first == read_uint(p, 1)
  IN IF first.ok /\ Width(first.value) > 0
       THEN read_uint(p + 1, Width(first.value)) ELSE first

(* A compact size and that many bytes. *)
ReadString(p) ==
  LET size == read_compact_size(p)
  IN IF size.ok THEN read_bytes(size.pos, size.value) ELSE Thrown

-----------------------------------------------------------------------------
(* Addresses. *)

(* The loop of convert_bits_8_to_5: as many groups as the bits allow.  The *)
(* accumulator is never masked, its upper bits leave the int.              *)
ConvertBits(bytes) ==
  LET Step(s, b) ==
        LET bits == s.bits + ByteBits
            acc == (s.acc * Byte + b) % 2 ^ AccBits
        IN [acc |-> acc, bits |-> bits % GroupBits,
            out |-> s.out \o [k \in 1 .. bits \div GroupBits |->
                                (acc \div 2 ^ (bits - GroupBits * k)) % Group]]
  IN FoldLeft(Step, [acc |-> 0, bits |-> 0, out |-> <<>>], bytes)

(* Faulty variant: the bits left over at the end are forgotten. *)
convert_bits_unpadded(bytes) == ConvertBits(bytes).out

convert_bits_8_to_5(bytes) ==
  LET end == ConvertBits(bytes)
  IN IF end.bits > 0
       THEN Append(end.out, (end.acc * 2 ^ (GroupBits - end.bits)) % Group)
       ELSE end.out

(* Six groups; the generator is added for each bit that leaves the top. *)
bech32_polymod(values) ==
  LET Step(chk, v) ==
        LET top == chk \div Group ^ 5
        IN FoldLeft(LAMBDA c, i : IF (top \div 2 ^ (i - 1)) % 2 = 1 THEN c ^^ Gen[i] ELSE c,
                    ((chk % Group ^ 5) * Group) ^^ v,
                    [i \in 1 .. GroupBits |-> i])
  IN FoldLeft(Step, 1, values)

bech32_hrp_expand(hrp) ==
  [k \in DOMAIN hrp |-> hrp[k] \div Group] \o <<0>> \o [k \in DOMAIN hrp |-> hrp[k] % Group]

bech32_encode(hrp, data) ==
  LET zeros == [k \in 1 .. 6 |-> 0]
      polymod == bech32_polymod(bech32_hrp_expand(hrp) \o data \o zeros) ^^ 1
  IN data \o [k \in 1 .. 6 |-> (polymod \div Group ^ (6 - k)) % Group]

IsWitnessProgram(script, size) ==
  Len(script) = size + 2 /\ script[1] = 0 /\ script[2] = size

describe_script_pubkey(script) ==
  CASE IsWitnessProgram(script, KeyHashSize) -> "P2WPKH"
    [] IsWitnessProgram(script, ScriptHashSize) -> "P2WSH"
    [] /\ Len(script) = KeyHashSize + 5
       /\ SubSeq(script, 1, 3) = <<Op.dup, Op.hash160, KeyHashSize>>
       /\ SubSeq(script, KeyHashSize + 4, KeyHashSize + 5)
            = <<Op.equalverify, Op.checksig>> -> "P2PKH"
    [] script # <<>> /\ script[1] = Op.return -> "OP_RETURN"
    [] OTHER -> "unknown"

(* decode_p2wpkh_address and decode_p2wsh_address. *)
Address(script) ==
  IF describe_script_pubkey(script) \in {"P2WPKH", "P2WSH"}
    THEN bech32_encode(Hrp, <<0>> \o convert_bits_8_to_5(SubSeq(script, 3, Len(script))))
    ELSE <<>>

-----------------------------------------------------------------------------
(* decode_coinbase. *)

Init ==
  /\ tx \in Inputs
  /\ pos = 0
  /\ stage = "version"
  /\ left = 0
  /\ decoded = [version |-> 0, has_witness_marker |-> FALSE, prevout |-> <<>>,
                script_sig |-> <<>>, sequence |-> 0, outputs |-> <<>>, locktime |-> 0]
  /\ witness = <<>>
  /\ widths = <<>>

Throw == stage' = "thrown" /\ UNCHANGED <<tx, pos, left, decoded, historyVars>>

(* One read into one field. *)
Take(r, field, next) ==
  IF r.ok
    THEN /\ decoded' = [decoded EXCEPT ![field] = r.value]
         /\ pos' = r.pos
         /\ stage' = next
         /\ UNCHANGED <<tx, left, witness>>
    ELSE Throw

Spelled(p) == widths' = Append(widths, Width(tx[p + 1]))

ReadVersion ==
  /\ stage = "version"
  /\ LET r == read_uint(0, U32Size)
         marker == r.ok /\ At(r.pos, 2) = <<0, 1>>
     IN IF r.ok
          THEN /\ decoded' = [decoded EXCEPT !.version = r.value, !.has_witness_marker = marker]
               /\ pos' = IF marker THEN r.pos + 2 ELSE r.pos
               /\ stage' = "input_count"
               /\ UNCHANGED <<tx, left, historyVars>>
          ELSE Throw

ReadInputCount ==
  /\ stage = "input_count"
  /\ LET r == read_compact_size(pos)
     IN IF r.ok /\ r.value = 1
          THEN /\ pos' = r.pos
               /\ stage' = "prevout"
               /\ Spelled(pos)
               /\ UNCHANGED <<tx, left, decoded, witness>>
          ELSE Throw

(* Hash and index. *)
ReadPrevout ==
  /\ stage = "prevout"
  /\ Take(read_bytes(pos, HashSize + U32Size), "prevout", "script_sig")
  /\ UNCHANGED widths

ReadScriptSig ==
  /\ stage = "script_sig"
  /\ Take(ReadString(pos), "script_sig", "sequence")
  /\ IF stage' = "thrown" THEN UNCHANGED widths ELSE Spelled(pos)

ReadSequence ==
  /\ stage = "sequence"
  /\ Take(read_uint(pos, U32Size), "sequence", "output_count")
  /\ UNCHANGED widths

(* reserve may throw for a count that no transaction of this size has. *)
ReadOutputCount ==
  /\ stage = "output_count"
  /\ LET r == read_compact_size(pos)
     IN \/ /\ r.ok
           /\ pos' = r.pos
           /\ left' = r.value
           /\ stage' = "outputs"
           /\ Spelled(pos)
           /\ UNCHANGED <<tx, decoded, witness>>
        \/ (r.ok => r.value > ReserveLimit) /\ Throw

ReadOutput ==
  /\ stage = "outputs"
  /\ left > 0
  /\ LET value == read_uint(pos, U64Size)
         script == IF value.ok THEN ReadString(value.pos) ELSE Thrown
     IN IF script.ok
          THEN /\ decoded' = [decoded EXCEPT !.outputs =
                    Append(@, [value_sats |-> value.value,
                               script_pubkey |-> script.value,
                               script_type |-> describe_script_pubkey(script.value),
                               address |-> Address(script.value)])]
               /\ pos' = script.pos
               /\ left' = left - 1
               /\ Spelled(value.pos)
               /\ UNCHANGED <<tx, stage, witness>>
          ELSE Throw

OutputsEnd ==
  /\ stage = "outputs"
  /\ left = 0
  /\ stage' = IF decoded.has_witness_marker THEN "item_count" ELSE "locktime"
  /\ UNCHANGED <<tx, pos, left, decoded, historyVars>>

(* The witness of the one input. *)
ReadItemCount ==
  /\ stage = "item_count"
  /\ LET r == read_compact_size(pos)
     IN IF r.ok
          THEN /\ pos' = r.pos
               /\ left' = r.value
               /\ stage' = "items"
               /\ Spelled(pos)
               /\ UNCHANGED <<tx, decoded, witness>>
          ELSE Throw

ReadItem ==
  /\ stage = "items"
  /\ left > 0
  /\ LET item == ReadString(pos)
     IN IF item.ok
          THEN /\ pos' = item.pos
               /\ left' = left - 1
               /\ witness' = Append(witness, item.value)
               /\ Spelled(pos)
               /\ UNCHANGED <<tx, stage, decoded>>
          ELSE Throw

ItemsEnd ==
  /\ stage = "items"
  /\ left = 0
  /\ stage' = "locktime"
  /\ UNCHANGED <<tx, pos, left, decoded, historyVars>>

(* Nothing may follow the lock time. *)
ReadLocktime ==
  /\ stage = "locktime"
  /\ LET r == read_uint(pos, U32Size)
     IN IF r.ok /\ r.pos = Len(tx) THEN Take(r, "locktime", "decoded") ELSE Throw
  /\ UNCHANGED widths

Done == stage \in {"decoded", "thrown"} /\ UNCHANGED vars

Next ==
  \/ ReadVersion
  \/ ReadInputCount
  \/ ReadPrevout
  \/ ReadScriptSig
  \/ ReadSequence
  \/ ReadOutputCount
  \/ ReadOutput
  \/ OutputsEnd
  \/ ReadItemCount
  \/ ReadItem
  \/ ItemsEnd
  \/ ReadLocktime
  \/ Done

Spec == Init /\ [][Next]_vars

-----------------------------------------------------------------------------
(* The serialization of a transaction with one input, the reference the    *)
(* reader is compared with.  Each compact size is spelled in its width.    *)

ToLittleEndian(v, size) == [k \in 1 .. size |-> (v \div Byte ^ (k - 1)) % Byte]

Compact(v, width) ==
  CASE width = 0 -> <<v>>
    [] width = U16Size -> <<Byte - 3>> \o ToLittleEndian(v, width)
    [] width = U32Size -> <<Byte - 2>> \o ToLittleEndian(v, width)
    [] OTHER -> <<Byte - 1>> \o ToLittleEndian(v, width)

String(bytes, width) == Compact(Len(bytes), width) \o bytes

SerializedOutput(output, width) ==
  ToLittleEndian(output.value_sats, U64Size) \o String(output.script_pubkey, width)

Serialize(t, items, w) ==
  LET outputs == [k \in DOMAIN t.outputs |-> SerializedOutput(t.outputs[k], w[3 + k])]
      next == 3 + Len(t.outputs) + 1
      strings == [k \in DOMAIN items |-> String(items[k], w[next + k])]
  IN ToLittleEndian(t.version, U32Size)
       \o (IF t.has_witness_marker THEN <<0, 1>> ELSE <<>>)
       \o Compact(1, w[1]) \o t.prevout
       \o String(t.script_sig, w[2]) \o ToLittleEndian(t.sequence, U32Size)
       \o Compact(Len(t.outputs), w[3]) \o FlattenSeq(outputs)
       \o (IF t.has_witness_marker
             THEN Compact(Len(items), w[next]) \o FlattenSeq(strings) ELSE <<>>)
       \o ToLittleEndian(t.locktime, U32Size)

-----------------------------------------------------------------------------
(* Properties. *)

(* Whatever the pool sends, no read goes past the end, sizes near 2^64     *)
(* included; what is accepted is, byte for byte, the serialization of what *)
(* was decoded; and no serialized transaction is refused, not even because *)
(* its number of outputs could not be reserved (coinbase.cpp 23-93,        *)
(* 364-430).                                                               *)
DecodeExact ==
  /\ pos \in 0 .. Len(tx)
  /\ stage = "decoded" => Serialize(decoded, witness, widths) = tx
  /\ stage = "thrown" => tx \notin ValidTransactions

(* The number a sequence of digits stands for, most significant first. *)
Number(digits, base) == FoldLeft(LAMBDA v, d : base * v + d, 0, digits)

(* An address can be read back: its checksum verifies, its version is 0,   *)
(* and its groups are the bits of the witness program, padded with fewer   *)
(* zeros than make a group.  Outputs of other kinds have none, and the     *)
(* kinds exclude each other (coinbase.cpp 108-130, 143-227, 332-362).      *)
AddressExact ==
  \A k \in DOMAIN decoded.outputs :
    LET output == decoded.outputs[k]
        program == SubSeq(output.script_pubkey, 3, Len(output.script_pubkey))
        groups == SubSeq(output.address, 2, Len(output.address) - 6)
        padding == GroupBits * Len(groups) - ByteBits * Len(program)
    IN IF output.address = <<>>
         THEN output.script_type \notin {"P2WPKH", "P2WSH"}
         ELSE /\ Head(output.address) = 0
              /\ bech32_polymod(bech32_hrp_expand(Hrp) \o output.address) = 1
              /\ padding \in 0 .. GroupBits - 1
              /\ Number(groups, Group) = Number(program, Byte) * 2 ^ padding

=============================================================================
