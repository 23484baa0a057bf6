------------------------------- MODULE Sha256 -------------------------------
(***************************************************************************)
(* SHA-256 as sha256.cpp puts it together: padding, blocks, midstates and  *)
(* the hand-made blocks of the miner's fast paths.                         *)
(*                                                                         *)
(* A byte is a pair, where it comes from and which one it is there, most   *)
(* significant first; a word is its four bytes, most significant first, so *)
(* that read_be32 and write_be32 leave the order alone.  Compression is a  *)
(* constructor: two states are equal only if what went into them is.  It   *)
(* keeps each source once, which keeps digests of digests small.           *)
(***************************************************************************)
EXTENDS Integers, SequencesExt

Source(name) == [name |-> name]
Bytes(source, size) == [k \in 1 .. size |-> <<source, k>>]

(* Bytes that are known numbers. *)
Number(v) == <<Source("number"), v>>
Word(b3, b2, b1, b0) == <<Number(b3), Number(b2), Number(b1), Number(b0)>>

Words(bytes) == [i \in 1 .. Len(bytes) \div 4 |-> SubSeq(bytes, 4 * i - 3, 4 * i)]

(* make_schedule and run_schedule: for each source, where its bytes go. *)
compress_block(state, block) ==
  LET places == (1 .. 16) \X (1 .. 4)
      from(p) == block[p[1]][p[2]][1]
  IN [state |-> state,
      block |-> [source \in {from(p) : p \in places} |->
                   [p \in {q \in places : from(q) = source} |-> block[p[1]][p[2]][2]]]]

initial_state == Source("H0")

(* Byte k of a std::uint64_t, counted from the lowest; only lengths below  *)
(* 2^31 occur.                                                             *)
ByteOf(v, k) ==
  IF k < 4 THEN (v \div <<1, 256, 65536, 16777216>>[k + 1]) % 256 ELSE 0

(* Faulty variant: the length never moves on to a block of its own. *)
padding_one_block(bit_length) ==
  LET used == (bit_length \div 8 + 1) % 64
  IN <<Number(128)>> \o [k \in 1 .. IF used > 56 THEN 0 ELSE 56 - used |-> Number(0)]
       \o [k \in 1 .. 8 |-> Number(ByteOf(bit_length, 8 - k))]

padding_for_bit_length(bit_length) ==
  LET message_bytes == bit_length \div 8
      zero_pad_bytes == (56 + 64 - ((message_bytes + 1) % 64)) % 64
  IN <<Number(128)>> \o [k \in 1 .. zero_pad_bytes |-> Number(0)]
       \o [k \in 1 .. 8 |-> Number(ByteOf(bit_length, 8 - k))]

Block(message, i) == Words(SubSeq(message, 64 * i - 63, 64 * i))

(* The loop over the blocks of a padded message. *)
compress_blocks(message) ==
  LET digest[i \in 0 .. Len(message) \div 64] ==
        IF i = 0 THEN initial_state
                 ELSE compress_block(digest[i - 1], Block(message, i))
  IN digest[Len(message) \div 64]

sha256_impl(data) == compress_blocks(data \o padding_for_bit_length(8 * Len(data)))

digest_words_to_bytes_be(digest) == Bytes(digest, 32)

(* The second hash: a digest, the end mark and the length of 256 bits. *)
digest_words_to_padded_block(digest) ==
  Words(Bytes(digest, 32)) \o <<Word(128, 0, 0, 0)>>
    \o [i \in 1 .. 6 |-> Word(0, 0, 0, 0)] \o <<Word(0, 0, 1, 0)>>

hash_digest_words(digest) ==
  compress_block(initial_state, digest_words_to_padded_block(digest))

dbl_sha256_two_block_header(midstate, block1) ==
  hash_digest_words(compress_block(midstate, block1))

dbl_sha256_words(data) == hash_digest_words(sha256_impl(data))

dbl_sha256_bytes(data) == digest_words_to_bytes_be(dbl_sha256_words(data))

-----------------------------------------------------------------------------
(* FIPS 180-4, section 5.1.1, for whole bytes: the least k for which the   *)
(* padded message fills its blocks.  The reference for the paths above.    *)

FipsPadded(data) ==
  LET k == CHOOSE z \in 0 .. 63 : (Len(data) + 1 + z + 8) % 64 = 0
  IN data \o [i \in 1 .. k + 9 |->
                IF i = 1 THEN Number(128)
                ELSE IF i <= k + 1 THEN Number(0) ELSE Number(ByteOf(8 * Len(data), k + 9 - i))]

FipsHash(data) == compress_blocks(FipsPadded(data))

FipsDouble(data) == Bytes(FipsHash(Bytes(FipsHash(data), 32)), 32)

=============================================================================
