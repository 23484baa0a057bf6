--------------------------- MODULE AssemblyProofs ---------------------------
(***************************************************************************)
(* TLAPS proofs about the operators of Sha256 and WorkAssembly: whatever   *)
(* the job, the pool's reconstruction of a submitted share hashes to what  *)
(* the miner computed from its midstate and its hand-padded block; and     *)
(* that prepared work is always that of its job, in the miner and in the   *)
(* reproduction tool.                                                      *)
(***************************************************************************)
EXTENDS RejectedShareRepro, SequenceTheorems, WellFoundedInduction, TLAPS

-----------------------------------------------------------------------------
(* Byte strings, of bytes of any kind. *)

(* A byte string is a function on its positions. *)
LEMMA StringForm ==
  ASSUME NEW s, IsString(s)
  PROVE  /\ Len(s) \in Nat
         /\ DOMAIN s = 1 .. Len(s)
         /\ s = [k \in 1 .. Len(s) |-> s[k]]
BY LenProperties DEF IsString

(* And a function on such positions is a byte string. *)
LEMMA FormString ==
  ASSUME NEW s, NEW n \in Nat, s = [k \in 1 .. n |-> s[k]]
  PROVE  IsBytes(s, n) /\ IsString(s)
<1>1. DOMAIN s = 1 .. n
  OBVIOUS
<1>2. \A k \in 1 .. n : s[k] \in Range(s)
  BY <1>1 DEF Range
<1>3. s \in Seq(Range(s))
  BY <1>2
<1>4. Len(s) = n
  BY <1>1, <1>3, LenProperties
<1>5. QED
  BY <1>3, <1>4 DEF IsBytes, IsString

(* So is a sequence of anything. *)
LEMMA SequenceBytes ==
  ASSUME NEW S, NEW s \in Seq(S)
  PROVE  IsBytes(s, Len(s))
<1>1. Len(s) \in Nat /\ s = [k \in 1 .. Len(s) |-> s[k]]
  BY LenProperties
<1>2. QED
  BY <1>1, FormString

(* Two strings with the same bytes are the same. *)
LEMMA SameBytes ==
  ASSUME NEW n \in Nat, NEW a, NEW b, IsBytes(a, n), IsBytes(b, n),
         \A k \in 1 .. n : a[k] = b[k]
  PROVE  a = b
<1>1. a = [k \in 1 .. n |-> a[k]] /\ b = [k \in 1 .. n |-> b[k]]
  BY StringForm DEF IsBytes
<1>2. QED
  BY <1>1

(* One string behind the other; the provers need a name for it. *)
IsJoin(t, a, b) == t = a \o b

(* The bytes of two strings joined. *)
LEMMA Joined ==
  ASSUME NEW m \in Nat, NEW n \in Nat, NEW a, NEW b, NEW t,
         IsBytes(a, m), IsBytes(b, n), IsJoin(t, a, b)
  PROVE  /\ IsBytes(t, m + n)
         /\ \A k \in 1 .. m + n : t[k] = IF k <= m THEN a[k] ELSE b[k - m]
<1> DEFINE S == Range(a) \cup Range(b)
<1>1. /\ a = [k \in 1 .. m |-> a[k]] /\ Len(a) = m
      /\ b = [k \in 1 .. n |-> b[k]] /\ Len(b) = n
  BY StringForm DEF IsBytes
<1>2. a \in Seq(S) /\ b \in Seq(S)
  <2>1. a \in Seq(Range(a)) /\ b \in Seq(Range(b))
    BY DEF IsBytes, IsString
  <2>2. QED
    BY <2>1, SeqMonotonic
<1> HIDE DEF S
<1>3. /\ a \o b \in Seq(S)
      /\ Len(a \o b) = m + n
      /\ \A k \in 1 .. m + n : (a \o b)[k] = IF k <= m THEN a[k] ELSE b[k - m]
  BY <1>1, <1>2, ConcatProperties, ZenonT(40)
<1>4. t = a \o b
  BY DEF IsJoin
<1>5. IsBytes(t, m + n)
  BY <1>3, <1>4, SequenceBytes
<1>6. QED
  BY <1>3, <1>4, <1>5

(* Three strings, one behind the other. *)
LEMMA JoinedThree ==
  ASSUME NEW l \in Nat, NEW m \in Nat, NEW n \in Nat,
         NEW a, NEW b, NEW c, NEW s, NEW t,
         IsBytes(a, l), IsBytes(b, m), IsBytes(c, n),
         IsJoin(s, a, b), IsJoin(t, s, c)
  PROVE  /\ IsBytes(t, l + m + n)
         /\ \A k \in 1 .. l + m + n :
              t[k] = IF k <= l THEN a[k]
                     ELSE IF k <= l + m THEN b[k - l]
                     ELSE c[k - (l + m)]
<1>1. /\ IsBytes(s, l + m)
      /\ \A k \in 1 .. l + m : s[k] = IF k <= l THEN a[k] ELSE b[k - l]
  BY Joined
<1>2. PICK h \in Nat : h = l + m
  OBVIOUS
<1>3. /\ IsBytes(t, h + n)
      /\ \A k \in 1 .. h + n : t[k] = IF k <= h THEN s[k] ELSE c[k - h]
  BY <1>1, <1>2, Joined
<1>4. ASSUME NEW k \in 1 .. l + m + n
      PROVE  t[k] = IF k <= l THEN a[k]
                    ELSE IF k <= l + m THEN b[k - l]
                    ELSE c[k - (l + m)]
  BY <1>1, <1>2, <1>3
<1>5. QED
  BY <1>2, <1>3, <1>4

(* A part of a string. *)
LEMMA Part ==
  ASSUME NEW n \in Nat, NEW s, IsBytes(s, n),
         NEW i \in 1 .. n, NEW j \in i .. n
  PROVE  /\ IsBytes(SubSeq(s, i, j), j - i + 1)
         /\ \A k \in 1 .. j - i + 1 : SubSeq(s, i, j)[k] = s[i + k - 1]
<1> DEFINE S == Range(s)
<1>1. \A k \in i .. j : s[k] \in S
  BY StringForm DEF Range, IsBytes
<1> HIDE DEF S
<1>2. /\ SubSeq(s, i, j) \in Seq(S)
      /\ Len(SubSeq(s, i, j)) = j - i + 1
      /\ \A k \in 1 .. j - i + 1 : SubSeq(s, i, j)[k] = s[i + k - 1]
  BY <1>1, SubSeqProperties
<1>3. IsBytes(SubSeq(s, i, j), j - i + 1)
  BY <1>2, SequenceBytes
<1>4. QED
  BY <1>2, <1>3

-----------------------------------------------------------------------------
(* Padding. *)

(* How many zero bytes there are. *)
ZeroPad(length) == (56 + 64 - ((length + 1) % 64)) % 64

(* They fill the last block. *)
LEMMA ZeroPadFills ==
  ASSUME NEW length \in Nat
  PROVE  /\ ZeroPad(length) \in 0 .. 63
         /\ (length + 1 + ZeroPad(length) + 8) % 64 = 0
BY DEF ZeroPad

(* And no other number below 64 does. *)
LEMMA ZeroPadUnique ==
  ASSUME NEW length \in Nat, NEW z \in 0 .. 63,
         (length + 1 + z + 8) % 64 = 0
  PROVE  z = ZeroPad(length)
BY DEF ZeroPad

(* The padding, byte by byte. *)
LEMMA PaddingBytes ==
  ASSUME NEW length \in Nat
  PROVE  LET z == ZeroPad(length)
             padding == padding_for_bit_length(8 * length)
         IN /\ IsBytes(padding, z + 9)
            /\ \A k \in 1 .. z + 9 :
                 padding[k] = IF k = 1 THEN Number(128)
                              ELSE IF k <= z + 1 THEN Number(0)
                              ELSE Number(ByteOf(8 * length, z + 9 - k))
<1> DEFINE z == ZeroPad(length)
           bits == 8 * length
           mark == <<Number(128)>>
           zeros == [k \in 1 .. z |-> Number(0)]
           size == [k \in 1 .. 8 |-> Number(ByteOf(bits, 8 - k))]
           padding == mark \o zeros \o size
<1>1. z \in Nat
  <2>1. ZeroPad(length) \in 0 .. 63
    BY ZeroPadFills
  <2>2. QED
    BY <2>1
<1>2. padding_for_bit_length(bits) = padding
  <2>1. bits \div 8 = length
    OBVIOUS
  <2> HIDE DEF bits
  <2>2. QED
    BY <2>1, Zenon DEF padding_for_bit_length, ZeroPad
<1> HIDE DEF z, bits
<1>3. IsBytes(mark, 1) /\ mark[1] = Number(128)
  <2>1. mark = [k \in 1 .. 1 |-> mark[k]]
    OBVIOUS
  <2>2. QED
    BY <2>1, FormString
<1>4. IsBytes(zeros, z) /\ \A k \in 1 .. z : zeros[k] = Number(0)
  <2>1. zeros = [k \in 1 .. z |-> zeros[k]]
    OBVIOUS
  <2>2. QED
    BY <1>1, <2>1, FormString
<1>5. IsBytes(size, 8) /\ \A k \in 1 .. 8 : size[k] = Number(ByteOf(bits, 8 - k))
  <2>1. size = [k \in 1 .. 8 |-> size[k]]
    OBVIOUS
  <2>2. QED
    BY <2>1, FormString
<1> HIDE DEF mark, zeros, size
<1>6. IsJoin(mark \o zeros, mark, zeros) /\ IsJoin(padding, mark \o zeros, size)
  BY Zenon DEF IsJoin
<1> HIDE DEF padding
<1>7. /\ IsBytes(padding, 1 + z + 8)
      /\ \A k \in 1 .. 1 + z + 8 :
           padding[k] = IF k <= 1 THEN mark[k]
                        ELSE IF k <= 1 + z THEN zeros[k - 1]
                        ELSE size[k - (1 + z)]
  <2>1. PICK s : s = mark \o zeros
    OBVIOUS
  <2>2. IsJoin(s, mark, zeros) /\ IsJoin(padding, s, size)
    BY <2>1, <1>6
  <2>3. QED
    BY <2>2, <1>1, <1>3, <1>4, <1>5, JoinedThree
<1>8. ASSUME NEW k \in 1 .. z + 9
      PROVE  padding[k] = IF k = 1 THEN Number(128)
                          ELSE IF k <= z + 1 THEN Number(0)
                          ELSE Number(ByteOf(bits, z + 9 - k))
  <2>0. k \in 1 .. 1 + z + 8
    BY <1>1
  <2>1. CASE k = 1
    BY <2>0, <2>1, <1>1, <1>3, <1>7
  <2>2. CASE k \in 2 .. z + 1
    <3>1. k - 1 \in 1 .. z /\ padding[k] = zeros[k - 1]
      BY <2>0, <2>2, <1>1, <1>7
    <3>2. padding[k] = Number(0)
      BY <3>1, <1>4
    <3>3. QED
      BY <3>2, <2>2, <1>1
  <2>3. CASE k \in z + 2 .. z + 9
    <3>1. padding[k] = size[k - (1 + z)]
      BY <2>0, <2>3, <1>1, <1>7
    <3>2. k - (1 + z) \in 1 .. 8 /\ 8 - (k - (1 + z)) = z + 9 - k
      BY <2>3, <1>1
    <3>3. size[k - (1 + z)] = Number(ByteOf(bits, z + 9 - k))
      BY <3>2, <1>5
    <3>4. ~(k = 1) /\ ~(k <= z + 1)
      BY <2>3, <1>1
    <3>5. QED
      BY <3>1, <3>3, <3>4
  <2>4. QED
    BY <2>1, <2>2, <2>3, <1>1
<1>9. 1 + z + 8 = z + 9
  BY <1>1
<1>10. IsBytes(padding, z + 9)
  BY <1>7, <1>9
<1>11. QED
  BY <1>2, <1>8, <1>10 DEF z, bits

(* The miner's padding is the one of FIPS 180-4. *)
LEMMA FipsPadding ==
  ASSUME NEW n \in Nat, NEW data, IsBytes(data, n)
  PROVE  FipsPadded(data) = data \o padding_for_bit_length(8 * n)
<1> DEFINE z == ZeroPad(n)
           tail == [i \in 1 .. z + 9 |->
                      IF i = 1 THEN Number(128)
                      ELSE IF i <= z + 1 THEN Number(0)
                      ELSE Number(ByteOf(8 * n, z + 9 - i))]
<1>1. Len(data) = n
  BY DEF IsBytes
<1>2. z \in 0 .. 63 /\ (n + 1 + z + 8) % 64 = 0
  BY ZeroPadFills
<1>3. \A k \in 0 .. 63 : (n + 1 + k + 8) % 64 = 0 => k = z
  BY ZeroPadUnique
<1>4. (CHOOSE y \in 0 .. 63 : (Len(data) + 1 + y + 8) % 64 = 0) = z
  <2> HIDE DEF z
  <2>1. QED
    BY <1>1, <1>2, <1>3
<1>5. FipsPadded(data) = data \o tail
  <2> DEFINE k == CHOOSE y \in 0 .. 63 : (Len(data) + 1 + y + 8) % 64 = 0
             padding == [i \in 1 .. k + 9 |->
                           IF i = 1 THEN Number(128)
                           ELSE IF i <= k + 1 THEN Number(0)
                           ELSE Number(ByteOf(8 * Len(data), k + 9 - i))]
  <2>1. FipsPadded(data) = data \o padding
    BY Zenon DEF FipsPadded
  <2>2. k = z
    BY <1>4
  <2> HIDE DEF k, z
  <2>3. padding = tail
    BY <1>1, <2>2
  <2>4. QED
    BY <2>1, <2>3
<1>6. padding_for_bit_length(8 * n) = tail
  <2>1. z + 9 \in Nat
    BY <1>2
  <2>2. tail = [k \in 1 .. z + 9 |-> tail[k]]
    OBVIOUS
  <2>3. IsBytes(tail, z + 9)
    BY <2>1, <2>2, FormString
  <2>4. /\ IsBytes(padding_for_bit_length(8 * n), z + 9)
        /\ \A k \in 1 .. z + 9 : padding_for_bit_length(8 * n)[k] = tail[k]
    BY PaddingBytes
  <2> HIDE DEF z, tail
  <2>5. QED
    BY <2>1, <2>3, <2>4, SameBytes
<1>7. QED
  BY <1>5, <1>6

(* So the two hash functions are one. *)
LEMMA SameHash ==
  ASSUME NEW n \in Nat, NEW data, IsBytes(data, n)
  PROVE  sha256_impl(data) = FipsHash(data)
<1>1. Len(data) = n
  BY DEF IsBytes
<1>2. QED
  BY <1>1, FipsPadding DEF sha256_impl, FipsHash

-----------------------------------------------------------------------------
(* Words and blocks. *)

(* The words of a byte string. *)
LEMMA WordsOf ==
  ASSUME NEW n \in Nat, NEW s, IsBytes(s, 4 * n)
  PROVE  /\ IsBytes(Words(s), n)
         /\ \A i \in 1 .. n : IsBytes(Words(s)[i], 4)
         /\ \A i \in 1 .. n, b \in 1 .. 4 : Words(s)[i][b] = s[4 * i - 4 + b]
<1>1. Len(s) = 4 * n /\ Len(s) \div 4 = n /\ 4 * n \in Nat
  BY DEF IsBytes
<1>2. Words(s) = [i \in 1 .. n |-> SubSeq(s, 4 * i - 3, 4 * i)]
  BY <1>1, Zenon DEF Words
<1>3. ASSUME NEW i \in 1 .. n
      PROVE  /\ IsBytes(Words(s)[i], 4)
             /\ \A b \in 1 .. 4 : Words(s)[i][b] = s[4 * i - 4 + b]
  <2>1. PICK j, k : j = 4 * i - 3 /\ k = 4 * i
    OBVIOUS
  <2>2. PICK w : w = SubSeq(s, j, k)
    OBVIOUS
  <2>3. j \in 1 .. 4 * n /\ k \in j .. 4 * n /\ k - j + 1 = 4
    BY <2>1
  <2>4. Words(s)[i] = w
    BY <1>2, <2>1, <2>2, Zenon
  <2>5. IsBytes(w, 4) /\ \A b \in 1 .. 4 : w[b] = s[j + b - 1]
    <3>1. IsBytes(SubSeq(s, j, k), k - j + 1)
          /\ \A b \in 1 .. k - j + 1 : SubSeq(s, j, k)[b] = s[j + b - 1]
      BY <1>1, <2>3, Part
    <3>2. QED
      BY <3>1, <2>2, <2>3
  <2>6. \A b \in 1 .. 4 : j + b - 1 = 4 * i - 4 + b
    BY <2>1
  <2>7. QED
    BY <2>4, <2>5, <2>6
<1>4. IsBytes(Words(s), n)
  <2>1. PICK f : f = Words(s)
    OBVIOUS
  <2>2. f = [i \in 1 .. n |-> f[i]]
    BY <1>2, <2>1
  <2>3. QED
    BY <2>1, <2>2, FormString
<1>5. QED
  BY <1>3, <1>4

(* Sixteen words of four bytes. *)
IsBlock(block) == IsBytes(block, 16) /\ \A i \in 1 .. 16 : IsBytes(block[i], 4)

(* Blocks with the same bytes are the same. *)
LEMMA SameBlock ==
  ASSUME NEW a, NEW b, IsBlock(a), IsBlock(b),
         \A i \in 1 .. 16, k \in 1 .. 4 : a[i][k] = b[i][k]
  PROVE  a = b
<1>1. ASSUME NEW i \in 1 .. 16
      PROVE  a[i] = b[i]
  <2>1. IsBytes(a[i], 4) /\ IsBytes(b[i], 4) /\ \A k \in 1 .. 4 : a[i][k] = b[i][k]
    BY DEF IsBlock
  <2>2. QED
    BY <2>1, SameBytes
<1>2. QED
  BY <1>1, SameBytes DEF IsBlock

(* A block of a message. *)
LEMMA BlockOf ==
  ASSUME NEW n \in Nat, NEW message, IsBytes(message, n),
         NEW i \in Nat \ {0}, 64 * i <= n
  PROVE  /\ IsBlock(Block(message, i))
         /\ \A j \in 1 .. 16, b \in 1 .. 4 :
              Block(message, i)[j][b] = message[64 * i - 64 + (4 * j - 4 + b)]
<1>1. PICK k, l : k = 64 * i - 63 /\ l = 64 * i
  OBVIOUS
<1>2. PICK s : s = SubSeq(message, k, l)
  OBVIOUS
<1>3. k \in 1 .. n /\ l \in k .. n /\ l - k + 1 = 64
  BY <1>1
<1>4. IsBytes(s, 64) /\ \A b \in 1 .. 64 : s[b] = message[k + b - 1]
  <2>1. IsBytes(SubSeq(message, k, l), l - k + 1)
        /\ \A b \in 1 .. l - k + 1 : SubSeq(message, k, l)[b] = message[k + b - 1]
    BY <1>3, Part, SMTT(60)
  <2>2. QED
    BY <2>1, <1>2, <1>3
<1>5. Block(message, i) = Words(s)
  BY <1>1, <1>2, Zenon DEF Block
<1>6. /\ IsBytes(Words(s), 16)
      /\ \A j \in 1 .. 16 : IsBytes(Words(s)[j], 4)
      /\ \A j \in 1 .. 16, b \in 1 .. 4 : Words(s)[j][b] = s[4 * j - 4 + b]
  <2>1. 4 * 16 = 64 /\ 16 \in Nat
    OBVIOUS
  <2>2. IsBytes(s, 4 * 16)
    BY <1>4, <2>1
  <2>3. QED
    BY <2>1, <2>2, WordsOf
<1>7. ASSUME NEW j \in 1 .. 16, NEW b \in 1 .. 4
      PROVE  Words(s)[j][b] = message[64 * i - 64 + (4 * j - 4 + b)]
  <2>1. 4 * j - 4 + b \in 1 .. 64
    OBVIOUS
  <2>2. s[4 * j - 4 + b] = message[k + (4 * j - 4 + b) - 1]
    BY <2>1, <1>4
  <2>3. k + (4 * j - 4 + b) - 1 = 64 * i - 64 + (4 * j - 4 + b)
    BY <1>1
  <2>4. QED
    BY <2>2, <2>3, <1>6
<1>8. QED
  BY <1>5, <1>6, <1>7 DEF IsBlock

(* The chain of a message of one or two blocks. *)
LEMMA TwoBlocks ==
  ASSUME NEW n \in 1 .. 2, NEW message, IsBytes(message, 64 * n)
  PROVE  LET first == compress_block(initial_state, Block(message, 1))
         IN compress_blocks(message)
              = IF n = 1 THEN first ELSE compress_block(first, Block(message, 2))
<1> DEFINE first == compress_block(initial_state, Block(message, 1))
           second == compress_block(first, Block(message, 2))
           Chain(g) == [i \in 0 .. n |->
                          IF i = 0 THEN initial_state
                          ELSE compress_block(g[i - 1], Block(message, i))]
           witness == [i \in 0 .. n |->
                         IF i = 0 THEN initial_state ELSE IF i = 1 THEN first ELSE second]
           digest == CHOOSE g : g = Chain(g)
<1>1. Len(message) \div 64 = n
  BY DEF IsBytes
<1>2. compress_blocks(message) = digest[n]
  BY <1>1, Zenon DEF compress_blocks
<1>3. witness = Chain(witness)
  <2> HIDE DEF second
  <2>1. ASSUME NEW i \in 0 .. n
        PROVE  witness[i] = IF i = 0 THEN initial_state
                            ELSE compress_block(witness[i - 1], Block(message, i))
    <3>1. i = 0 \/ i = 1 \/ i = 2
      OBVIOUS
    <3>2. CASE i = 0
      BY <3>2
    <3>3. CASE i = 1
      BY <3>3
    <3>4. CASE i = 2
      <4>1. witness[2] = second /\ witness[1] = first
        BY <3>4
      <4>2. QED
        BY <4>1, <3>4 DEF second
    <3>5. QED
      BY <3>1, <3>2, <3>3, <3>4
  <2>2. QED
    BY <2>1
<1>4. digest = Chain(digest)
  <2>1. \E g : g = Chain(g)
    BY <1>3
  <2> HIDE DEF Chain, witness
  <2>2. QED
    BY <2>1
<1> HIDE DEF digest, witness
<1>5. digest[0] = initial_state
  BY <1>4
<1>6. digest[1] = first
  BY <1>4, <1>5
<1>7. n = 2 => digest[2] = second
  BY <1>4, <1>6
<1>8. QED
  BY <1>2, <1>6, <1>7

-----------------------------------------------------------------------------
(* The second hash. *)

(* The bytes of a source, as a string. *)
LEMMA BytesOf ==
  ASSUME NEW source, NEW n \in Nat
  PROVE  /\ IsBytes(Bytes(source, n), n)
         /\ \A k \in 1 .. n : Bytes(source, n)[k] = <<source, k>>
<1>1. Bytes(source, n) = [k \in 1 .. n |-> Bytes(source, n)[k]]
  BY DEF Bytes
<1>2. IsBytes(Bytes(source, n), n)
  BY <1>1, FormString
<1>3. QED
  BY <1>2 DEF Bytes

(* A word of known numbers. *)
LEMMA WordBytes ==
  ASSUME NEW b3, NEW b2, NEW b1, NEW b0
  PROVE  LET w == Word(b3, b2, b1, b0)
         IN /\ IsBytes(w, 4)
            /\ w[1] = Number(b3) /\ w[2] = Number(b2)
            /\ w[3] = Number(b1) /\ w[4] = Number(b0)
<1>1. PICK w : w = Word(b3, b2, b1, b0)
  OBVIOUS
<1>2. w = [k \in 1 .. 4 |-> w[k]]
  BY <1>1 DEF Word
<1>3. IsBytes(w, 4)
  BY <1>2, FormString
<1>4. QED
  BY <1>1, <1>3 DEF Word

(* A single one, and several of the same. *)
LEMMA OneAndMany ==
  ASSUME NEW w, NEW n \in Nat
  PROVE  /\ IsBytes(<<w>>, 1) /\ <<w>>[1] = w
         /\ IsBytes([i \in 1 .. n |-> w], n)
<1>1. PICK s, t : s = <<w>> /\ t = [i \in 1 .. n |-> w]
  OBVIOUS
<1>2. s = [k \in 1 .. 1 |-> s[k]] /\ t = [k \in 1 .. n |-> t[k]]
  BY <1>1
<1>3. IsBytes(s, 1) /\ IsBytes(t, n)
  BY <1>2, FormString
<1>4. QED
  BY <1>1, <1>3

(* The padded block of a digest, word by word. *)
LEMMA PaddedBlockWords ==
  ASSUME NEW digest
  PROVE  LET p == digest_words_to_padded_block(digest)
         IN /\ IsBytes(p, 16)
            /\ \A i \in 1 .. 16 :
                 p[i] = IF i <= 8 THEN Words(Bytes(digest, 32))[i]
                        ELSE IF i = 9 THEN Word(128, 0, 0, 0)
                        ELSE IF i <= 15 THEN Word(0, 0, 0, 0)
                        ELSE Word(0, 0, 1, 0)
<1>1. PICK a, b, c, d :
        /\ a = Words(Bytes(digest, 32)) /\ b = <<Word(128, 0, 0, 0)>>
        /\ c = [i \in 1 .. 6 |-> Word(0, 0, 0, 0)] /\ d = <<Word(0, 0, 1, 0)>>
  OBVIOUS
<1>2. PICK ab, abc, p : ab = a \o b /\ abc = ab \o c /\ p = abc \o d
  OBVIOUS
<1>3. p = digest_words_to_padded_block(digest)
  BY <1>1, <1>2, Zenon DEF digest_words_to_padded_block
<1>4. IsJoin(ab, a, b) /\ IsJoin(abc, ab, c) /\ IsJoin(p, abc, d)
  BY <1>2 DEF IsJoin
<1>5. IsBytes(a, 8)
  <2>1. 4 * 8 = 32 /\ 8 \in Nat /\ 32 \in Nat
    OBVIOUS
  <2>2. IsBytes(Bytes(digest, 32), 4 * 8)
    BY <2>1, BytesOf
  <2>3. QED
    BY <2>1, <2>2, <1>1, WordsOf
<1>6. /\ IsBytes(b, 1) /\ b[1] = Word(128, 0, 0, 0)
      /\ IsBytes(d, 1) /\ d[1] = Word(0, 0, 1, 0)
  BY <1>1, OneAndMany
<1>7. IsBytes(c, 6) /\ \A i \in 1 .. 6 : c[i] = Word(0, 0, 0, 0)
  <2>1. 6 \in Nat
    OBVIOUS
  <2>2. IsBytes(c, 6)
    BY <2>1, <1>1, OneAndMany
  <2>3. QED
    BY <2>2, <1>1
<1>8. /\ IsBytes(abc, 15)
      /\ \A k \in 1 .. 15 :
           abc[k] = IF k <= 8 THEN a[k] ELSE IF k <= 9 THEN b[k - 8] ELSE c[k - 9]
  <2>1. PICK l, m, n \in Nat : l = 8 /\ m = 1 /\ n = 6
    OBVIOUS
  <2>2. /\ IsBytes(abc, l + m + n)
        /\ \A k \in 1 .. l + m + n :
             abc[k] = IF k <= l THEN a[k]
                      ELSE IF k <= l + m THEN b[k - l] ELSE c[k - (l + m)]
    BY <2>1, <1>4, <1>5, <1>6, <1>7, JoinedThree
  <2>3. l = 8 /\ l + m = 9 /\ l + m + n = 15
    BY <2>1
  <2>4. QED
    BY <2>2, <2>3
<1>9. /\ IsBytes(p, 16)
      /\ \A k \in 1 .. 16 : p[k] = IF k <= 15 THEN abc[k] ELSE d[k - 15]
  <2>1. PICK m, n \in Nat : m = 15 /\ n = 1
    OBVIOUS
  <2>2. /\ IsBytes(p, m + n)
        /\ \A k \in 1 .. m + n : p[k] = IF k <= m THEN abc[k] ELSE d[k - m]
    BY <2>1, <1>4, <1>6, <1>8, Joined
  <2>3. m + n = 16
    BY <2>1
  <2>4. QED
    BY <2>1, <2>2, <2>3
<1>10. ASSUME NEW i \in 1 .. 16
       PROVE  p[i] = IF i <= 8 THEN Words(Bytes(digest, 32))[i]
                     ELSE IF i = 9 THEN Word(128, 0, 0, 0)
                     ELSE IF i <= 15 THEN Word(0, 0, 0, 0)
                     ELSE Word(0, 0, 1, 0)
  <2>1. CASE i <= 8
    BY <2>1, <1>1, <1>8, <1>9
  <2>2. CASE i = 9
    BY <2>2, <1>6, <1>8, <1>9
  <2>3. CASE i \in 10 .. 15
    BY <2>3, <1>7, <1>8, <1>9
  <2>4. CASE i = 16
    BY <2>4, <1>6, <1>9
  <2>5. QED
    BY <2>1, <2>2, <2>3, <2>4
<1>11. QED
  BY <1>3, <1>9, <1>10

(* A digest with the padding of its 256 bits. *)
LEMMA PaddedDigest ==
  ASSUME NEW digest, NEW m,
         IsJoin(m, Bytes(digest, 32), padding_for_bit_length(256))
  PROVE  /\ IsBytes(m, 64)
         /\ \A k \in 1 .. 32 : m[k] = <<digest, k>>
         /\ m[33] = Number(128)
         /\ \A k \in 34 .. 64 : m[k] = Number(IF k = 63 THEN 1 ELSE 0)
<1>1. PICK length \in Nat : length = 32
  OBVIOUS
<1>2. ZeroPad(length) = 23
  BY <1>1 DEF ZeroPad
<1>3. PICK p : p = padding_for_bit_length(8 * length)
  OBVIOUS
<1>4. /\ IsBytes(p, 32)
      /\ \A k \in 1 .. 32 :
           p[k] = IF k = 1 THEN Number(128)
                  ELSE IF k <= 24 THEN Number(0)
                  ELSE Number(ByteOf(256, 32 - k))
  <2>1. 8 * length = 256
    BY <1>1
  <2>2. PICK z : z = 23
    OBVIOUS
  <2>3. /\ IsBytes(p, z + 9)
        /\ \A k \in 1 .. z + 9 :
             p[k] = IF k = 1 THEN Number(128)
                    ELSE IF k <= z + 1 THEN Number(0)
                    ELSE Number(ByteOf(8 * length, z + 9 - k))
    BY <1>2, <1>3, <2>2, PaddingBytes, ZenonT(60)
  <2>4. z + 9 = 32 /\ z + 1 = 24
    BY <2>2
  <2>5. ASSUME NEW k \in 1 .. 32
        PROVE  p[k] = IF k = 1 THEN Number(128)
                      ELSE IF k <= 24 THEN Number(0)
                      ELSE Number(ByteOf(256, 32 - k))
    <3>1. k \in 1 .. z + 9 /\ z + 9 - k = 32 - k
      BY <2>2
    <3>2. QED
      BY <3>1, <2>1, <2>3, <2>4
  <2>6. IsBytes(p, 32)
    BY <2>3, <2>4
  <2>7. QED
    BY <2>5, <2>6
<1>5. PICK a : a = Bytes(digest, length)
  OBVIOUS
<1>6. IsBytes(a, length) /\ \A k \in 1 .. length : a[k] = <<digest, k>>
  BY <1>5, BytesOf
<1>7. IsJoin(m, a, p)
  <2>1. 8 * length = 256
    BY <1>1
  <2>2. QED
    BY <2>1, <1>1, <1>3, <1>5
<1>8. /\ IsBytes(m, length + length)
      /\ \A k \in 1 .. length + length :
           m[k] = IF k <= length THEN a[k] ELSE p[k - length]
  <2>1. IsBytes(p, length)
    BY <1>1, <1>4
  <2>2. QED
    BY <2>1, <1>6, <1>7, Joined
<1>9. \A k \in 1 .. 32 : m[k] = <<digest, k>>
  BY <1>1, <1>6, <1>8
<1>10. \A k \in 33 .. 64 : m[k] = p[k - 32]
  BY <1>1, <1>8
<1>11. ByteOf(256, 1) = 1 /\ \A k \in {0, 2, 3, 4, 5, 6, 7} : ByteOf(256, k) = 0
  BY DEF ByteOf
<1>12. ASSUME NEW k \in 34 .. 64
       PROVE  m[k] = Number(IF k = 63 THEN 1 ELSE 0)
  <2>1. m[k] = p[k - 32] /\ k - 32 \in 2 .. 32
    BY <1>10
  <2>2. CASE k <= 56
    BY <2>1, <2>2, <1>4
  <2>3. CASE k = 63
    BY <2>1, <2>3, <1>4, <1>11
  <2>4. CASE k \in (57 .. 64) \ {63}
    <3>1. m[k] = Number(ByteOf(256, 32 - (k - 32)))
      BY <2>1, <2>4, <1>4
    <3>2. 32 - (k - 32) \in {0, 2, 3, 4, 5, 6, 7}
      BY <2>4
    <3>3. QED
      BY <3>1, <3>2, <2>4, <1>11
  <2>5. QED
    BY <2>2, <2>3, <2>4
<1>13. m[33] = Number(128)
  BY <1>4, <1>10
<1>14. QED
  BY <1>1, <1>8, <1>9, <1>12, <1>13

(* The block padded by hand is the block of FIPS 180-4. *)
LEMMA SecondHash ==
  ASSUME NEW digest
  PROVE  FipsHash(Bytes(digest, 32)) = hash_digest_words(digest)
<1>1. PICK d, p, m : /\ d = Bytes(digest, 32)
                     /\ p = padding_for_bit_length(256)
                     /\ m = d \o p
  OBVIOUS
<1>2. FipsHash(d) = compress_blocks(m)
  <2>1. PICK n \in Nat : n = 32
    OBVIOUS
  <2>2. IsBytes(d, n) /\ 8 * n = 256
    BY <1>1, <2>1, BytesOf
  <2>3. FipsPadded(d) = d \o padding_for_bit_length(8 * n)
    BY <2>2, FipsPadding, Zenon
  <2>4. FipsPadded(d) = m
    BY <1>1, <2>2, <2>3, Zenon
  <2>5. QED
    BY <2>4, Zenon DEF FipsHash
<1>3. IsJoin(m, Bytes(digest, 32), padding_for_bit_length(256))
  BY <1>1, Zenon DEF IsJoin
<1>4. /\ IsBytes(m, 64)
      /\ \A k \in 1 .. 32 : m[k] = <<digest, k>>
      /\ m[33] = Number(128)
      /\ \A k \in 34 .. 64 : m[k] = Number(IF k = 63 THEN 1 ELSE 0)
  BY <1>3, PaddedDigest
<1>5. compress_blocks(m) = compress_block(initial_state, Block(m, 1))
  <2>1. PICK n \in 1 .. 2 : n = 1
    OBVIOUS
  <2>2. IsBytes(m, 64 * n)
    BY <1>4, <2>1
  <2>3. QED
    BY <2>1, <2>2, TwoBlocks
<1>6. PICK block : block = digest_words_to_padded_block(digest)
  OBVIOUS
<1>7. /\ IsBytes(block, 16)
      /\ \A i \in 1 .. 16 :
           block[i] = IF i <= 8 THEN Words(d)[i]
                      ELSE IF i = 9 THEN Word(128, 0, 0, 0)
                      ELSE IF i <= 15 THEN Word(0, 0, 0, 0)
                      ELSE Word(0, 0, 1, 0)
  BY <1>1, <1>6, PaddedBlockWords
<1>8. /\ IsBlock(Block(m, 1))
      /\ \A j \in 1 .. 16, b \in 1 .. 4 : Block(m, 1)[j][b] = m[4 * j - 4 + b]
  <2>1. PICK i \in Nat \ {0}, n \in Nat : i = 1 /\ n = 64
    OBVIOUS
  <2>2. IsBytes(m, n) /\ 64 * i <= n
    BY <1>4, <2>1
  <2>3. /\ IsBlock(Block(m, i))
        /\ \A j \in 1 .. 16, b \in 1 .. 4 :
             Block(m, i)[j][b] = m[64 * i - 64 + (4 * j - 4 + b)]
    BY <2>1, <2>2, BlockOf
  <2>4. \A k \in Int : 64 * i - 64 + k = k
    BY <2>1
  <2>5. QED
    BY <2>1, <2>3, <2>4
<1>9. ASSUME NEW i \in 1 .. 16
      PROVE  /\ IsBytes(block[i], 4)
             /\ \A b \in 1 .. 4 : block[i][b] = m[4 * i - 4 + b]
  <2>1. CASE i <= 8
    <3>1. block[i] = Words(d)[i] /\ i \in 1 .. 8
      BY <2>1, <1>7
    <3>2. IsBytes(Words(d)[i], 4) /\ \A b \in 1 .. 4 : Words(d)[i][b] = d[4 * i - 4 + b]
      <4>1. PICK n \in Nat : n = 8
        OBVIOUS
      <4>2. PICK l \in Nat : l = 32
        OBVIOUS
      <4>3. IsBytes(d, l) /\ 4 * n = l
        BY <4>1, <4>2, <1>1, BytesOf
      <4>4. IsBytes(d, 4 * n) /\ i \in 1 .. n
        BY <4>1, <4>3, <3>1
      <4>5. QED
        BY <4>4, WordsOf
    <3>3. ASSUME NEW b \in 1 .. 4
          PROVE  d[4 * i - 4 + b] = m[4 * i - 4 + b]
      <4>1. 4 * i - 4 + b \in 1 .. 32
        BY <3>1
      <4>2. PICK l \in Nat : l = 32
        OBVIOUS
      <4>3. d[4 * i - 4 + b] = <<digest, 4 * i - 4 + b>>
        BY <4>1, <4>2, <1>1, BytesOf
      <4>4. QED
        BY <4>1, <4>3, <1>4
    <3>4. QED
      BY <3>1, <3>2, <3>3
  <2>2. CASE i = 9
    <3>1. block[i] = Word(128, 0, 0, 0)
      BY <2>2, <1>7
    <3>2. QED
      BY <2>2, <3>1, <1>4, WordBytes
  <2>3. CASE i \in 10 .. 15
    <3>1. block[i] = Word(0, 0, 0, 0)
      BY <2>3, <1>7
    <3>2. \A b \in 1 .. 4 : 4 * i - 4 + b \in 34 .. 60
      BY <2>3
    <3>3. \A b \in 1 .. 4 : m[4 * i - 4 + b] = Number(0)
      BY <3>2, <1>4
    <3>4. QED
      BY <3>1, <3>3, WordBytes
  <2>4. CASE i = 16
    <3>1. block[i] = Word(0, 0, 1, 0)
      BY <2>4, <1>7
    <3>2. QED
      BY <2>4, <3>1, <1>4, WordBytes
  <2>5. QED
    BY <2>1, <2>2, <2>3, <2>4
<1>10. block = Block(m, 1)
  <2>1. IsBlock(block)
    BY <1>7, <1>9 DEF IsBlock
  <2>2. ASSUME NEW i \in 1 .. 16, NEW k \in 1 .. 4
        PROVE  block[i][k] = Block(m, 1)[i][k]
    <3>1. block[i][k] = m[4 * i - 4 + k]
      BY <1>9
    <3>2. Block(m, 1)[i][k] = m[4 * i - 4 + k]
      BY <1>8
    <3>3. QED
      BY <3>1, <3>2, Zenon
  <2>3. QED
    BY <2>1, <2>2, <1>8, SameBlock, ZenonT(40)
<1>11. QED
  BY <1>1, <1>2, <1>5, <1>6, <1>10 DEF hash_digest_words

(* The miner's double hash is the pool's, for every string of bytes. *)
THEOREM SameDoubleHash ==
  ASSUME NEW n \in Nat, NEW data, IsBytes(data, n)
  PROVE  /\ dbl_sha256_bytes(data) = FipsDouble(data)
         /\ IsBytes(dbl_sha256_bytes(data), 32)
<1>1. sha256_impl(data) = FipsHash(data)
  BY SameHash
<1>2. dbl_sha256_bytes(data) = Bytes(hash_digest_words(FipsHash(data)), 32)
  BY <1>1 DEF dbl_sha256_bytes, dbl_sha256_words, digest_words_to_bytes_be
<1>3. FipsHash(Bytes(FipsHash(data), 32)) = hash_digest_words(FipsHash(data))
  BY SecondHash
<1>4. 32 \in Nat
  OBVIOUS
<1>5. QED
  BY <1>2, <1>3, <1>4, BytesOf DEF FipsDouble

-----------------------------------------------------------------------------
(* The Merkle root. *)

(* A set of natural numbers has a least element. *)
LEMMA Least ==
  ASSUME NEW T, T \subseteq Nat, T # {}
  PROVE  \E m \in T : \A k \in T : m <= k
<1>1. PICK R : R = OpToRel(<, Nat)
  OBVIOUS
<1>2. \A x, y \in Nat : y < x => <<y, x>> \in R
  BY <1>1 DEF OpToRel
<1>3. IsWellFoundedOn(R, Nat)
  BY <1>1, NatLessThanWellFounded, Zenon
<1>4. PICK m \in T : \A k \in T : ~(<<k, m>> \in R)
  BY <1>3, WFMin, Zenon
<1>5. ASSUME NEW k \in T
      PROVE  m <= k
  <2>1. m \in Nat /\ k \in Nat /\ ~(<<k, m>> \in R)
    BY <1>4
  <2>2. ~(k < m)
    BY <2>1, <1>2
  <2>3. QED
    BY <2>1, <2>2
<1>6. QED
  BY <1>5

(* So a set that has 0, and with each number the next, has them all. *)
LEMMA Induction ==
  ASSUME NEW S, 0 \in S, \A n \in Nat : n \in S => n + 1 \in S
  PROVE  Nat \subseteq S
<1>1. SUFFICES ASSUME Nat \ S # {} PROVE FALSE
  OBVIOUS
<1>2. PICK m \in Nat \ S : \A k \in Nat \ S : m <= k
  <2>1. Nat \ S \subseteq Nat
    OBVIOUS
  <2>2. QED
    BY <1>1, <2>1, Least
<1>3. m # 0
  OBVIOUS
<1>4. m - 1 \in Nat /\ m - 1 \in S
  BY <1>2, <1>3
<1>5. m - 1 + 1 \in S
  BY <1>4
<1>6. QED
  BY <1>2, <1>5

(* What merkle_fold computes on its way up a branch. *)
IsFold(f, n, leaf, branch) ==
  f = [i \in 0 .. n |-> IF i = 0 THEN leaf ELSE dbl_sha256_bytes(f[i - 1] \o branch[i])]

(* It can be computed for every branch. *)
LEMMA FoldExists ==
  ASSUME NEW leaf, NEW branch, NEW n \in Nat
  PROVE  \E f : IsFold(f, n, leaf, branch)
<1> DEFINE S == {k \in Nat : \E f : IsFold(f, k, leaf, branch)}
<1>1. 0 \in S
  <2>1. PICK f : f = [i \in 0 .. 0 |-> leaf]
    OBVIOUS
  <2>2. IsFold(f, 0, leaf, branch)
    BY <2>1 DEF IsFold
  <2>3. QED
    BY <2>2
<1>2. ASSUME NEW k \in Nat, k \in S
      PROVE  k + 1 \in S
  <2>1. PICK f : IsFold(f, k, leaf, branch)
    BY <1>2
  <2>2. PICK next : next = dbl_sha256_bytes(f[k] \o branch[k + 1])
    OBVIOUS
  <2>3. PICK g : g = [i \in 0 .. k + 1 |-> IF i <= k THEN f[i] ELSE next]
    OBVIOUS
  <2>4. ASSUME NEW i \in 0 .. k + 1
        PROVE  g[i] = IF i = 0 THEN leaf ELSE dbl_sha256_bytes(g[i - 1] \o branch[i])
    <3>1. CASE i = 0
      BY <3>1, <2>1, <2>3 DEF IsFold
    <3>2. CASE i \in 1 .. k
      <4>1. g[i] = f[i] /\ g[i - 1] = f[i - 1]
        BY <3>2, <2>3
      <4>2. f[i] = dbl_sha256_bytes(f[i - 1] \o branch[i])
        BY <3>2, <2>1 DEF IsFold
      <4>3. QED
        BY <4>1, <4>2, <3>2
    <3>3. CASE i = k + 1
      <4>1. g[i] = next /\ g[i - 1] = f[k] /\ i # 0
        BY <3>3, <2>3
      <4>2. QED
        BY <4>1, <3>3, <2>2
    <3>4. QED
      BY <3>1, <3>2, <3>3
  <2>5. IsFold(g, k + 1, leaf, branch)
    BY <2>3, <2>4 DEF IsFold
  <2>6. QED
    BY <2>5
<1> HIDE DEF S
<1>3. n \in S
  BY <1>1, <1>2, Induction
<1>4. QED
  BY <1>3 DEF S

(* Every node of such a path is 32 bytes, and what the pool would compute. *)
IsPoolPath(f, n, leaf, branch) ==
  /\ \A i \in 0 .. n : IsBytes(f[i], 32)
  /\ \A i \in 1 .. n : f[i] = FipsDouble(f[i - 1] \o branch[i])

(* Each value on the way is a hash. *)
LEMMA FoldBytes ==
  ASSUME NEW leaf, NEW branch, NEW n \in Nat, NEW f, IsFold(f, n, leaf, branch),
         IsBytes(leaf, 32), \A i \in 1 .. n : IsBytes(branch[i], 32)
  PROVE  IsPoolPath(f, n, leaf, branch)
<1> DEFINE S == {k \in Nat : k <= n => IsBytes(f[k], 32)}
<1>0. f[0] = leaf /\ \A i \in 1 .. n : f[i] = dbl_sha256_bytes(f[i - 1] \o branch[i])
  BY DEF IsFold
<1>1. ASSUME NEW i \in 1 .. n, IsBytes(f[i - 1], 32)
      PROVE  IsBytes(f[i], 32) /\ f[i] = FipsDouble(f[i - 1] \o branch[i])
  <2>1. PICK t : t = f[i - 1] \o branch[i]
    OBVIOUS
  <2>2. IsJoin(t, f[i - 1], branch[i])
    BY <2>1 DEF IsJoin
  <2>3. PICK m, l \in Nat : m = 32 /\ l = m + m
    OBVIOUS
  <2>4. IsBytes(f[i - 1], m) /\ IsBytes(branch[i], m)
    BY <2>3, <1>1
  <2>5. IsBytes(t, l)
    BY <2>2, <2>3, <2>4, Joined
  <2>6. dbl_sha256_bytes(t) = FipsDouble(t) /\ IsBytes(dbl_sha256_bytes(t), 32)
    BY <2>3, <2>5, SameDoubleHash
  <2>7. f[i] = dbl_sha256_bytes(t)
    BY <1>0, <2>1, Zenon
  <2>8. QED
    BY <2>1, <2>6, <2>7, Zenon
<1>2. 0 \in S
  BY <1>0
<1>3. ASSUME NEW k \in Nat, k \in S
      PROVE  k + 1 \in S
  <2>1. SUFFICES ASSUME k + 1 <= n PROVE IsBytes(f[k + 1], 32)
    OBVIOUS
  <2>2. PICK i \in 1 .. n : i = k + 1
    BY <2>1
  <2>3. IsBytes(f[i - 1], 32)
    BY <2>2, <1>3
  <2>4. IsBytes(f[i], 32)
    BY <2>3, <1>1
  <2>5. QED
    BY <2>2, <2>4
<1> HIDE DEF S
<1>4. Nat \subseteq S
  BY <1>2, <1>3, Induction
<1>5. ASSUME NEW i \in 0 .. n
      PROVE  IsBytes(f[i], 32)
  BY <1>4 DEF S
<1>6. ASSUME NEW i \in 1 .. n
      PROVE  f[i] = FipsDouble(f[i - 1] \o branch[i])
  <2>1. i - 1 \in 0 .. n
    OBVIOUS
  <2>2. QED
    BY <2>1, <1>1, <1>5
<1>7. QED
  BY <1>5, <1>6, Zenon DEF IsPoolPath

(* The miner and the pool compute the same Merkle root, however long the   *)
(* branch (merkle.cpp 26-46).                                              *)
THEOREM SameRoot ==
  ASSUME NEW leaf, NEW branch, IsString(branch),
         IsBytes(leaf, 32), \A i \in DOMAIN branch : IsBytes(branch[i], 32)
  PROVE  /\ merkle_fold(leaf, branch) = PoolRoot(leaf, branch)
         /\ IsBytes(merkle_fold(leaf, branch), 32)
<1> DEFINE n == Len(branch)
           Up(g) == [i \in 0 .. n |-> IF i = 0 THEN leaf
                                      ELSE dbl_sha256_bytes(g[i - 1] \o branch[i])]
           PoolUp(g) == [i \in 0 .. n |-> IF i = 0 THEN leaf
                                          ELSE FipsDouble(g[i - 1] \o branch[i])]
           f == CHOOSE g : g = Up(g)
           r == CHOOSE g : g = PoolUp(g)
<1>1. n \in Nat /\ DOMAIN branch = 1 .. n
  BY StringForm
<1>2. merkle_fold(leaf, branch) = f[n] /\ PoolRoot(leaf, branch) = r[n]
  BY Zenon DEF merkle_fold, PoolRoot
<1>3. IsFold(f, n, leaf, branch)
  <2>0. PICK g : IsFold(g, n, leaf, branch)
    <3> HIDE DEF n
    <3>1. QED
      BY <1>1, FoldExists
  <2>1. g = Up(g)
    BY <2>0, Zenon DEF IsFold
  <2> HIDE DEF Up
  <2>2. f = Up(f)
    BY <2>1
  <2>3. QED
    BY <2>2 DEF IsFold, Up
<1> HIDE DEF f
<1>4. /\ \A i \in 0 .. n : IsBytes(f[i], 32)
      /\ \A i \in 1 .. n : f[i] = FipsDouble(f[i - 1] \o branch[i])
  <2> HIDE DEF n
  <2>1. \A i \in 1 .. n : IsBytes(branch[i], 32)
    BY <1>1
  <2>2. IsPoolPath(f, n, leaf, branch)
    BY <1>1, <1>3, <2>1, FoldBytes
  <2>3. QED
    BY <2>2, Zenon DEF IsPoolPath
<1>5. r = PoolUp(r)
  <2> HIDE DEF n
  <2>0. f[0] = leaf /\ f = [i \in 0 .. n |-> f[i]]
    BY <1>1, <1>3 DEF IsFold
  <2>1. ASSUME NEW i \in 0 .. n
        PROVE  f[i] = IF i = 0 THEN leaf ELSE FipsDouble(f[i - 1] \o branch[i])
    <3>1. CASE i = 0
      BY <3>1, <2>0
    <3>2. CASE i # 0
      <4>1. i \in 1 .. n
        BY <3>2, <1>1
      <4>2. QED
        BY <4>1, <3>2, <1>4
    <3>3. QED
      BY <3>1, <3>2
  <2>2. f = PoolUp(f)
    BY <2>0, <2>1
  <2> HIDE DEF PoolUp
  <2>3. QED
    BY <2>2
<1> HIDE DEF r, n
<1> DEFINE S == {k \in Nat : k <= n => r[k] = f[k]}
<1>6. 0 \in S
  BY <1>1, <1>3, <1>5 DEF IsFold
<1>7. ASSUME NEW k \in Nat, k \in S
      PROVE  k + 1 \in S
  <2>1. SUFFICES ASSUME k + 1 <= n PROVE r[k + 1] = f[k + 1]
    OBVIOUS
  <2>2. PICK i \in 1 .. n : i = k + 1
    BY <2>1, <1>1
  <2>3. r[i - 1] = f[i - 1]
    BY <2>2, <1>7, <1>1
  <2>4. r[i] = FipsDouble(r[i - 1] \o branch[i])
    BY <1>1, <1>5
  <2>5. r[i] = f[i]
    BY <2>3, <2>4, <1>4, Zenon
  <2>6. QED
    BY <2>2, <2>5
<1> HIDE DEF S
<1>8. n \in S
  BY <1>1, <1>6, <1>7, Induction
<1>9. r[n] = f[n] /\ IsBytes(f[n], 32)
  BY <1>1, <1>4, <1>8 DEF S
<1>10. QED
  BY <1>2, <1>9

-----------------------------------------------------------------------------
(* The header. *)

(* A string whose words are turned round. *)
LEMMA SwappedBytes ==
  ASSUME NEW n \in Nat, NEW s, IsBytes(s, 4 * n)
  PROVE  /\ IsBytes(byteswap_each_u32(s), 4 * n)
         /\ \A q \in 0 .. n - 1, b \in 1 .. 4 :
              byteswap_each_u32(s)[4 * q + b] = s[4 * q + 5 - b]
<1>1. DOMAIN s = 1 .. 4 * n
  BY StringForm DEF IsBytes
<1>2. PICK t : t = byteswap_each_u32(s)
  OBVIOUS
<1>3. t = [k \in 1 .. 4 * n |-> s[4 * ((k - 1) \div 4) + 4 - ((k - 1) % 4)]]
  BY <1>1, <1>2 DEF byteswap_each_u32
<1>4. IsBytes(t, 4 * n)
  <2>1. t = [k \in 1 .. 4 * n |-> t[k]]
    BY <1>3
  <2>2. 4 * n \in Nat
    OBVIOUS
  <2>3. QED
    BY <2>1, <2>2, FormString
<1>5. ASSUME NEW q \in 0 .. n - 1, NEW b \in 1 .. 4
      PROVE  t[4 * q + b] = s[4 * q + 5 - b]
  <2>1. PICK k : k = 4 * q + b
    OBVIOUS
  <2>2. k \in 1 .. 4 * n
    BY <2>1
  <2>3. (k - 1) \div 4 = q /\ (k - 1) % 4 = b - 1
    BY <2>1
  <2>4. 4 * ((k - 1) \div 4) + 4 - ((k - 1) % 4) = 4 * q + 5 - b
    BY <2>3
  <2>5. t[k] = s[4 * q + 5 - b]
    BY <1>3, <2>2, <2>4
  <2>6. QED
    BY <2>1, <2>5
<1>6. QED
  BY <1>2, <1>4, <1>5

(* One word turned round. *)
LEMMA ReversedBytes ==
  ASSUME NEW s, IsBytes(s, 4)
  PROVE  IsBytes(Reverse(s), 4) /\ \A b \in 1 .. 4 : Reverse(s)[b] = s[5 - b]
<1>1. PICK t : t = Reverse(s)
  OBVIOUS
<1>2. t = [i \in 1 .. 4 |-> s[(4 - i) + 1]]
  BY <1>1 DEF Reverse, IsBytes
<1>3. t = [i \in 1 .. 4 |-> t[i]]
  BY <1>2
<1>4. IsBytes(t, 4)
  BY <1>3, FormString
<1>5. \A b \in 1 .. 4 : t[b] = s[5 - b]
  BY <1>2
<1>6. QED
  BY <1>1, <1>4, <1>5

(* The fields of a header, in their order. *)
IsHeader(t, a, b, c, d, e, f) == t = a \o b \o c \o d \o e \o f

(* Where each of them lies. *)
LEMMA HeaderLayout ==
  ASSUME NEW a, NEW b, NEW c, NEW d, NEW e, NEW f, NEW t, IsHeader(t, a, b, c, d, e, f),
         IsBytes(a, 4), IsBytes(b, 32), IsBytes(c, 32),
         IsBytes(d, 4), IsBytes(e, 4), IsBytes(f, 4)
  PROVE  /\ IsBytes(t, 80)
         /\ \A k \in 1 .. 4 : t[k] = a[k]
         /\ \A k \in 5 .. 36 : t[k] = b[k - 4]
         /\ \A k \in 37 .. 68 : t[k] = c[k - 36]
         /\ \A k \in 69 .. 72 : t[k] = d[k - 68]
         /\ \A k \in 73 .. 76 : t[k] = e[k - 72]
         /\ \A k \in 77 .. 80 : t[k] = f[k - 76]
<1>1. PICK ab, abc, abcd, abcde :
        /\ ab = a \o b /\ abc = ab \o c /\ abcd = abc \o d /\ abcde = abcd \o e
  OBVIOUS
<1>2. /\ IsJoin(ab, a, b) /\ IsJoin(abc, ab, c) /\ IsJoin(abcd, abc, d)
      /\ IsJoin(abcde, abcd, e) /\ IsJoin(t, abcde, f)
  BY <1>1, Zenon DEF IsJoin, IsHeader
<1>3. ASSUME NEW m \in Nat, NEW n \in Nat, NEW l \in Nat, l = m + n,
             NEW x, NEW y, NEW z, IsBytes(x, m), IsBytes(y, n), IsJoin(z, x, y)
      PROVE  /\ IsBytes(z, l)
             /\ \A k \in 1 .. m : z[k] = x[k]
             /\ \A k \in m + 1 .. l : z[k] = y[k - m]
  <2>1. IsBytes(z, m + n) /\ \A k \in 1 .. m + n : z[k] = IF k <= m THEN x[k] ELSE y[k - m]
    BY <1>3, Joined
  <2>2. QED
    BY <2>1, <1>3
<1>4. /\ IsBytes(ab, 36)
      /\ \A k \in 1 .. 4 : ab[k] = a[k]
      /\ \A k \in 5 .. 36 : ab[k] = b[k - 4]
  <2>1. PICK m, n, l \in Nat : m = 4 /\ n = 32 /\ l = 36
    OBVIOUS
  <2>2. IsBytes(a, m) /\ IsBytes(b, n) /\ l = m + n
    BY <2>1
  <2>3. /\ IsBytes(ab, l)
        /\ \A k \in 1 .. m : ab[k] = a[k]
        /\ \A k \in m + 1 .. l : ab[k] = b[k - m]
    BY <2>2, <1>2, <1>3
  <2>4. QED
    BY <2>1, <2>3
<1>5. /\ IsBytes(abc, 68)
      /\ \A k \in 1 .. 36 : abc[k] = ab[k]
      /\ \A k \in 37 .. 68 : abc[k] = c[k - 36]
  <2>1. PICK m, n, l \in Nat : m = 36 /\ n = 32 /\ l = 68
    OBVIOUS
  <2>2. IsBytes(ab, m) /\ IsBytes(c, n) /\ l = m + n
    BY <2>1, <1>4
  <2>3. /\ IsBytes(abc, l)
        /\ \A k \in 1 .. m : abc[k] = ab[k]
        /\ \A k \in m + 1 .. l : abc[k] = c[k - m]
    BY <2>2, <1>2, <1>3
  <2>4. QED
    BY <2>1, <2>3
<1>6. /\ IsBytes(abcd, 72)
      /\ \A k \in 1 .. 68 : abcd[k] = abc[k]
      /\ \A k \in 69 .. 72 : abcd[k] = d[k - 68]
  <2>1. PICK m, n, l \in Nat : m = 68 /\ n = 4 /\ l = 72
    OBVIOUS
  <2>2. IsBytes(abc, m) /\ IsBytes(d, n) /\ l = m + n
    BY <2>1, <1>5
  <2>3. /\ IsBytes(abcd, l)
        /\ \A k \in 1 .. m : abcd[k] = abc[k]
        /\ \A k \in m + 1 .. l : abcd[k] = d[k - m]
    BY <2>2, <1>2, <1>3
  <2>4. QED
    BY <2>1, <2>3
<1>7. /\ IsBytes(abcde, 76)
      /\ \A k \in 1 .. 72 : abcde[k] = abcd[k]
      /\ \A k \in 73 .. 76 : abcde[k] = e[k - 72]
  <2>1. PICK m, n, l \in Nat : m = 72 /\ n = 4 /\ l = 76
    OBVIOUS
  <2>2. IsBytes(abcd, m) /\ IsBytes(e, n) /\ l = m + n
    BY <2>1, <1>6
  <2>3. /\ IsBytes(abcde, l)
        /\ \A k \in 1 .. m : abcde[k] = abcd[k]
        /\ \A k \in m + 1 .. l : abcde[k] = e[k - m]
    BY <2>2, <1>2, <1>3
  <2>4. QED
    BY <2>1, <2>3
<1>8. /\ IsBytes(t, 80)
      /\ \A k \in 1 .. 76 : t[k] = abcde[k]
      /\ \A k \in 77 .. 80 : t[k] = f[k - 76]
  <2>1. PICK m, n, l \in Nat : m = 76 /\ n = 4 /\ l = 80
    OBVIOUS
  <2>2. IsBytes(abcde, m) /\ IsBytes(f, n) /\ l = m + n
    BY <2>1, <1>7
  <2>3. /\ IsBytes(t, l)
        /\ \A k \in 1 .. m : t[k] = abcde[k]
        /\ \A k \in m + 1 .. l : t[k] = f[k - m]
    BY <2>2, <1>2, <1>3
  <2>4. QED
    BY <2>1, <2>3
<1>9. QED
  BY <1>4, <1>5, <1>6, <1>7, <1>8

(* The template of the pool's section 8, flipped, is the miner's header:   *)
(* the Merkle root is flipped twice, every other field once.               *)
LEMMA FlippedHeader ==
  ASSUME NEW a, NEW b, NEW c, NEW d, NEW e, NEW f, NEW t, NEW u,
         IsBytes(a, 4), IsBytes(b, 32), IsBytes(c, 32),
         IsBytes(d, 4), IsBytes(e, 4), IsBytes(f, 4),
         IsHeader(t, a, b, byteswap_each_u32(c), d, e, f),
         IsHeader(u, Reverse(a), byteswap_each_u32(b), c, Reverse(d), Reverse(e), Reverse(f))
  PROVE  /\ byteswap_each_u32(t) = u
         /\ IsBytes(u, 80)
<1>1. PICK bb, cc, ra, rd, re, rf :
        /\ bb = byteswap_each_u32(b) /\ cc = byteswap_each_u32(c)
        /\ ra = Reverse(a) /\ rd = Reverse(d) /\ re = Reverse(e) /\ rf = Reverse(f)
  OBVIOUS
<1>2. PICK n \in Nat : n = 8
  OBVIOUS
<1>3. /\ IsBytes(bb, 32) /\ IsBytes(cc, 32)
      /\ \A q \in 0 .. 7, k \in 1 .. 4 : bb[4 * q + k] = b[4 * q + 5 - k]
      /\ \A q \in 0 .. 7, k \in 1 .. 4 : cc[4 * q + k] = c[4 * q + 5 - k]
  <2>1. 4 * n = 32 /\ 0 .. n - 1 = 0 .. 7
    BY <1>2
  <2>2. IsBytes(b, 4 * n) /\ IsBytes(c, 4 * n)
    BY <2>1
  <2>3. /\ IsBytes(bb, 4 * n)
        /\ \A q \in 0 .. n - 1, k \in 1 .. 4 : bb[4 * q + k] = b[4 * q + 5 - k]
    BY <2>2, <1>1, SwappedBytes
  <2>4. /\ IsBytes(cc, 4 * n)
        /\ \A q \in 0 .. n - 1, k \in 1 .. 4 : cc[4 * q + k] = c[4 * q + 5 - k]
    BY <2>2, <1>1, SwappedBytes
  <2>5. QED
    BY <2>1, <2>3, <2>4
<1>4. /\ IsBytes(ra, 4) /\ \A k \in 1 .. 4 : ra[k] = a[5 - k]
      /\ IsBytes(rd, 4) /\ \A k \in 1 .. 4 : rd[k] = d[5 - k]
      /\ IsBytes(re, 4) /\ \A k \in 1 .. 4 : re[k] = e[5 - k]
      /\ IsBytes(rf, 4) /\ \A k \in 1 .. 4 : rf[k] = f[5 - k]
  BY <1>1, ReversedBytes
<1>5. IsHeader(t, a, b, cc, d, e, f) /\ IsHeader(u, ra, bb, c, rd, re, rf)
  BY <1>1, Zenon
<1>6. /\ IsBytes(t, 80)
      /\ \A k \in 1 .. 4 : t[k] = a[k]
      /\ \A k \in 5 .. 36 : t[k] = b[k - 4]
      /\ \A k \in 37 .. 68 : t[k] = cc[k - 36]
      /\ \A k \in 69 .. 72 : t[k] = d[k - 68]
      /\ \A k \in 73 .. 76 : t[k] = e[k - 72]
      /\ \A k \in 77 .. 80 : t[k] = f[k - 76]
  BY <1>3, <1>5, HeaderLayout
<1>7. /\ IsBytes(u, 80)
      /\ \A k \in 1 .. 4 : u[k] = ra[k]
      /\ \A k \in 5 .. 36 : u[k] = bb[k - 4]
      /\ \A k \in 37 .. 68 : u[k] = c[k - 36]
      /\ \A k \in 69 .. 72 : u[k] = rd[k - 68]
      /\ \A k \in 73 .. 76 : u[k] = re[k - 72]
      /\ \A k \in 77 .. 80 : u[k] = rf[k - 76]
  BY <1>3, <1>4, <1>5, HeaderLayout
<1>8. PICK v : v = byteswap_each_u32(t)
  OBVIOUS
<1>9. /\ IsBytes(v, 80)
      /\ \A q \in 0 .. 19, k \in 1 .. 4 : v[4 * q + k] = t[4 * q + 5 - k]
  <2>1. PICK m \in Nat : m = 20
    OBVIOUS
  <2>2. 4 * m = 80 /\ 0 .. m - 1 = 0 .. 19
    BY <2>1
  <2>3. IsBytes(t, 4 * m)
    BY <1>6, <2>2
  <2>4. /\ IsBytes(v, 4 * m)
        /\ \A q \in 0 .. m - 1, k \in 1 .. 4 : v[4 * q + k] = t[4 * q + 5 - k]
    BY <1>8, <2>3, SwappedBytes
  <2>5. QED
    BY <2>2, <2>4
<1>10. ASSUME NEW q \in 0 .. 19, NEW k \in 1 .. 4
       PROVE  v[4 * q + k] = u[4 * q + k]
  <2>1. v[4 * q + k] = t[4 * q + 5 - k]
    BY <1>9
  <2>2. CASE q = 0
    BY <2>1, <2>2, <1>4, <1>6, <1>7
  <2>3. CASE q \in 1 .. 8
    <3>1. PICK r \in 0 .. 7 : r = q - 1
      BY <2>3
    <3>2. t[4 * q + 5 - k] = b[4 * r + 5 - k]
      BY <2>3, <3>1, <1>6
    <3>3. u[4 * q + k] = bb[4 * r + k]
      BY <2>3, <3>1, <1>7
    <3>4. QED
      BY <2>1, <3>2, <3>3, <1>3
  <2>4. CASE q \in 9 .. 16
    <3>1. PICK r \in 0 .. 7, l \in 1 .. 4 : r = q - 9 /\ l = 5 - k
      BY <2>4
    <3>2. t[4 * q + 5 - k] = cc[4 * r + l]
      BY <2>4, <3>1, <1>6
    <3>3. u[4 * q + k] = c[4 * r + k]
      BY <2>4, <3>1, <1>7
    <3>4. cc[4 * r + l] = c[4 * r + 5 - l] /\ 4 * r + 5 - l = 4 * r + k
      BY <3>1, <1>3
    <3>5. QED
      BY <2>1, <3>2, <3>3, <3>4
  <2>5. CASE q = 17
    BY <2>1, <2>5, <1>4, <1>6, <1>7
  <2>6. CASE q = 18
    BY <2>1, <2>6, <1>4, <1>6, <1>7
  <2>7. CASE q = 19
    BY <2>1, <2>7, <1>4, <1>6, <1>7
  <2>8. QED
    BY <2>2, <2>3, <2>4, <2>5, <2>6, <2>7
<1>11. ASSUME NEW k \in 1 .. 80
       PROVE  v[k] = u[k]
  <2>1. PICK q \in 0 .. 19, b0 \in 1 .. 4 : k = 4 * q + b0
    <3>1. (k - 1) \div 4 \in 0 .. 19 /\ ((k - 1) % 4) + 1 \in 1 .. 4
          /\ k = 4 * ((k - 1) \div 4) + (((k - 1) % 4) + 1)
      OBVIOUS
    <3>2. QED
      BY <3>1
  <2>2. QED
    BY <2>1, <1>10
<1>12. 80 \in Nat
  OBVIOUS
<1>13. v = u
  BY <1>7, <1>9, <1>11, <1>12, SameBytes, ZenonT(60)
<1>14. QED
  BY <1>7, <1>8, <1>13

-----------------------------------------------------------------------------
(* The header's hash. *)

(* A header with the padding of its 640 bits: two blocks. *)
LEMMA PaddedHeader ==
  ASSUME NEW u, NEW m, IsBytes(u, 80),
         IsJoin(m, u, padding_for_bit_length(640))
  PROVE  /\ IsBytes(m, 128)
         /\ \A k \in 1 .. 80 : m[k] = u[k]
         /\ m[81] = Number(128)
         /\ \A k \in 82 .. 128 :
              m[k] = Number(IF k = 127 THEN 2 ELSE IF k = 128 THEN 128 ELSE 0)
<1>1. PICK length \in Nat : length = 80
  OBVIOUS
<1>2. ZeroPad(length) = 39
  BY <1>1 DEF ZeroPad
<1>3. PICK p : p = padding_for_bit_length(8 * length)
  OBVIOUS
<1>4. /\ IsBytes(p, 48)
      /\ \A k \in 1 .. 48 :
           p[k] = IF k = 1 THEN Number(128)
                  ELSE IF k <= 40 THEN Number(0)
                  ELSE Number(ByteOf(640, 48 - k))
  <2>1. 8 * length = 640
    BY <1>1
  <2>2. PICK z : z = ZeroPad(length)
    OBVIOUS
  <2>3. /\ IsBytes(p, z + 9)
        /\ \A k \in 1 .. z + 9 :
             p[k] = IF k = 1 THEN Number(128)
                    ELSE IF k <= z + 1 THEN Number(0)
                    ELSE Number(ByteOf(8 * length, z + 9 - k))
    BY <1>3, <2>2, PaddingBytes
  <2>4. z = 39 /\ z + 9 = 48 /\ z + 1 = 40
    BY <1>2, <2>2
  <2>5. ASSUME NEW k \in 1 .. 48
        PROVE  p[k] = IF k = 1 THEN Number(128)
                      ELSE IF k <= 40 THEN Number(0)
                      ELSE Number(ByteOf(640, 48 - k))
    <3>1. k \in 1 .. z + 9 /\ z + 9 - k = 48 - k
      BY <2>4
    <3>2. QED
      BY <3>1, <2>1, <2>3, <2>4
  <2>6. IsBytes(p, 48)
    BY <2>3, <2>4
  <2>7. QED
    BY <2>5, <2>6
<1>5. IsJoin(m, u, p)
  <2>1. 8 * length = 640
    BY <1>1
  <2>2. QED
    BY <2>1, <1>3
<1>6. PICK l \in Nat : l = 48
  OBVIOUS
<1>7. /\ IsBytes(m, length + l)
      /\ \A k \in 1 .. length + l :
           m[k] = IF k <= length THEN u[k] ELSE p[k - length]
  <2>1. IsBytes(p, l) /\ IsBytes(u, length)
    BY <1>1, <1>4, <1>6
  <2>2. QED
    BY <2>1, <1>5, Joined
<1>8. IsBytes(m, 128) /\ \A k \in 1 .. 80 : m[k] = u[k]
  <2>1. length + l = 128
    BY <1>1, <1>6
  <2>2. QED
    BY <2>1, <1>1, <1>7
<1>9. \A k \in 81 .. 128 : m[k] = p[k - 80]
  BY <1>1, <1>6, <1>7
<1>10. /\ ByteOf(640, 0) = 128 /\ ByteOf(640, 1) = 2
       /\ \A k \in 2 .. 7 : ByteOf(640, k) = 0
  BY DEF ByteOf
<1>11. ASSUME NEW k \in 82 .. 128
       PROVE  m[k] = Number(IF k = 127 THEN 2 ELSE IF k = 128 THEN 128 ELSE 0)
  <2>1. m[k] = p[k - 80] /\ k - 80 \in 2 .. 48
    BY <1>9
  <2>2. CASE k <= 120
    BY <2>1, <2>2, <1>4
  <2>3. CASE k \in 121 .. 126
    <3>1. m[k] = Number(ByteOf(640, 48 - (k - 80)))
      BY <2>1, <2>3, <1>4
    <3>2. 48 - (k - 80) \in 2 .. 7
      BY <2>3
    <3>3. QED
      BY <3>1, <3>2, <2>3, <1>10
  <2>4. CASE k = 127
    BY <2>1, <2>4, <1>4, <1>10
  <2>5. CASE k = 128
    BY <2>1, <2>5, <1>4, <1>10
  <2>6. QED
    BY <2>2, <2>3, <2>4, <2>5
<1>12. m[81] = Number(128)
  BY <1>4, <1>9
<1>13. QED
  BY <1>8, <1>11, <1>12

(* The bytes of a number. *)
LEMMA BigEndianBytes ==
  ASSUME NEW v, NEW size \in Nat
  PROVE  IsBytes(BigEndian(v, size), size)
<1>1. PICK t : t = BigEndian(v, size)
  OBVIOUS
<1>2. t = [k \in 1 .. size |-> t[k]]
  BY <1>1 DEF BigEndian
<1>3. QED
  BY <1>1, <1>2, FormString

(* The twelve words written behind the header. *)
LEMMA PaddingWords ==
  /\ IsBytes(Padding, 12)
  /\ \A i \in 1 .. 12 :
       Padding[i] = IF i = 1 THEN Word(128, 0, 0, 0)
                    ELSE IF i <= 11 THEN Word(0, 0, 0, 0)
                    ELSE Word(0, 0, 2, 128)
<1>1. PICK a, b, c :
        /\ a = <<Word(128, 0, 0, 0)>>
        /\ b = [i \in 1 .. 10 |-> Word(0, 0, 0, 0)]
        /\ c = <<Word(0, 0, 2, 128)>>
  OBVIOUS
<1>2. PICK ab, p : ab = a \o b /\ p = ab \o c
  OBVIOUS
<1>3. p = Padding
  BY <1>1, <1>2, Zenon DEF Padding
<1>4. IsJoin(ab, a, b) /\ IsJoin(p, ab, c)
  BY <1>2 DEF IsJoin
<1>5. PICK l, m \in Nat : l = 1 /\ m = 10
  OBVIOUS
<1>6. /\ IsBytes(a, 1) /\ a[1] = Word(128, 0, 0, 0)
      /\ IsBytes(c, 1) /\ c[1] = Word(0, 0, 2, 128)
  BY <1>1, OneAndMany
<1>7. IsBytes(b, 10) /\ \A i \in 1 .. 10 : b[i] = Word(0, 0, 0, 0)
  <2>1. 10 \in Nat
    OBVIOUS
  <2>2. IsBytes(b, 10)
    BY <2>1, <1>1, OneAndMany
  <2>3. QED
    BY <2>2, <1>1
<1>8. /\ IsBytes(p, l + m + l)
      /\ \A k \in 1 .. l + m + l :
           p[k] = IF k <= l THEN a[k]
                  ELSE IF k <= l + m THEN b[k - l] ELSE c[k - (l + m)]
  <2>1. IsBytes(a, l) /\ IsBytes(b, m) /\ IsBytes(c, l)
    BY <1>5, <1>6, <1>7
  <2>2. QED
    BY <2>1, <1>4, JoinedThree
<1>9. l = 1 /\ l + m = 11 /\ l + m + l = 12
  BY <1>5
<1>10. ASSUME NEW i \in 1 .. 12
       PROVE  p[i] = IF i = 1 THEN Word(128, 0, 0, 0)
                     ELSE IF i <= 11 THEN Word(0, 0, 0, 0)
                     ELSE Word(0, 0, 2, 128)
  <2>1. CASE i = 1
    BY <2>1, <1>6, <1>8, <1>9
  <2>2. CASE i \in 2 .. 11
    BY <2>2, <1>7, <1>8, <1>9
  <2>3. CASE i = 12
    BY <2>3, <1>6, <1>8, <1>9
  <2>4. QED
    BY <2>1, <2>2, <2>3
<1>11. QED
  BY <1>3, <1>8, <1>9, <1>10

(* A job's fields have the sizes that parsing demands. *)
HasFields(job) ==
  \A field \in {job.version, job.ntime, job.nbits} : IsBytes(field, 4)

(* The eighty bytes of a header. *)
LEMMA HeaderBytes ==
  ASSUME NEW job, HasFields(job), NEW prevhash, IsBytes(prevhash, 32),
         NEW root, IsBytes(root, 32), NEW nonce
  PROVE  LET u == make_sha_input_header_bytes(job, prevhash, root, nonce)
             u0 == make_sha_input_header_bytes(job, prevhash, root, 0)
         IN /\ IsBytes(u, 80) /\ IsBytes(u0, 80)
            /\ \A k \in 1 .. 76 : u[k] = u0[k]
            /\ \A b \in 1 .. 4 : u[76 + b] = bswap32(BigEndian(nonce, 4))[b]
            /\ IsBytes(bswap32(BigEndian(nonce, 4)), 4)
<1>1. PICK ra, rd, re, rf, r0 :
        /\ ra = Reverse(job.version) /\ rd = Reverse(job.ntime)
        /\ re = Reverse(job.nbits)
        /\ rf = Reverse(BigEndian(nonce, 4)) /\ r0 = Reverse(BigEndian(0, 4))
  OBVIOUS
<1>2. 4 \in Nat
  OBVIOUS
<1>3. /\ IsBytes(ra, 4) /\ IsBytes(rd, 4) /\ IsBytes(re, 4)
      /\ IsBytes(rf, 4) /\ IsBytes(r0, 4)
  <2>1. IsBytes(job.version, 4) /\ IsBytes(job.ntime, 4) /\ IsBytes(job.nbits, 4)
    BY DEF HasFields
  <2>2. IsBytes(BigEndian(nonce, 4), 4) /\ IsBytes(BigEndian(0, 4), 4)
    BY <1>2, BigEndianBytes
  <2>3. QED
    BY <1>1, <2>1, <2>2, ReversedBytes
<1>4. PICK u, u0 : /\ u = make_sha_input_header_bytes(job, prevhash, root, nonce)
                   /\ u0 = make_sha_input_header_bytes(job, prevhash, root, 0)
  OBVIOUS
<1>5. /\ IsHeader(u, ra, prevhash, root, rd, re, rf)
      /\ IsHeader(u0, ra, prevhash, root, rd, re, r0)
  BY <1>1, <1>4, Zenon DEF IsHeader, make_sha_input_header_bytes, write_le32
<1>6. /\ IsBytes(u, 80)
      /\ \A k \in 1 .. 4 : u[k] = ra[k]
      /\ \A k \in 5 .. 36 : u[k] = prevhash[k - 4]
      /\ \A k \in 37 .. 68 : u[k] = root[k - 36]
      /\ \A k \in 69 .. 72 : u[k] = rd[k - 68]
      /\ \A k \in 73 .. 76 : u[k] = re[k - 72]
      /\ \A k \in 77 .. 80 : u[k] = rf[k - 76]
  BY <1>3, <1>5, HeaderLayout
<1>7. /\ IsBytes(u0, 80)
      /\ \A k \in 1 .. 4 : u0[k] = ra[k]
      /\ \A k \in 5 .. 36 : u0[k] = prevhash[k - 4]
      /\ \A k \in 37 .. 68 : u0[k] = root[k - 36]
      /\ \A k \in 69 .. 72 : u0[k] = rd[k - 68]
      /\ \A k \in 73 .. 76 : u0[k] = re[k - 72]
  BY <1>3, <1>5, HeaderLayout
<1>8. \A k \in 1 .. 76 : u[k] = u0[k]
  BY <1>6, <1>7
<1>9. \A b \in 1 .. 4 : u[76 + b] = rf[b]
  BY <1>6
<1>10. rf = bswap32(BigEndian(nonce, 4))
  BY <1>1, Zenon DEF bswap32
<1>11. QED
  BY <1>3, <1>4, <1>6, <1>7, <1>8, <1>9, <1>10

(* The words read before the padding is written over them. *)
LEMMA ReadWords ==
  ASSUME NEW u, IsBytes(u, 80), NEW read,
         read = block_words_from_bytes(SubSeq(u, 65, 80) \o Bytes(Source("anything"), 48))
  PROVE  /\ IsBytes(read, 16)
         /\ \A i \in 1 .. 4 : IsBytes(read[i], 4)
         /\ \A i \in 1 .. 4, b \in 1 .. 4 : read[i][b] = u[64 + (4 * i - 4 + b)]
<1>1. PICK x, y, t : /\ x = SubSeq(u, 65, 80)
                     /\ y = Bytes(Source("anything"), 48)
                     /\ t = x \o y
  OBVIOUS
<1>2. read = Words(t)
  BY <1>1, Zenon DEF block_words_from_bytes
<1>3. PICK n, m, l, w \in Nat : n = 80 /\ m = 16 /\ l = 48 /\ w = 16
  OBVIOUS
<1>4. IsBytes(x, m) /\ \A k \in 1 .. m : x[k] = u[64 + k]
  <2>1. PICK i, j : i = 65 /\ j = 80
    OBVIOUS
  <2>2. i \in 1 .. n /\ j \in i .. n /\ j - i + 1 = m
    BY <1>3, <2>1
  <2>3. IsBytes(u, n)
    BY <1>3
  <2>4. /\ IsBytes(SubSeq(u, i, j), j - i + 1)
        /\ \A k \in 1 .. j - i + 1 : SubSeq(u, i, j)[k] = u[i + k - 1]
    BY <2>2, <2>3, Part
  <2>5. x = SubSeq(u, i, j)
    BY <1>1, <2>1, Zenon
  <2>6. /\ IsBytes(x, m)
        /\ \A k \in 1 .. m : x[k] = u[i + k - 1]
    BY <2>2, <2>4, <2>5
  <2>7. \A k \in 1 .. m : i + k - 1 = 64 + k
    BY <2>1
  <2>8. QED
    BY <2>6, <2>7
<1>5. IsBytes(y, l)
  BY <1>1, <1>3, BytesOf
<1>6. IsJoin(t, x, y)
  BY <1>1, Zenon DEF IsJoin
<1>7. /\ IsBytes(t, m + l)
      /\ \A k \in 1 .. m + l : t[k] = IF k <= m THEN x[k] ELSE y[k - m]
  BY <1>4, <1>5, <1>6, Joined
<1>8. IsBytes(t, 4 * w)
  <2>1. m + l = 4 * w
    BY <1>3
  <2>2. QED
    BY <2>1, <1>7
<1>9. /\ IsBytes(read, w)
      /\ \A i \in 1 .. w : IsBytes(read[i], 4)
      /\ \A i \in 1 .. w, b \in 1 .. 4 : read[i][b] = t[4 * i - 4 + b]
  BY <1>2, <1>8, WordsOf
<1>10. ASSUME NEW i \in 1 .. 4, NEW b \in 1 .. 4
       PROVE  read[i][b] = u[64 + (4 * i - 4 + b)]
  <2>1. PICK k : k = 4 * i - 4 + b
    OBVIOUS
  <2>2. k \in 1 .. m
    BY <2>1, <1>3
  <2>3. t[k] = u[64 + k]
    BY <2>2, <1>3, <1>4, <1>7
  <2>4. read[i][b] = t[k]
    BY <2>1, <1>3, <1>9
  <2>5. QED
    BY <2>1, <2>3, <2>4
<1>11. QED
  BY <1>3, <1>9, <1>10

(* The two blocks of a padded header. *)
LEMMA HeaderBlocks ==
  ASSUME NEW m, IsBytes(m, 128)
  PROVE  /\ IsBlock(Block(m, 1)) /\ IsBlock(Block(m, 2))
         /\ \A j \in 1 .. 16, b \in 1 .. 4 : Block(m, 1)[j][b] = m[4 * j - 4 + b]
         /\ \A j \in 1 .. 16, b \in 1 .. 4 : Block(m, 2)[j][b] = m[64 + (4 * j - 4 + b)]
         /\ compress_blocks(m)
              = compress_block(compress_block(initial_state, Block(m, 1)), Block(m, 2))
<1>1. PICK i1, i2 \in Nat \ {0}, n \in Nat : i1 = 1 /\ i2 = 2 /\ n = 128
  OBVIOUS
<1>2. IsBytes(m, n) /\ 64 * i1 <= n /\ 64 * i2 <= n
  BY <1>1
<1>3. /\ IsBlock(Block(m, i1))
      /\ \A j \in 1 .. 16, b \in 1 .. 4 :
           Block(m, i1)[j][b] = m[64 * i1 - 64 + (4 * j - 4 + b)]
  BY <1>2, BlockOf
<1>4. /\ IsBlock(Block(m, i2))
      /\ \A j \in 1 .. 16, b \in 1 .. 4 :
           Block(m, i2)[j][b] = m[64 * i2 - 64 + (4 * j - 4 + b)]
  BY <1>2, BlockOf
<1>5. \A k \in Int : 64 * i1 - 64 + k = k /\ 64 * i2 - 64 + k = 64 + k
  BY <1>1
<1>6. \A j \in 1 .. 16, b \in 1 .. 4 : Block(m, 1)[j][b] = m[4 * j - 4 + b]
  BY <1>1, <1>3, <1>5
<1>7. \A j \in 1 .. 16, b \in 1 .. 4 : Block(m, 2)[j][b] = m[64 + (4 * j - 4 + b)]
  BY <1>1, <1>4, <1>5
<1>8. compress_blocks(m)
        = compress_block(compress_block(initial_state, Block(m, 1)), Block(m, 2))
  <2>1. PICK k \in 1 .. 2 : k = 2
    OBVIOUS
  <2>2. IsBytes(m, 64 * k) /\ k # 1
    BY <2>1
  <2>3. compress_blocks(m)
          = IF k = 1 THEN compress_block(initial_state, Block(m, 1))
            ELSE compress_block(compress_block(initial_state, Block(m, 1)), Block(m, 2))
    BY <2>2, TwoBlocks
  <2>4. QED
    BY <2>2, <2>3
<1>9. QED
  BY <1>1, <1>3, <1>4, <1>6, <1>7, <1>8

(* The block behind the midstate, whatever was read behind the header:     *)
(* with the nonce written into it, it is the second block of the padded    *)
(* header (header.cpp, sha256.cpp 60-78).                                  *)
LEMMA SecondBlock ==
  ASSUME NEW u, NEW u0, NEW m, NEW read, NEW word, NEW block,
         IsBytes(u, 80), IsBytes(u0, 80),
         \A k \in 1 .. 76 : u[k] = u0[k],
         IsBytes(word, 4), \A b \in 1 .. 4 : u[76 + b] = word[b],
         IsJoin(m, u, padding_for_bit_length(640)),
         read = block_words_from_bytes(SubSeq(u0, 65, 80) \o Bytes(Source("anything"), 48)),
         block = [i \in 1 .. 16 |-> IF i = 4 THEN word
                                    ELSE IF i > 4 THEN Padding[i - 4] ELSE read[i]]
  PROVE  block = Block(m, 2)
<1>1. /\ IsBytes(m, 128)
      /\ \A k \in 1 .. 80 : m[k] = u[k]
      /\ m[81] = Number(128)
      /\ \A k \in 82 .. 128 :
           m[k] = Number(IF k = 127 THEN 2 ELSE IF k = 128 THEN 128 ELSE 0)
  BY PaddedHeader
<1>2. /\ IsBlock(Block(m, 2))
      /\ \A j \in 1 .. 16, b \in 1 .. 4 : Block(m, 2)[j][b] = m[64 + (4 * j - 4 + b)]
  <2>1. IsBytes(m, 128)
    BY <1>1
  <2>2. QED
    BY <2>1, HeaderBlocks
<1>3. /\ \A i \in 1 .. 4 : IsBytes(read[i], 4)
      /\ \A i \in 1 .. 4, b \in 1 .. 4 : read[i][b] = u0[64 + (4 * i - 4 + b)]
  BY ReadWords
<1>4. ASSUME NEW i \in 1 .. 16
      PROVE  /\ IsBytes(block[i], 4)
             /\ \A b \in 1 .. 4 : block[i][b] = m[64 + (4 * i - 4 + b)]
  <2>1. CASE i \in 1 .. 3
    <3>1. block[i] = read[i] /\ i \in 1 .. 4
      BY <2>1
    <3>2. ASSUME NEW b \in 1 .. 4
          PROVE  u0[64 + (4 * i - 4 + b)] = m[64 + (4 * i - 4 + b)]
      <4>1. PICK k : k = 64 + (4 * i - 4 + b)
        OBVIOUS
      <4>2. k \in 1 .. 76 /\ k \in 1 .. 80
        BY <4>1, <2>1
      <4>3. QED
        BY <4>1, <4>2, <1>1
    <3>3. QED
      BY <3>1, <3>2, <1>3
  <2>2. CASE i = 4
    <3>1. block[i] = word
      BY <2>2
    <3>2. ASSUME NEW b \in 1 .. 4
          PROVE  word[b] = m[64 + (4 * i - 4 + b)]
      <4>1. 64 + (4 * i - 4 + b) = 76 + b /\ 76 + b \in 1 .. 80
        BY <2>2
      <4>2. QED
        BY <4>1, <1>1
    <3>3. QED
      BY <3>1, <3>2
  <2>3. CASE i = 5
    <3>1. block[i] = Word(128, 0, 0, 0)
      <4>1. block[i] = Padding[1]
        BY <2>3
      <4>2. QED
        BY <4>1, PaddingWords
    <3>2. /\ m[64 + (4 * i - 4 + 1)] = Number(128)
          /\ \A b \in 2 .. 4 : m[64 + (4 * i - 4 + b)] = Number(0)
      <4>1. 64 + (4 * i - 4 + 1) = 81
        BY <2>3
      <4>2. \A b \in 2 .. 4 : 64 + (4 * i - 4 + b) \in 82 .. 126
        BY <2>3
      <4>3. QED
        BY <4>1, <4>2, <1>1
    <3>3. QED
      BY <3>1, <3>2, WordBytes
  <2>4. CASE i \in 6 .. 15
    <3>1. block[i] = Word(0, 0, 0, 0)
      <4>1. block[i] = Padding[i - 4] /\ i - 4 \in 2 .. 11
        BY <2>4
      <4>2. QED
        BY <4>1, PaddingWords
    <3>2. \A b \in 1 .. 4 : m[64 + (4 * i - 4 + b)] = Number(0)
      <4>1. \A b \in 1 .. 4 : 64 + (4 * i - 4 + b) \in 82 .. 126
        BY <2>4
      <4>2. QED
        BY <4>1, <1>1
    <3>3. QED
      BY <3>1, <3>2, WordBytes
  <2>5. CASE i = 16
    <3>1. block[i] = Word(0, 0, 2, 128)
      <4>1. block[i] = Padding[12]
        BY <2>5
      <4>2. QED
        BY <4>1, PaddingWords
    <3>2. /\ m[64 + (4 * i - 4 + 1)] = Number(0)
          /\ m[64 + (4 * i - 4 + 2)] = Number(0)
          /\ m[64 + (4 * i - 4 + 3)] = Number(2)
          /\ m[64 + (4 * i - 4 + 4)] = Number(128)
      <4>1. /\ 64 + (4 * i - 4 + 1) = 125 /\ 64 + (4 * i - 4 + 2) = 126
            /\ 64 + (4 * i - 4 + 3) = 127 /\ 64 + (4 * i - 4 + 4) = 128
        BY <2>5
      <4>2. QED
        BY <4>1, <1>1
    <3>3. QED
      BY <3>1, <3>2, WordBytes
  <2>6. QED
    BY <2>1, <2>2, <2>3, <2>4, <2>5
<1>5. IsBytes(block, 16)
  <2>1. block = [i \in 1 .. 16 |-> block[i]]
    OBVIOUS
  <2>2. 16 \in Nat
    OBVIOUS
  <2>3. QED
    BY <2>1, <2>2, FormString, Zenon
<1>6. QED
  <2>1. IsBlock(block)
    BY <1>4, <1>5 DEF IsBlock
  <2>2. ASSUME NEW i \in 1 .. 16, NEW k \in 1 .. 4
        PROVE  block[i][k] = Block(m, 2)[i][k]
    <3>1. block[i][k] = m[64 + (4 * i - 4 + k)]
      BY <1>4
    <3>2. Block(m, 2)[i][k] = m[64 + (4 * i - 4 + k)]
      BY <1>2
    <3>3. QED
      BY <3>1, <3>2, Zenon
  <2>3. QED
    BY <2>1, <2>2, <1>2, SameBlock, ZenonT(40)

(* The midstate is taken of the first block of the padded header: the      *)
(* nonce is not in it.                                                     *)
LEMMA FirstBlock ==
  ASSUME NEW u, NEW u0, NEW m, IsBytes(u, 80), IsBytes(u0, 80),
         \A k \in 1 .. 76 : u[k] = u0[k],
         IsJoin(m, u, padding_for_bit_length(640))
  PROVE  block_words_from_bytes(SubSeq(u0, 1, 64)) = Block(m, 1)
<1>1. IsBytes(m, 128) /\ \A k \in 1 .. 80 : m[k] = u[k]
  BY PaddedHeader
<1>2. /\ IsBlock(Block(m, 1))
      /\ \A j \in 1 .. 16, b \in 1 .. 4 : Block(m, 1)[j][b] = m[4 * j - 4 + b]
  BY <1>1, HeaderBlocks, ZenonT(40)
<1>3. PICK i \in Nat \ {0}, n \in Nat : i = 1 /\ n = 80
  OBVIOUS
<1>4. /\ IsBlock(Block(u0, i))
      /\ \A j \in 1 .. 16, b \in 1 .. 4 :
           Block(u0, i)[j][b] = u0[64 * i - 64 + (4 * j - 4 + b)]
  <2>1. IsBytes(u0, n) /\ 64 * i <= n
    BY <1>3
  <2>2. QED
    BY <2>1, BlockOf
<1>5. Block(u0, i) = block_words_from_bytes(SubSeq(u0, 1, 64))
  <2>1. 64 * i - 63 = 1 /\ 64 * i = 64
    BY <1>3
  <2>2. QED
    BY <2>1, Zenon DEF Block, block_words_from_bytes
<1>6. ASSUME NEW j \in 1 .. 16, NEW b \in 1 .. 4
      PROVE  Block(u0, i)[j][b] = Block(m, 1)[j][b]
  <2>1. PICK k : k = 4 * j - 4 + b
    OBVIOUS
  <2>2. k \in 1 .. 76 /\ k \in 1 .. 80 /\ 64 * i - 64 + k = k
    BY <2>1, <1>3
  <2>3. Block(u0, i)[j][b] = u0[k]
    BY <2>1, <2>2, <1>4
  <2>4. Block(m, 1)[j][b] = u[k]
    BY <2>1, <2>2, <1>1, <1>2
  <2>5. QED
    BY <2>2, <2>3, <2>4
<1>7. Block(u0, i) = Block(m, 1)
  BY <1>2, <1>4, <1>6, SameBlock
<1>8. QED
  BY <1>5, <1>7

(* What the miner hashes from its midstate is what the pool hashes from    *)
(* the whole header, for every nonce (sha256.cpp 60-78, 148-206).          *)
THEOREM HeaderHash ==
  ASSUME NEW job, HasFields(job), NEW prevhash, IsBytes(prevhash, 32),
         NEW root, IsBytes(root, 32), NEW nonce
  PROVE  hash_header_template(
           set_header_nonce(make_sha_header_template(job, prevhash, root, 0), nonce))
           = FipsDouble(make_sha_input_header_bytes(job, prevhash, root, nonce))
<1>1. PICK u, u0, word :
        /\ u = make_sha_input_header_bytes(job, prevhash, root, nonce)
        /\ u0 = make_sha_input_header_bytes(job, prevhash, root, 0)
        /\ word = bswap32(BigEndian(nonce, 4))
  OBVIOUS
<1>2. /\ IsBytes(u, 80) /\ IsBytes(u0, 80)
      /\ \A k \in 1 .. 76 : u[k] = u0[k]
      /\ \A b \in 1 .. 4 : u[76 + b] = word[b]
      /\ IsBytes(word, 4)
  BY <1>1, HeaderBytes
<1>3. PICK m : m = u \o padding_for_bit_length(640)
  OBVIOUS
<1>4. IsJoin(m, u, padding_for_bit_length(640))
  BY <1>3, Zenon DEF IsJoin
<1>5. PICK mid, read :
        /\ mid = compress_block(initial_state, block_words_from_bytes(SubSeq(u0, 1, 64)))
        /\ read = block_words_from_bytes(
                    SubSeq(u0, 65, 80) \o Bytes(Source("anything"), 48))
  OBVIOUS
<1>6. PICK h : h = make_sha_header_template(job, prevhash, root, 0)
  OBVIOUS
<1>7. h = [midstate |-> mid,
           block1 |-> [i \in 1 .. 16 |-> IF i > 4 THEN Padding[i - 4] ELSE read[i]]]
  BY <1>1, <1>5, <1>6, Zenon DEF make_sha_header_template
<1>8. PICK g : g = set_header_nonce(h, nonce)
  OBVIOUS
<1>9. g = [h EXCEPT !.block1[4] = word]
  BY <1>1, <1>8, Zenon DEF set_header_nonce
<1>10. /\ g.midstate = mid
       /\ g.block1 = [i \in 1 .. 16 |-> IF i = 4 THEN word
                                         ELSE IF i > 4 THEN Padding[i - 4] ELSE read[i]]
  <2>1. PICK b1 : b1 = [i \in 1 .. 16 |-> IF i > 4 THEN Padding[i - 4] ELSE read[i]]
    OBVIOUS
  <2>2. h = [midstate |-> mid, block1 |-> b1]
    BY <2>1, <1>7
  <2>3. g.midstate = mid /\ g.block1 = [b1 EXCEPT ![4] = word]
    BY <2>2, <1>9
  <2>4. [b1 EXCEPT ![4] = word]
          = [i \in 1 .. 16 |-> IF i = 4 THEN word
                               ELSE IF i > 4 THEN Padding[i - 4] ELSE read[i]]
    BY <2>1
  <2>5. QED
    BY <2>3, <2>4
<1>11. g.block1 = Block(m, 2)
  BY <1>2, <1>4, <1>5, <1>10, SecondBlock
<1>12. mid = compress_block(initial_state, Block(m, 1))
  BY <1>2, <1>4, <1>5, FirstBlock
<1>13. compress_blocks(m)
         = compress_block(compress_block(initial_state, Block(m, 1)), Block(m, 2))
  BY <1>2, <1>4, PaddedHeader, HeaderBlocks
<1>14. FipsHash(u) = compress_blocks(m)
  <2>1. PICK n \in Nat : n = 80
    OBVIOUS
  <2>2. IsBytes(u, n) /\ 8 * n = 640
    BY <1>2, <2>1
  <2>3. FipsPadded(u) = u \o padding_for_bit_length(8 * n)
    BY <2>2, FipsPadding, Zenon
  <2>4. FipsPadded(u) = m
    BY <1>3, <2>2, <2>3, Zenon
  <2>5. QED
    BY <2>4, Zenon DEF FipsHash
<1>15. hash_header_template(g) = Bytes(hash_digest_words(FipsHash(u)), 32)
  <2>1. compress_block(g.midstate, g.block1) = compress_blocks(m)
    <3>1. g.midstate = compress_block(initial_state, Block(m, 1))
      BY <1>10, <1>12
    <3>2. QED
      BY <3>1, <1>11, <1>13
  <2>2. hash_header_template(g)
          = Bytes(hash_digest_words(compress_block(g.midstate, g.block1)), 32)
    BY Zenon DEF hash_header_template, dbl_sha256_two_block_header,
                 digest_words_to_bytes_be
  <2>3. QED
    BY <2>1, <2>2, <1>14
<1>16. FipsHash(Bytes(FipsHash(u), 32)) = hash_digest_words(FipsHash(u))
  BY SecondHash
<1>17. FipsDouble(u) = Bytes(hash_digest_words(FipsHash(u)), 32)
  BY <1>16, Zenon DEF FipsDouble
<1>18. QED
  BY <1>1, <1>6, <1>8, <1>15, <1>17, Zenon

-----------------------------------------------------------------------------
(* From a job to the pool's reconstruction. *)

(* What FieldsAssumption says of one job. *)
LEMMA FieldsOf ==
  ASSUME NEW job \in Jobs
  PROVE  /\ HasFields(job)
         /\ IsBytes(job.prevhash, 32)
         /\ IsString(job.coinb1) /\ IsString(job.coinb2)
         /\ IsString(job.merkle_branch)
         /\ \A i \in DOMAIN job.merkle_branch : IsBytes(job.merkle_branch[i], 32)
         /\ JobOf(job.job_id) = job
<1>1. \A other \in Jobs : other.job_id = job.job_id => other = job
  BY FieldsAssumption
<1>2. JobOf(job.job_id) = job
  <2>1. PICK id : id = job.job_id
    OBVIOUS
  <2>2. \A other \in Jobs : other.job_id = id => other = job
    BY <1>1, <2>1
  <2>3. (CHOOSE j \in Jobs : j.job_id = id) = job
    BY <2>1, <2>2
  <2>4. QED
    BY <2>1, <2>3 DEF JobOf
<1>3. QED
  BY <1>2, FieldsAssumption DEF HasFields

(* The coinbase transaction is a string, whatever the extranonce2.         *)
LEMMA CoinbaseHash ==
  ASSUME NEW job, IsString(job.coinb1), IsString(job.coinb2), NEW counter
  PROVE  LET extranonce2 == extranonce2_from_counter(counter)
         IN /\ build_coinbase(job, extranonce2)
                 = FipsDouble(job.coinb1 \o Extranonce1 \o extranonce2 \o job.coinb2)
            /\ IsBytes(build_coinbase(job, extranonce2), 32)
<1>1. PICK a, b, c, d :
        /\ a = job.coinb1 /\ b = Extranonce1
        /\ c = extranonce2_from_counter(counter) /\ d = job.coinb2
  OBVIOUS
<1>2. PICK ab, abc, t : ab = a \o b /\ abc = ab \o c /\ t = abc \o d
  OBVIOUS
<1>3. IsJoin(ab, a, b) /\ IsJoin(abc, ab, c) /\ IsJoin(t, abc, d)
  BY <1>2, Zenon DEF IsJoin
<1>4. PICK l, m, n, k \in Nat :
        IsBytes(a, l) /\ IsBytes(b, m) /\ IsBytes(c, n) /\ IsBytes(d, k)
  <2>1. IsString(a) /\ IsString(b) /\ IsString(d)
    BY <1>1, FieldsAssumption
  <2>2. \A s : IsString(s) => \E i \in Nat : IsBytes(s, i)
    BY StringForm DEF IsBytes
  <2>3. extranonce2_size \in Nat
    <3>1. extranonce2_size \in 0 .. SizeLimit
      BY AssemblyAssumption
    <3>2. QED
      BY <3>1
  <2>4. IsBytes(c, extranonce2_size)
    BY <1>1, <2>3, BigEndianBytes DEF extranonce2_from_counter
  <2>5. QED
    BY <2>1, <2>2, <2>3, <2>4
<1>5. PICK i \in Nat : IsBytes(abc, i)
  <2>1. IsBytes(abc, l + m + n) /\ l + m + n \in Nat
    BY <1>3, <1>4, JoinedThree
  <2>2. QED
    BY <2>1
<1>6. PICK j \in Nat : IsBytes(t, j)
  <2>1. IsBytes(abc, i) /\ IsBytes(d, k) /\ IsJoin(t, abc, d)
    BY <1>3, <1>4, <1>5
  <2>2. IsBytes(t, i + k)
    BY <2>1, Joined
  <2>3. i + k \in Nat
    OBVIOUS
  <2>4. QED
    BY <2>2, <2>3
<1>7. dbl_sha256_bytes(t) = FipsDouble(t) /\ IsBytes(dbl_sha256_bytes(t), 32)
  BY <1>6, SameDoubleHash
<1>8. /\ build_coinbase(job, extranonce2_from_counter(counter)) = dbl_sha256_bytes(t)
      /\ t = job.coinb1 \o Extranonce1 \o extranonce2_from_counter(counter) \o job.coinb2
  BY <1>1, <1>2, Zenon DEF build_coinbase
<1>9. QED
  BY <1>7, <1>8, Zenon

(* The pool, from the four fields of a submission, hashes what the miner   *)
(* hashed.                                                                 *)
LEMMA Reconstruction ==
  ASSUME NEW job \in Jobs, NEW counter, NEW nonce
  PROVE  LET p == prepare_work(job, counter)
         IN PoolHash(make_share_submission(p, nonce))
              = hash_header_template(set_header_nonce(p.header_template, nonce))
<1>1. /\ HasFields(job) /\ IsBytes(job.prevhash, 32)
      /\ IsString(job.coinb1) /\ IsString(job.coinb2)
      /\ IsString(job.merkle_branch)
      /\ \A i \in DOMAIN job.merkle_branch : IsBytes(job.merkle_branch[i], 32)
      /\ JobOf(job.job_id) = job
  BY FieldsOf
<1>2. PICK extranonce2, leaf, root, prevhash, number :
        /\ extranonce2 = extranonce2_from_counter(counter)
        /\ leaf = build_coinbase(job, extranonce2)
        /\ root = merkle_fold(leaf, job.merkle_branch)
        /\ prevhash = prevhash_sha_input_from_job(job)
        /\ number = BigEndian(nonce, 4)
  OBVIOUS
<1>3. PICK p : p = prepare_work(job, counter)
  OBVIOUS
<1>4. /\ p.job = job
      /\ p.extranonce2_hex = extranonce2
      /\ p.header_template = make_sha_header_template(job, prevhash, root, 0)
  <2>1. p = [job |-> job, extranonce2_counter |-> counter,
             extranonce2_hex |-> extranonce2,
             header_template |-> make_sha_header_template(job, prevhash, root, 0)]
    BY <1>2, <1>3, Zenon DEF prepare_work
  <2>2. QED
    BY <2>1
<1>5. PICK submission : submission = make_share_submission(p, nonce)
  OBVIOUS
<1>6. /\ submission.job_id = job.job_id
      /\ submission.extranonce2_hex = extranonce2
      /\ submission.ntime_hex = job.ntime
      /\ submission.nonce_hex = number
  <2>1. submission = [job_id |-> p.job.job_id, extranonce2_hex |-> p.extranonce2_hex,
                      ntime_hex |-> p.job.ntime, nonce_hex |-> number]
    BY <1>2, <1>5, Zenon DEF make_share_submission
  <2>2. QED
    BY <2>1, <1>4
<1>7. /\ leaf = FipsDouble(job.coinb1 \o Extranonce1 \o extranonce2 \o job.coinb2)
      /\ IsBytes(leaf, 32)
  BY <1>1, <1>2, CoinbaseHash
<1>8. root = PoolRoot(leaf, job.merkle_branch) /\ IsBytes(root, 32)
  BY <1>1, <1>2, <1>7, SameRoot
<1>9. prevhash = byteswap_each_u32(job.prevhash) /\ IsBytes(prevhash, 32)
  <2>1. PICK n \in Nat : n = 8
    OBVIOUS
  <2>2. 4 * n = 32
    BY <2>1
  <2>3. IsBytes(job.prevhash, 4 * n)
    BY <2>2, <1>1
  <2>4. IsBytes(byteswap_each_u32(job.prevhash), 4 * n)
    BY <2>3, SwappedBytes
  <2>5. QED
    BY <2>2, <2>4, <1>2 DEF prevhash_sha_input_from_job
<1>10. PICK t : t = job.version \o job.prevhash \o byteswap_each_u32(root)
                      \o job.ntime \o job.nbits \o number
  OBVIOUS
<1>11. PoolHeader(submission) = byteswap_each_u32(t)
  <2>1. PICK j, l, r : /\ j = JobOf(submission.job_id)
                       /\ l = FipsDouble(j.coinb1 \o Extranonce1
                                           \o submission.extranonce2_hex \o j.coinb2)
                       /\ r = PoolRoot(l, j.merkle_branch)
    OBVIOUS
  <2>2. PoolHeader(submission)
          = byteswap_each_u32(j.version \o j.prevhash \o byteswap_each_u32(r)
              \o submission.ntime_hex \o j.nbits \o submission.nonce_hex)
    BY <2>1, Zenon DEF PoolHeader
  <2>3. j = job
    BY <2>1, <1>1, <1>6, Zenon
  <2>4. l = leaf
    BY <2>1, <2>3, <1>6, <1>7, Zenon
  <2>5. r = root
    BY <2>1, <2>3, <2>4, <1>8, Zenon
  <2>6. QED
    BY <2>2, <2>3, <2>5, <1>6, <1>10, Zenon
<1>12. PICK u : u = make_sha_input_header_bytes(job, prevhash, root, nonce)
  OBVIOUS
<1>13. byteswap_each_u32(t) = u
  <2>1. IsHeader(t, job.version, job.prevhash, byteswap_each_u32(root),
                 job.ntime, job.nbits, number)
    BY <1>10, Zenon DEF IsHeader
  <2>2. IsHeader(u, Reverse(job.version), byteswap_each_u32(job.prevhash), root,
                 Reverse(job.ntime), Reverse(job.nbits), Reverse(number))
    BY <1>2, <1>9, <1>12, Zenon DEF IsHeader, make_sha_input_header_bytes, write_le32
  <2>3. IsBytes(job.version, 4) /\ IsBytes(job.ntime, 4) /\ IsBytes(job.nbits, 4)
    BY <1>1 DEF HasFields
  <2>4. IsBytes(number, 4)
    <3>1. 4 \in Nat
      OBVIOUS
    <3>2. QED
      BY <3>1, <1>2, BigEndianBytes
  <2>5. QED
    BY <2>1, <2>2, <2>3, <2>4, <1>1, <1>8, FlippedHeader
<1>14. PoolHash(submission) = FipsDouble(u)
  BY <1>11, <1>13, Zenon DEF PoolHash
<1>15. hash_header_template(
         set_header_nonce(make_sha_header_template(job, prevhash, root, 0), nonce))
         = FipsDouble(u)
  BY <1>1, <1>8, <1>9, <1>12, HeaderHash
<1>16. QED
  BY <1>3, <1>4, <1>5, <1>14, <1>15

-----------------------------------------------------------------------------
(* Work. *)

(* The last nonce. *)
LEMMA NonceSpace == kMaxNonce \in Nat
<1>1. Byte \in Nat \ {0, 1}
  BY AssemblyAssumption
<1>2. Byte * Byte \in Nat \ {0}
  BY <1>1
<1>3. Byte * Byte * Byte \in Nat \ {0}
  BY <1>1, <1>2
<1>4. Byte * Byte * Byte * Byte \in Nat \ {0}
  BY <1>1, <1>3
<1>5. QED
  BY <1>4 DEF kMaxNonce

(* The last nonce of a chunk. *)
LEMMA ChunkBounds ==
  ASSUME work.nonce \in 0 .. kMaxNonce
  PROVE  /\ ChunkEnd \in work.nonce .. kMaxNonce
         /\ ChunkEnd \in Int
BY NonceSpace, AssemblyAssumption DEF ChunkEnd

(* The shape of prepared work. *)
LEMMA PreparedShape ==
  ASSUME NEW job, NEW counter
  PROVE  LET p == prepare_work(job, counter)
         IN /\ p.job = job
            /\ p.extranonce2_counter = counter
            /\ \A m, n :
                 set_header_nonce(set_header_nonce(p.header_template, m), n)
                   = set_header_nonce(p.header_template, n)
<1>1. ASSUME NEW prevhash, NEW root, NEW m, NEW n
      PROVE  LET h == make_sha_header_template(job, prevhash, root, 0)
             IN set_header_nonce(set_header_nonce(h, m), n) = set_header_nonce(h, n)
  BY DEF set_header_nonce, make_sha_header_template
<1>2. QED
  BY <1>1 DEF prepare_work

(* A job's work and the coordinator's, built with the same extranonce2. *)
LEMMA NewWork ==
  ASSUME NEW job, NEW counter,
         work' = work_state_from_prepared(prepare_work(job, counter), 0),
         set_job(work'.job, work'.extranonce2_counter)
  PROVE  /\ work'.job = job
         /\ work'.nonce = 0
         /\ prepared' = prepare_work(work'.job, work'.extranonce2_counter)
         /\ [work' EXCEPT !.nonce = 0] = work_state_from_prepared(prepared', 0)
<1> DEFINE p == prepare_work(job, counter)
<1>1. p.job = job /\ p.extranonce2_counter = counter
  BY PreparedShape
<1>2. work' = [job |-> job, extranonce2_counter |-> counter,
               extranonce2_hex |-> p.extranonce2_hex, nonce |-> 0,
               header_template |-> set_header_nonce(p.header_template, 0)]
  <2> HIDE DEF p
  <2>1. work' = work_state_from_prepared(p, 0)
    BY DEF p
  <2>2. QED
    BY <1>1, <2>1 DEF work_state_from_prepared
<1>3. prepared' = p
  <2>1. work'.job = job /\ work'.extranonce2_counter = counter
    BY <1>2
  <2>2. QED
    BY <2>1 DEF set_job
<1>4. [work' EXCEPT !.nonce = 0] = work'
  BY <1>2
<1>5. QED
  BY <1>2, <1>3, <1>4

-----------------------------------------------------------------------------
(* Each step preserves the invariant. *)

(* The steps that replace the work: the coordinator's goes with it. *)
LEMMA NewWorkStep ==
  ASSUME AssemblyInv, Adopt \/ Advance
  PROVE  AssemblyInv'
<1>1. PICK job, counter :
        /\ job \in Jobs
        /\ work' = work_state_from_prepared(prepare_work(job, counter), 0)
        /\ set_job(work'.job, work'.extranonce2_counter)
        /\ pc' = "chunk"
  <2>1. CASE Adopt
    <3>1. PICK job \in Jobs :
            /\ work' = work_state_from_prepared(prepare_work(job, 0), 0)
            /\ set_job(job, work'.extranonce2_counter)
            /\ pc' = "chunk"
      BY <2>1 DEF Adopt
    <3>2. work'.job = job
      <4>1. prepare_work(job, 0).job = job
        BY PreparedShape
      <4>2. QED
        BY <3>1, <4>1 DEF work_state_from_prepared
    <3>3. QED
      BY <3>1, <3>2
  <2>2. CASE Advance
    BY <2>2 DEF Advance, AssemblyInv
  <2>3. QED
    BY <2>1, <2>2
<1>2. /\ work'.job = job
      /\ work'.nonce = 0
      /\ prepared' = prepare_work(work'.job, work'.extranonce2_counter)
      /\ [work' EXCEPT !.nonce = 0] = work_state_from_prepared(prepared', 0)
  BY <1>1, NewWork
<1>3. 0 \in 0 .. kMaxNonce
  BY NonceSpace
<1>4. found' = NoWork
  BY DEF AssemblyInv, Adopt, Advance, ScanReturns, scanVars
<1>5. QED
  BY <1>1, <1>2, <1>3, <1>4 DEF AssemblyInv, InStep, ChunkEnd

(* A scan starts where the worker is. *)
LEMMA StartScanStep ==
  ASSUME AssemblyInv, StartScan
  PROVE  AssemblyInv'
<1>1. /\ scan_work' = work_state_from_prepared(prepared, work.nonce)
      /\ scan_nonce' = work.nonce
      /\ pc = "chunk" /\ pc' = "scan"
      /\ work' = work /\ prepared' = prepared
  BY DEF StartScan
<1>2. scan_work'.nonce = work.nonce
  BY <1>1 DEF work_state_from_prepared
<1>3. work.nonce \in 0 .. kMaxNonce /\ work.job \in Jobs
  BY <1>1 DEF AssemblyInv
<1>4. ChunkEnd \in work.nonce .. kMaxNonce /\ ChunkEnd' = ChunkEnd
  BY <1>1, <1>3, ChunkBounds DEF ChunkEnd
<1>5. scan_nonce' \in work.nonce .. ChunkEnd + 1
  BY <1>1, <1>3, <1>4, NonceSpace
<1>6. found' = NoWork
  BY <1>1 DEF AssemblyInv, StartScan
<1>7. QED
  BY <1>1, <1>2, <1>3, <1>4, <1>5, <1>6 DEF AssemblyInv, InStep

(* Each nonce is written over the one before it. *)
LEMMA HashNonceStep ==
  ASSUME AssemblyInv, HashNonce
  PROVE  AssemblyInv'
<1>1. /\ scan_work' = [scan_work EXCEPT !.nonce = scan_nonce,
                        !.header_template = set_header_nonce(@, scan_nonce)]
      /\ scan_nonce' = scan_nonce /\ scan_nonce <= ChunkEnd
      /\ pc = "scan" /\ pc' = "hashed"
      /\ work' = work /\ prepared' = prepared
  BY DEF HashNonce
<1>2. /\ work.nonce \in 0 .. kMaxNonce /\ work.job \in Jobs
      /\ scan_work = work_state_from_prepared(prepared, scan_work.nonce)
      /\ scan_nonce \in work.nonce .. ChunkEnd + 1
      /\ prepared = prepare_work(work.job, work.extranonce2_counter)
  BY <1>1 DEF AssemblyInv, InStep
<1>3. \A m, n :
        set_header_nonce(set_header_nonce(prepared.header_template, m), n)
          = set_header_nonce(prepared.header_template, n)
  BY <1>2, PreparedShape
<1>4. scan_work' = work_state_from_prepared(prepared, scan_nonce)
  <2> DEFINE m == scan_work.nonce
  <2> HIDE DEF m
  <2>1. scan_work = work_state_from_prepared(prepared, m)
    BY <1>2 DEF m
  <2>2. scan_work.header_template = set_header_nonce(prepared.header_template, m)
    BY <2>1 DEF work_state_from_prepared
  <2>3. set_header_nonce(scan_work.header_template, scan_nonce)
          = set_header_nonce(prepared.header_template, scan_nonce)
    BY <2>2, <1>3
  <2>4. QED
    BY <1>1, <2>1, <2>3 DEF work_state_from_prepared
<1>5. scan_work'.nonce = scan_nonce
  BY <1>4 DEF work_state_from_prepared
<1>6. ChunkEnd' = ChunkEnd
  BY <1>1 DEF ChunkEnd
<1>7. hash' = hash_header_template(scan_work'.header_template) /\ found' = NoWork
  BY DEF HashNonce
<1>8. QED
  BY <1>1, <1>2, <1>4, <1>5, <1>6, <1>7 DEF AssemblyInv, InStep

(* The share of a nonce. *)
Share(nonce) ==
  [submission |-> make_share_submission(prepared, nonce),
   candidate |-> Candidate(nonce),
   hash |-> hash_header_template(set_header_nonce(prepared.header_template, nonce))]

(* What the coordinator hands on is the share of the nonce just hashed. *)
LEMMA FoundIsShare ==
  ASSUME AssemblyInv, FoundShare
  PROVE  found' = Share(scan_nonce)
<1>1. /\ hash = hash_header_template(scan_work.header_template)
      /\ scan_work.nonce = scan_nonce
      /\ scan_work = work_state_from_prepared(prepared, scan_work.nonce)
  BY DEF AssemblyInv, InStep, FoundShare
<1>2. scan_work = work_state_from_prepared(prepared, scan_nonce)
  BY <1>1
<1>3. scan_work.header_template = set_header_nonce(prepared.header_template, scan_nonce)
  BY <1>2 DEF work_state_from_prepared
<1>4. QED
  BY <1>1, <1>3 DEF FoundShare, Share

(* After a nonce, share or not, comes the next. *)
LEMMA NextNonceStep ==
  ASSUME AssemblyInv, Miss \/ FoundShare
  PROVE  AssemblyInv'
<1>1. /\ pc = "hashed" /\ pc' = "scan"
      /\ scan_nonce' = scan_nonce + 1
      /\ work' = work /\ prepared' = prepared /\ scan_work' = scan_work
  BY DEF Miss, FoundShare
<1>2. work.nonce \in 0 .. kMaxNonce /\ scan_nonce <= ChunkEnd
      /\ scan_nonce \in work.nonce .. ChunkEnd + 1
  BY <1>1 DEF AssemblyInv, InStep
<1>3. ChunkEnd \in work.nonce .. kMaxNonce /\ ChunkEnd' = ChunkEnd
  BY <1>1, <1>2, ChunkBounds DEF ChunkEnd
<1>4. scan_nonce' \in work.nonce .. ChunkEnd + 1
  BY <1>1, <1>2, <1>3, NonceSpace
<1>5. found' # NoWork => found' = Share(scan_nonce)
  <2>1. CASE Miss
    BY <1>1, <2>1 DEF AssemblyInv, Miss
  <2>2. CASE FoundShare
    BY <2>2, FoundIsShare
  <2>3. QED
    BY <2>1, <2>2
<1>6. scan_nonce' - 1 = scan_nonce
  BY <1>1, <1>2, <1>3, NonceSpace
<1>7. (found # NoWork => found = Share(scan_nonce - 1))'
  BY <1>1, <1>5, <1>6 DEF Share, Candidate
<1>8. QED
  BY <1>1, <1>3, <1>4, <1>7 DEF AssemblyInv, InStep, Share

(* The next chunk starts behind this one, in the same work. *)
LEMMA NextChunkStep ==
  ASSUME AssemblyInv, NextChunk
  PROVE  AssemblyInv'
<1>1. /\ pc = "scan" /\ pc' = "chunk" /\ ChunkEnd < kMaxNonce
      /\ work' = [work EXCEPT !.nonce = ChunkEnd + 1]
      /\ prepared' = prepared
  BY DEF NextChunk
<1>2. /\ work.nonce \in 0 .. kMaxNonce /\ work.job \in Jobs
      /\ prepared = prepare_work(work.job, work.extranonce2_counter)
      /\ [work EXCEPT !.nonce = 0] = work_state_from_prepared(prepared, 0)
  BY <1>1 DEF AssemblyInv, InStep
<1>3. ChunkEnd \in work.nonce .. kMaxNonce
  BY <1>2, ChunkBounds
<1>4. /\ work'.nonce \in 0 .. kMaxNonce
      /\ work'.job = work.job
      /\ work'.extranonce2_counter = work.extranonce2_counter
      /\ [work' EXCEPT !.nonce = 0] = [work EXCEPT !.nonce = 0]
  <2> DEFINE w == [work EXCEPT !.nonce = 0]
  <2>1. {"nonce", "job", "extranonce2_counter"} \subseteq DOMAIN w /\ DOMAIN w = DOMAIN work
    BY <1>2 DEF work_state_from_prepared
  <2>2. work'.nonce = ChunkEnd + 1
    BY <1>1, <2>1
  <2>3. ChunkEnd + 1 \in 0 .. kMaxNonce
    BY <1>1, <1>2, <1>3, NonceSpace
  <2>4. work'.job = work.job /\ work'.extranonce2_counter = work.extranonce2_counter
    BY <1>1, <2>1
  <2>5. [work' EXCEPT !.nonce = 0] = [work EXCEPT !.nonce = 0]
    BY <1>1
  <2>6. QED
    BY <2>2, <2>3, <2>4, <2>5
<1>5. found' = NoWork
  BY DEF NextChunk, ScanReturns
<1>6. QED
  BY <1>1, <1>2, <1>4, <1>5 DEF AssemblyInv, InStep

(* The scan that was superseded, and the end of the worker. *)
LEMMA LeaveStep ==
  ASSUME AssemblyInv, Superseded \/ Exhausted
  PROVE  AssemblyInv'
BY DEF AssemblyInv, InStep, Superseded, Exhausted, ScanReturns

(* No step. *)
LEMMA StutterStep ==
  ASSUME AssemblyInv, UNCHANGED vars
  PROVE  AssemblyInv'
BY DEF AssemblyInv, InStep, ChunkEnd, Candidate, vars, scanVars

(* The inductive invariant, for every set of jobs, every size of           *)
(* extranonce2 and every chunk size (main.cpp 798-838, 910-940;            *)
(* coordinator.cpp 20-61; scan.cpp 45-100).                                *)
THEOREM AssemblyCorrect == Spec => []AssemblyInv
<1>1. Init => AssemblyInv
  BY DEF Init, AssemblyInv, InStep
<1>2. AssemblyInv /\ [Next]_vars => AssemblyInv'
  BY NewWorkStep, StartScanStep, HashNonceStep, NextNonceStep, NextChunkStep,
     LeaveStep, StutterStep DEF Next, Done
<1>3. QED
  BY <1>1, <1>2, PTL DEF Spec

(* The work the worker counts through and the work that is scanned never   *)
(* drift apart, over any number of chunks, extranonce2 values and          *)
(* publications.                                                           *)
THEOREM WorkInStep == Spec => []InStep
<1>1. AssemblyInv => InStep
  BY DEF AssemblyInv
<1>2. QED
  BY <1>1, AssemblyCorrect, PTL

(* Whatever the jobs and however far the nonces, chunks and extranonce2    *)
(* have got, the pool, from the submission alone, computes the hash the    *)
(* worker found, and the candidate is of the same share (cpu_backend.cpp   *)
(* 12-37; coordinator.cpp 50-61; sha256.cpp 60-78, 148-206).               *)
THEOREM SharesReproduce == Spec => []SubmissionReproduces
<1>1. ASSUME AssemblyInv, found # NoWork
      PROVE  /\ PoolHash(found.submission) = found.hash
             /\ hash_header_template(found.candidate.header_template) = found.hash
             /\ make_share_submission(found.candidate, found.candidate.nonce)
                  = found.submission
  <2>1. PICK nonce : nonce = scan_nonce - 1
    OBVIOUS
  <2>2. /\ found = Share(nonce)
        /\ work.job \in Jobs
        /\ prepared = prepare_work(work.job, work.extranonce2_counter)
    BY <2>1, <1>1 DEF AssemblyInv, InStep, Share
  <2>3. PICK submission, hashed, candidate :
          /\ submission = make_share_submission(prepared, nonce)
          /\ hashed = hash_header_template(set_header_nonce(prepared.header_template, nonce))
          /\ candidate = Candidate(nonce)
    OBVIOUS
  <2>4. /\ found.submission = submission
        /\ found.hash = hashed
        /\ found.candidate = candidate
    <3>1. found = [submission |-> submission, candidate |-> candidate, hash |-> hashed]
      BY <2>2, <2>3, Zenon DEF Share
    <3>2. QED
      BY <3>1
  <2>5. PoolHash(submission) = hashed
    <3>1. PICK job, counter :
             job \in Jobs /\ prepared = prepare_work(job, counter)
      BY <2>2
    <3>2. PoolHash(make_share_submission(prepare_work(job, counter), nonce))
            = hash_header_template(
                set_header_nonce(prepare_work(job, counter).header_template, nonce))
      BY <3>1, Reconstruction
    <3>3. QED
      BY <3>1, <3>2, <2>3, Zenon
  <2>6. /\ candidate.job = prepared.job
        /\ candidate.extranonce2_hex = prepared.extranonce2_hex
        /\ candidate.nonce = nonce
        /\ candidate.header_template = set_header_nonce(prepared.header_template, nonce)
    <3>1. PICK w : w = work_state_from_prepared(prepared, 0)
      OBVIOUS
    <3>2. candidate = with_nonce(w, nonce)
      BY <3>1, <2>3, Zenon DEF Candidate
    <3>3. /\ w = [job |-> w.job, extranonce2_counter |-> w.extranonce2_counter,
                  extranonce2_hex |-> w.extranonce2_hex, nonce |-> w.nonce,
                  header_template |-> w.header_template]
          /\ w.job = prepared.job
          /\ w.extranonce2_hex = prepared.extranonce2_hex
          /\ w.header_template = set_header_nonce(prepared.header_template, 0)
      BY <3>1 DEF work_state_from_prepared
    <3>4. /\ candidate.job = w.job
          /\ candidate.extranonce2_hex = w.extranonce2_hex
          /\ candidate.nonce = nonce
          /\ candidate.header_template = set_header_nonce(w.header_template, nonce)
      BY <3>2, <3>3 DEF with_nonce
    <3>5. set_header_nonce(set_header_nonce(prepared.header_template, 0), nonce)
            = set_header_nonce(prepared.header_template, nonce)
      BY <2>2, PreparedShape
    <3>6. QED
      BY <3>3, <3>4, <3>5
  <2>7. make_share_submission(candidate, candidate.nonce) = submission
    BY <2>3, <2>6 DEF make_share_submission
  <2>8. hash_header_template(candidate.header_template) = hashed
    BY <2>3, <2>6
  <2>9. QED
    BY <2>4, <2>5, <2>7, <2>8
<1>2. AssemblyInv => SubmissionReproduces
  BY <1>1 DEF SubmissionReproduces
<1>3. QED
  BY <1>2, AssemblyCorrect, PTL

-----------------------------------------------------------------------------
(* The diagnostic's model of the miner. *)

(* A string of 32 bytes turned round, wholly. *)
LEMMA ReversedHash ==
  ASSUME NEW s, IsBytes(s, 32)
  PROVE  IsBytes(Reverse(s), 32) /\ \A k \in 1 .. 32 : Reverse(s)[k] = s[33 - k]
<1>1. PICK t : t = Reverse(s)
  OBVIOUS
<1>2. t = [i \in 1 .. 32 |-> s[(32 - i) + 1]]
  BY <1>1 DEF Reverse, IsBytes
<1>3. t = [i \in 1 .. 32 |-> t[i]]
  BY <1>2
<1>4. IsBytes(t, 32)
  BY <1>3, FormString
<1>5. \A k \in 1 .. 32 : t[k] = s[33 - k]
  BY <1>2
<1>6. QED
  BY <1>1, <1>4, <1>5

(* Each of the transforms undoes itself. *)
LEMMA TransformTwice ==
  ASSUME NEW s, IsBytes(s, 32), NEW t \in all_transforms
  PROVE  apply_transform(apply_transform(s, t), t) = s
<1>1. CASE t = "identity"
  BY <1>1 DEF apply_transform
<1>2. CASE t = "reverse_32"
  <2>1. PICK r, q : r = Reverse(s) /\ q = Reverse(r)
    OBVIOUS
  <2>2. IsBytes(r, 32) /\ \A k \in 1 .. 32 : r[k] = s[33 - k]
    BY <2>1, ReversedHash
  <2>3. IsBytes(q, 32) /\ \A k \in 1 .. 32 : q[k] = r[33 - k]
    BY <2>1, <2>2, ReversedHash
  <2>4. \A k \in 1 .. 32 : q[k] = s[k]
    BY <2>2, <2>3
  <2>5. 32 \in Nat
    OBVIOUS
  <2>6. q = s
    BY <2>3, <2>4, <2>5, SameBytes
  <2>7. \A x : apply_transform(x, t) = Reverse(x)
    BY <1>2 DEF apply_transform
  <2>8. QED
    BY <2>1, <2>6, <2>7, Zenon
<1>3. CASE t = "swap_u32_bytes"
  <2>1. PICK r, q : r = byteswap_each_u32(s) /\ q = byteswap_each_u32(r)
    OBVIOUS
  <2>2. PICK n \in Nat : n = 8
    OBVIOUS
  <2>3. 4 * n = 32 /\ 0 .. n - 1 = 0 .. 7
    BY <2>2
  <2>4. /\ IsBytes(r, 32)
        /\ \A i \in 0 .. 7, b \in 1 .. 4 : r[4 * i + b] = s[4 * i + 5 - b]
    <3>1. IsBytes(s, 4 * n)
      BY <2>3
    <3>2. /\ IsBytes(r, 4 * n)
          /\ \A i \in 0 .. n - 1, b \in 1 .. 4 : r[4 * i + b] = s[4 * i + 5 - b]
      BY <3>1, <2>1, SwappedBytes
    <3>3. QED
      BY <3>2, <2>3
  <2>5. /\ IsBytes(q, 32)
        /\ \A i \in 0 .. 7, b \in 1 .. 4 : q[4 * i + b] = r[4 * i + 5 - b]
    <3>1. IsBytes(r, 4 * n)
      BY <2>3, <2>4
    <3>2. /\ IsBytes(q, 4 * n)
          /\ \A i \in 0 .. n - 1, b \in 1 .. 4 : q[4 * i + b] = r[4 * i + 5 - b]
      BY <3>1, <2>1, SwappedBytes
    <3>3. QED
      BY <3>2, <2>3
  <2>6. ASSUME NEW k \in 1 .. 32
        PROVE  q[k] = s[k]
    <3>1. PICK i \in 0 .. 7, b \in 1 .. 4 : k = 4 * i + b
      <4>1. (k - 1) \div 4 \in 0 .. 7 /\ ((k - 1) % 4) + 1 \in 1 .. 4
            /\ k = 4 * ((k - 1) \div 4) + (((k - 1) % 4) + 1)
        OBVIOUS
      <4>2. QED
        BY <4>1
    <3>2. PICK c \in 1 .. 4 : c = 5 - b
      OBVIOUS
    <3>3. q[k] = r[4 * i + c]
      BY <3>1, <3>2, <2>5
    <3>4. r[4 * i + c] = s[k]
      BY <3>1, <3>2, <2>4
    <3>5. QED
      BY <3>3, <3>4
  <2>7. 32 \in Nat
    OBVIOUS
  <2>8. q = s
    BY <2>5, <2>6, <2>7, SameBytes
  <2>9. \A x : apply_transform(x, t) = byteswap_each_u32(x)
    BY <1>3 DEF apply_transform
  <2>10. QED
    BY <2>1, <2>8, <2>9, Zenon
<1>4. QED
  BY <1>1, <1>2, <1>3 DEF all_transforms

(* There is one way up a branch. *)
LEMMA FoldUnique ==
  ASSUME NEW leaf, NEW branch, NEW n \in Nat, NEW f, NEW g,
         IsFold(f, n, leaf, branch), IsFold(g, n, leaf, branch)
  PROVE  f[n] = g[n]
<1> DEFINE S == {k \in Nat : k <= n => f[k] = g[k]}
<1>1. 0 \in S
  BY DEF IsFold
<1>2. ASSUME NEW k \in Nat, k \in S
      PROVE  k + 1 \in S
  <2>1. SUFFICES ASSUME k + 1 <= n PROVE f[k + 1] = g[k + 1]
    OBVIOUS
  <2>2. PICK i \in 1 .. n : i = k + 1
    BY <2>1
  <2>3. f[i - 1] = g[i - 1]
    BY <2>2, <1>2
  <2>4. /\ f[i] = dbl_sha256_bytes(f[i - 1] \o branch[i])
        /\ g[i] = dbl_sha256_bytes(g[i - 1] \o branch[i])
    BY DEF IsFold
  <2>5. f[i] = g[i]
    BY <2>3, <2>4, Zenon
  <2>6. QED
    BY <2>2, <2>5
<1> HIDE DEF S
<1>3. n \in S
  BY <1>1, <1>2, Induction
<1>4. QED
  BY <1>3 DEF S

(* The tool's fold is the miner's, where its transform does nothing.       *)
LEMMA SameFold ==
  ASSUME NEW leaf, NEW branch, IsString(branch), NEW t,
         t = "identity" \/ branch = <<>>
  PROVE  merkle_fold_variant(leaf, branch, t) = merkle_fold(leaf, branch)
<1> DEFINE n == Len(branch)
           Up(g) == [i \in 0 .. n |-> IF i = 0 THEN leaf
                                      ELSE dbl_sha256_bytes(g[i - 1] \o branch[i])]
           ToolUp(g) == [i \in 0 .. n |->
                           IF i = 0 THEN leaf
                           ELSE dbl_sha256_bytes(g[i - 1] \o apply_transform(branch[i], t))]
           f == CHOOSE g : g = Up(g)
           r == CHOOSE g : g = ToolUp(g)
<1>1. n \in Nat
  BY StringForm
<1>2. merkle_fold(leaf, branch) = f[n] /\ merkle_fold_variant(leaf, branch, t) = r[n]
  BY Zenon DEF merkle_fold, merkle_fold_variant
<1>3. ASSUME NEW g
      PROVE  Up(g) = ToolUp(g)
  <2>1. ASSUME NEW i \in 0 .. n, i # 0
        PROVE  apply_transform(branch[i], t) = branch[i]
    <3>1. CASE t = "identity"
      BY <3>1 DEF apply_transform
    <3>2. CASE branch = <<>>
      BY <3>2, <2>1
    <3>3. QED
      BY <3>1, <3>2
  <2> HIDE DEF n
  <2>2. QED
    BY <2>1
<1>4. PICK g : IsFold(g, n, leaf, branch)
  <2> HIDE DEF n
  <2>1. QED
    BY <1>1, FoldExists
<1>5. g = Up(g)
  BY <1>4, Zenon DEF IsFold
<1>6. g = ToolUp(g)
  BY <1>3, <1>5
<1>7. f = Up(f)
  <2> HIDE DEF Up
  <2>1. QED
    BY <1>5
<1>8. r = ToolUp(r)
  <2> HIDE DEF ToolUp
  <2>1. QED
    BY <1>6
<1> HIDE DEF f, r
<1>9. IsFold(f, n, leaf, branch) /\ IsFold(r, n, leaf, branch)
  <2>1. r = Up(r)
    BY <1>3, <1>8
  <2>2. QED
    BY <2>1, <1>7, Zenon DEF IsFold
<1> HIDE DEF n
<1>10. f[n] = r[n]
  BY <1>1, <1>9, FoldUnique
<1>11. QED
  BY <1>2, <1>10

(* Without branches the root is the leaf.                                  *)
LEMMA EmptyFold ==
  ASSUME NEW leaf
  PROVE  merkle_fold(leaf, <<>>) = leaf
<1> DEFINE Up(g) == [i \in 0 .. Len(<<>>) |->
                       IF i = 0 THEN leaf
                       ELSE dbl_sha256_bytes(g[i - 1] \o (<<>>)[i])]
           f == CHOOSE g : g = Up(g)
<1>1. merkle_fold(leaf, <<>>) = f[Len(<<>>)]
  BY Zenon DEF merkle_fold
<1>2. Len(<<>>) = 0
  OBVIOUS
<1>3. f = Up(f)
  <2>1. PICK g : g = [i \in 0 .. 0 |-> leaf]
    OBVIOUS
  <2>2. g = Up(g)
    BY <2>1, <1>2
  <2> HIDE DEF Up
  <2>3. QED
    BY <2>2
<1> HIDE DEF f
<1>4. f[0] = leaf
  BY <1>2, <1>3
<1>5. QED
  BY <1>1, <1>2, <1>4

(* The tool, given what was submitted, hashes what the miner hashed, by    *)
(* each of the models it would call the current miner's.                   *)
LEMMA ToolHash ==
  ASSUME NEW job \in Jobs, NEW counter, NEW nonce, NEW v \in Variants, SameModel(v, job)
  PROVE  LET p == prepare_work(job, counter)
         IN evaluate_variant(job, p.extranonce2_hex, nonce, v)
              = hash_header_template(set_header_nonce(p.header_template, nonce))
<1>1. /\ HasFields(job) /\ IsBytes(job.prevhash, 32)
      /\ IsString(job.coinb1) /\ IsString(job.coinb2)
      /\ IsString(job.merkle_branch)
      /\ \A i \in DOMAIN job.merkle_branch : IsBytes(job.merkle_branch[i], 32)
  BY FieldsOf
<1>2. PICK extranonce2, leaf, root, prevhash :
        /\ extranonce2 = extranonce2_from_counter(counter)
        /\ leaf = build_coinbase(job, extranonce2)
        /\ root = merkle_fold(leaf, job.merkle_branch)
        /\ prevhash = prevhash_sha_input_from_job(job)
  OBVIOUS
<1>3. PICK p : p = prepare_work(job, counter)
  OBVIOUS
<1>4. /\ p.extranonce2_hex = extranonce2
      /\ p.header_template = make_sha_header_template(job, prevhash, root, 0)
  <2>1. p = [job |-> job, extranonce2_counter |-> counter,
             extranonce2_hex |-> extranonce2,
             header_template |-> make_sha_header_template(job, prevhash, root, 0)]
    BY <1>2, <1>3, Zenon DEF prepare_work
  <2>2. QED
    BY <2>1
<1>5. IsBytes(leaf, 32)
  BY <1>1, <1>2, CoinbaseHash
<1>6. IsBytes(root, 32)
  BY <1>1, <1>2, <1>5, SameRoot
<1>7. prevhash = byteswap_each_u32(job.prevhash) /\ IsBytes(prevhash, 32)
  <2>1. PICK n \in Nat : n = 8
    OBVIOUS
  <2>2. 4 * n = 32
    BY <2>1
  <2>3. IsBytes(job.prevhash, 4 * n)
    BY <2>2, <1>1
  <2>4. IsBytes(byteswap_each_u32(job.prevhash), 4 * n)
    BY <2>3, SwappedBytes
  <2>5. QED
    BY <2>2, <2>4, <1>2 DEF prevhash_sha_input_from_job
<1>8. \A x : apply_transform(x, "identity") = x
             /\ apply_transform(x, "swap_u32_bytes") = byteswap_each_u32(x)
  BY DEF apply_transform
<1>9. apply_transform(job.prevhash, v.prevhash) = prevhash
  <2>1. v.prevhash = "swap_u32_bytes"
    BY DEF SameModel, current_miner
  <2>2. QED
    BY <2>1, <1>7, <1>8
<1>10. apply_transform(merkle_fold_variant(apply_transform(leaf, v.coinbase),
                                           job.merkle_branch, v.branch),
                       v.final_merkle) = root
  <2>1. CASE job.merkle_branch = <<>>
    <3>1. v.coinbase = v.final_merkle /\ v.coinbase \in all_transforms
      BY <2>1 DEF SameModel, Variants
    <3>2. PICK start : start = apply_transform(leaf, v.coinbase)
      OBVIOUS
    <3>3. /\ merkle_fold_variant(start, job.merkle_branch, v.branch) = start
          /\ root = leaf
      <4>1. \A x : merkle_fold(x, job.merkle_branch) = x
        BY <2>1, EmptyFold
      <4>2. QED
        BY <4>1, <2>1, <1>1, <1>2, SameFold
    <3>4. QED
      BY <3>1, <3>2, <3>3, <1>5, TransformTwice
  <2>2. CASE job.merkle_branch # <<>>
    <3>1. /\ v.coinbase = "identity" /\ v.branch = "identity"
          /\ v.final_merkle = "identity"
      BY <2>2 DEF SameModel, current_miner
    <3>2. merkle_fold_variant(leaf, job.merkle_branch, v.branch) = root
      BY <3>1, <1>1, <1>2, SameFold
    <3>3. QED
      BY <3>1, <3>2, <1>8
  <2>3. QED
    BY <2>1, <2>2
<1>11. PICK u : u = make_sha_input_header_bytes(job, prevhash, root, nonce)
  OBVIOUS
<1>12. VariantHeader(job, extranonce2, nonce, v) = u
  <2>1. leaf = dbl_sha256_bytes(job.coinb1 \o Extranonce1 \o extranonce2 \o job.coinb2)
    BY <1>2, Zenon DEF build_coinbase
  <2>2. VariantHeader(job, extranonce2, nonce, v)
          = make_sha_input_header_bytes(
              job, apply_transform(job.prevhash, v.prevhash),
              apply_transform(merkle_fold_variant(apply_transform(leaf, v.coinbase),
                                                  job.merkle_branch, v.branch),
                              v.final_merkle), nonce)
    BY <2>1, Zenon DEF VariantHeader
  <2>3. QED
    BY <2>2, <1>9, <1>10, <1>11, Zenon
<1>13. dbl_sha256_bytes(u) = FipsDouble(u)
  <2>1. IsBytes(u, 80)
    BY <1>1, <1>6, <1>7, <1>11, HeaderBytes
  <2>2. 80 \in Nat
    OBVIOUS
  <2>3. QED
    BY <2>1, <2>2, SameDoubleHash
<1>14. hash_header_template(
         set_header_nonce(make_sha_header_template(job, prevhash, root, 0), nonce))
         = FipsDouble(u)
  BY <1>1, <1>6, <1>7, <1>11, HeaderHash
<1>15. evaluate_variant(job, p.extranonce2_hex, nonce, v) = FipsDouble(u)
  BY <1>4, <1>12, <1>13, Zenon DEF evaluate_variant
<1>16. QED
  BY <1>3, <1>4, <1>14, <1>15

(* For every share found, the tool's general path gives the hash of the    *)
(* miner's midstate and hand-padded block under each model it calls the    *)
(* current miner's: the half of ModelIsMiner that does not depend on what  *)
(* the bytes are (rejected_share_repro.cpp 101-190, 290-331).              *)
MinerIsAModel ==
  found # NoWork =>
    \A v \in Variants :
      SameModel(v, work.job) =>
        evaluate_variant(work.job, found.submission.extranonce2_hex, scan_nonce - 1, v)
          = found.hash

(* It holds of every share, whatever the jobs.                             *)
THEOREM ModelReproduces == Spec => []MinerIsAModel
<1>1. ASSUME AssemblyInv, found # NoWork, NEW v \in Variants, SameModel(v, work.job)
      PROVE  evaluate_variant(work.job, found.submission.extranonce2_hex,
                              scan_nonce - 1, v) = found.hash
  <2>1. PICK nonce : nonce = scan_nonce - 1
    OBVIOUS
  <2>2. /\ found = Share(nonce)
        /\ work.job \in Jobs
        /\ prepared = prepare_work(work.job, work.extranonce2_counter)
    BY <2>1, <1>1 DEF AssemblyInv, InStep, Share
  <2>3. /\ found.submission.extranonce2_hex = prepared.extranonce2_hex
        /\ found.hash
             = hash_header_template(set_header_nonce(prepared.header_template, nonce))
    <3>1. PICK submission, hashed, candidate :
            /\ submission = make_share_submission(prepared, nonce)
            /\ hashed
                 = hash_header_template(set_header_nonce(prepared.header_template, nonce))
            /\ candidate = Candidate(nonce)
      OBVIOUS
    <3>2. found = [submission |-> submission, candidate |-> candidate, hash |-> hashed]
      BY <3>1, <2>2, Zenon DEF Share
    <3>3. submission.extranonce2_hex = prepared.extranonce2_hex
      BY <3>1 DEF make_share_submission
    <3>4. QED
      BY <3>1, <3>2, <3>3
  <2>4. PICK job, counter : job = work.job /\ counter = work.extranonce2_counter
    OBVIOUS
  <2>5. evaluate_variant(job, prepare_work(job, counter).extranonce2_hex, nonce, v)
          = hash_header_template(
              set_header_nonce(prepare_work(job, counter).header_template, nonce))
    BY <2>2, <2>4, <1>1, ToolHash
  <2>6. QED
    BY <2>1, <2>2, <2>3, <2>4, <2>5, Zenon
<1>2. AssemblyInv => MinerIsAModel
  BY <1>1 DEF MinerIsAModel
<1>3. QED
  BY <1>2, AssemblyCorrect, PTL

=============================================================================
