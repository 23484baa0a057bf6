---------------------------- MODULE WorkAssembly ----------------------------
(***************************************************************************)
(* From a job to the words that are hashed, and from a found share to what *)
(* the pool reconstructs of it (work_state.cpp, header.cpp, coinbase.cpp,  *)
(* merkle.cpp, coordinator.cpp, cpu_backend.cpp; the worker of main.cpp).  *)
(*                                                                         *)
(* A byte of a job field is the pair of its source and its place there,    *)
(* most significant first, so that every permutation shows; Sha256 makes   *)
(* digests of them.  Counters are real numbers with bytes of base Byte.    *)
(***************************************************************************)
EXTENDS Sha256

CONSTANTS
  Jobs,               \* records of byte strings, as parse_notify fills them
  Extranonce1,        \* SubscriptionContext::extranonce1
  extranonce2_size,   \* SubscriptionContext::extranonce2_size
  SizeLimit,          \* bytes of a std::uint64_t: 8
  Byte,               \* 256
  ChunkSize           \* kNonceChunkSize

IsString(bytes) == bytes \in Seq(Range(bytes))
IsBytes(bytes, size) == IsString(bytes) /\ Len(bytes) = size

(* The sizes that u32_from_hex_be and the conversions to HashBytes demand, *)
(* and the pool's part: an id names one job.                               *)
ASSUME FieldsAssumption ==
  /\ IsString(Extranonce1)
  /\ \A job \in Jobs :
       /\ IsString(job.coinb1) /\ IsString(job.coinb2)
       /\ \A field \in {job.version, job.ntime, job.nbits} : IsBytes(field, 4)
       /\ IsBytes(job.prevhash, 32)
       /\ IsString(job.merkle_branch)
       /\ \A i \in DOMAIN job.merkle_branch : IsBytes(job.merkle_branch[i], 32)
  /\ \A job, other \in Jobs : job.job_id = other.job_id => job = other
ASSUME AssemblyAssumption ==
  /\ extranonce2_size \in 0 .. SizeLimit
  /\ Byte \in Nat \ {0, 1}
  /\ ChunkSize \in Nat \ {0}

kMaxNonce == Byte * Byte * Byte * Byte - 1

BigEndian(v, size) == [k \in 1 .. size |-> Number((v \div Byte ^ (size - k)) % Byte)]

-----------------------------------------------------------------------------
(* Words and bytes.  A word is its four bytes, most significant first:     *)
(* u32_from_hex_be and read_be32 leave the order alone, write_le32 and     *)
(* bswap32 turn it round.                                                  *)

write_le32(word) == Reverse(word)
bswap32(word) == Reverse(word)

block_words_from_bytes(bytes) == Words(bytes)

byteswap_each_u32(bytes) ==
  [k \in DOMAIN bytes |-> bytes[4 * ((k - 1) \div 4) + 4 - ((k - 1) % 4)]]

-----------------------------------------------------------------------------
(* Coinbase and Merkle root. *)

extranonce2_from_counter(counter) == BigEndian(counter, extranonce2_size)

build_coinbase(job, extranonce2) ==
  dbl_sha256_bytes(job.coinb1 \o Extranonce1 \o extranonce2 \o job.coinb2)

merkle_fold(hash_bytes, branch) ==
  LET current[i \in 0 .. Len(branch)] ==
        IF i = 0 THEN hash_bytes ELSE dbl_sha256_bytes(current[i - 1] \o branch[i])
  IN current[Len(branch)]

-----------------------------------------------------------------------------
(* The header template. *)

make_sha_input_header_bytes(job, prevhash, merkle_root, nonce) ==
  write_le32(job.version) \o prevhash \o merkle_root
    \o write_le32(job.ntime) \o write_le32(job.nbits)
    \o write_le32(BigEndian(nonce, 4))

(* What block_words_from_bytes reads behind the 80 bytes is anything; the  *)
(* twelve words are all assigned afterwards.                               *)
Padding ==
  <<Word(128, 0, 0, 0)>> \o [i \in 1 .. 10 |-> Word(0, 0, 0, 0)] \o <<Word(0, 0, 2, 128)>>

make_sha_header_template(job, prevhash, merkle_root, nonce) ==
  LET bytes == make_sha_input_header_bytes(job, prevhash, merkle_root, nonce)
      block0 == block_words_from_bytes(SubSeq(bytes, 1, 64))
      read == block_words_from_bytes(SubSeq(bytes, 65, 80) \o Bytes(Source("anything"), 48))
  IN [midstate |-> compress_block(initial_state, block0),
      block1 |-> [i \in 1 .. 16 |-> IF i > 4 THEN Padding[i - 4] ELSE read[i]]]

set_header_nonce(header, nonce) ==
  [header EXCEPT !.block1[4] = bswap32(BigEndian(nonce, 4))]

hash_header_template(header) ==
  digest_words_to_bytes_be(dbl_sha256_two_block_header(header.midstate, header.block1))

prevhash_sha_input_from_job(job) == byteswap_each_u32(job.prevhash)

-----------------------------------------------------------------------------
(* Prepared work and work state. *)

max_extranonce2_value == Byte ^ extranonce2_size - 1

prepare_work(job, counter) ==
  LET extranonce2 == extranonce2_from_counter(counter)
      merkle_root == merkle_fold(build_coinbase(job, extranonce2), job.merkle_branch)
  IN [job |-> job,
      extranonce2_counter |-> counter,
      extranonce2_hex |-> extranonce2,
      header_template |->
        make_sha_header_template(job, prevhash_sha_input_from_job(job), merkle_root, 0)]

work_state_from_prepared(prepared_work, nonce) ==
  [job |-> prepared_work.job,
   extranonce2_counter |-> prepared_work.extranonce2_counter,
   extranonce2_hex |-> prepared_work.extranonce2_hex,
   nonce |-> nonce,
   header_template |-> set_header_nonce(prepared_work.header_template, nonce)]

with_nonce(work_state, nonce) ==
  [work_state EXCEPT !.nonce = nonce,
                     !.header_template = set_header_nonce(@, nonce)]

make_share_submission(prepared_work, nonce) ==
  [job_id |-> prepared_work.job.job_id,
   extranonce2_hex |-> prepared_work.extranonce2_hex,
   ntime_hex |-> prepared_work.job.ntime,
   nonce_hex |-> BigEndian(nonce, 4)]

-----------------------------------------------------------------------------
VARIABLES
  work,        \* the worker's WorkState
  prepared,    \* MiningCoordinator::prepared_
  scan_work,   \* the WorkState scan_nonce_range writes the nonce into
  scan_nonce,  \* its loop variable
  hash,        \* the hash of this nonce
  found,       \* the share found in this step: submission, candidate and hash
  pc

scanVars == <<scan_work, scan_nonce, hash, found>>
vars == <<work, prepared, scanVars, pc>>

NoWork == [job |-> "none"]

Init ==
  /\ work = NoWork
  /\ prepared = NoWork
  /\ scan_work = NoWork
  /\ scan_nonce = 0
  /\ hash = <<>>
  /\ found = NoWork
  /\ pc = "adopt"

(* MiningCoordinator::set_job. *)
set_job(job, counter) == prepared' = prepare_work(job, counter)

(* The worker takes published work, built with extranonce2 0, and hands    *)
(* its job to the coordinator.                                             *)
Adopt ==
  /\ pc = "adopt"
  /\ \E job \in Jobs :
       /\ work' = work_state_from_prepared(prepare_work(job, 0), 0)
       /\ set_job(job, work'.extranonce2_counter)
  /\ pc' = "chunk"
  /\ UNCHANGED scanVars

ChunkEnd ==
  LET last == work.nonce + ChunkSize - 1
  IN IF last < kMaxNonce THEN last ELSE kMaxNonce

StartScan ==
  /\ pc = "chunk"
  /\ scan_work' = work_state_from_prepared(prepared, work.nonce)
  /\ scan_nonce' = work.nonce
  /\ pc' = "scan"
  /\ UNCHANGED <<work, prepared, hash, found>>

HashNonce ==
  /\ pc = "scan"
  /\ scan_nonce <= ChunkEnd
  /\ scan_work' = [scan_work EXCEPT !.nonce = scan_nonce,
                    !.header_template = set_header_nonce(@, scan_nonce)]
  /\ hash' = hash_header_template(scan_work'.header_template)
  /\ pc' = "hashed"
  /\ found' = NoWork
  /\ UNCHANGED <<work, prepared, scan_nonce>>

Miss ==
  /\ pc = "hashed"
  /\ scan_nonce' = scan_nonce + 1
  /\ pc' = "scan"
  /\ UNCHANGED <<work, prepared, scan_work, hash, found>>

(* What the scan keeps is gone when it returns. *)
ScanReturns ==
  /\ scan_work' = NoWork
  /\ scan_nonce' = 0
  /\ hash' = <<>>
  /\ found' = NoWork

(* The backend builds the candidate afresh. *)
Candidate(nonce) == with_nonce(work_state_from_prepared(prepared, 0), nonce)

(* The coordinator builds the submission; its job cannot have changed      *)
(* since scan_range was called, by this same thread.                       *)
FoundShare ==
  /\ pc = "hashed"
  /\ found' = [submission |-> make_share_submission(prepared, scan_nonce),
               candidate |-> Candidate(scan_nonce),
               hash |-> hash]
  /\ scan_nonce' = scan_nonce + 1
  /\ pc' = "scan"
  /\ UNCHANGED <<work, prepared, scan_work, hash>>

Superseded ==
  /\ pc = "hashed"
  /\ pc' = "adopt"
  /\ ScanReturns
  /\ UNCHANGED <<work, prepared>>

NextChunk ==
  /\ pc = "scan"
  /\ scan_nonce > ChunkEnd
  /\ ChunkEnd < kMaxNonce
  /\ work' = [work EXCEPT !.nonce = ChunkEnd + 1]
  /\ pc' = "chunk"
  /\ ScanReturns
  /\ UNCHANGED prepared

(* The counter has the width of a std::uint64_t. *)
NextCounter == (work.extranonce2_counter + 1) % Byte ^ SizeLimit

(* Faulty variant: the coordinator keeps the work it has. *)
AdvanceAlone ==
  /\ pc = "scan"
  /\ scan_nonce > ChunkEnd
  /\ ChunkEnd = kMaxNonce
  /\ NextCounter <= max_extranonce2_value
  /\ work' = work_state_from_prepared(prepare_work(work.job, NextCounter), 0)
  /\ pc' = "chunk"
  /\ ScanReturns
  /\ UNCHANGED prepared

(* advance_extranonce2, then set_job. *)
Advance ==
  /\ pc = "scan"
  /\ scan_nonce > ChunkEnd
  /\ ChunkEnd = kMaxNonce
  /\ NextCounter <= max_extranonce2_value
  /\ work' = work_state_from_prepared(prepare_work(work.job, NextCounter), 0)
  /\ set_job(work'.job, work'.extranonce2_counter)
  /\ pc' = "chunk"
  /\ ScanReturns

(* prepare_work throws: the worker thread ends. *)
Exhausted ==
  /\ pc = "scan"
  /\ scan_nonce > ChunkEnd
  /\ ChunkEnd = kMaxNonce
  /\ NextCounter > max_extranonce2_value
  /\ pc' = "failed"
  /\ ScanReturns
  /\ UNCHANGED <<work, prepared>>

Done == pc = "failed" /\ UNCHANGED vars

Next ==
  \/ Adopt
  \/ StartScan
  \/ HashNonce
  \/ Miss
  \/ FoundShare
  \/ Superseded
  \/ NextChunk
  \/ Advance
  \/ Exhausted
  \/ Done

Spec == Init /\ [][Next]_vars

-----------------------------------------------------------------------------
(* The pool's side, from the protocol document's section 8: a job-specific *)
(* template in the order the fields are sent, the flipped Merkle root at   *)
(* byte 36, the submitted ntime and nonce at 68 and 76, then flip_80.      *)

JobOf(job_id) == CHOOSE job \in Jobs : job.job_id = job_id

PoolRoot(coinbase_hash, branch) ==
  LET root[i \in 0 .. Len(branch)] ==
        IF i = 0 THEN coinbase_hash ELSE FipsDouble(root[i - 1] \o branch[i])
  IN root[Len(branch)]

PoolHeader(submission) ==
  LET job == JobOf(submission.job_id)
      coinbase ==
        FipsDouble(job.coinb1 \o Extranonce1 \o submission.extranonce2_hex \o job.coinb2)
      root == PoolRoot(coinbase, job.merkle_branch)
      intermediate ==
        job.version \o job.prevhash \o byteswap_each_u32(root)
          \o submission.ntime_hex \o job.nbits \o submission.nonce_hex
  IN byteswap_each_u32(intermediate)

PoolHash(submission) == FipsDouble(PoolHeader(submission))

-----------------------------------------------------------------------------
(* Properties. *)

(* What the pool hashes when it reconstructs a submitted share is, to the  *)
(* last byte, what the worker hashed from its midstate and hand-padded     *)
(* block, whichever extranonce2 and chunk the share comes from; and the    *)
(* candidate that travels with the share describes the same share          *)
(* (cpu_backend.cpp 12-37; coordinator.cpp 50-61; sha256.cpp 60-78,        *)
(* 148-206; doc/ckpool-derived-stratum-v1-spec.md, section 8).             *)
SubmissionReproduces ==
  found # NoWork =>
    /\ PoolHash(found.submission) = found.hash
    /\ hash_header_template(found.candidate.header_template) = found.hash
    /\ make_share_submission(found.candidate, found.candidate.nonce) = found.submission

(* The worker's own work and the coordinator's, which is the one that is   *)
(* scanned, never drift apart: same job, same extranonce2, same midstate   *)
(* (main.cpp 914-915, 816-821; work_state.cpp 157-162).                    *)
InStep ==
  pc # "adopt" =>
    /\ prepared = prepare_work(work.job, work.extranonce2_counter)
    /\ [work EXCEPT !.nonce = 0] = work_state_from_prepared(prepared, 0)
    /\ pc \in {"scan", "hashed"} =>
         /\ scan_work = work_state_from_prepared(prepared, scan_work.nonce)
         /\ scan_nonce \in work.nonce .. ChunkEnd + 1

(* What keeps them in step: the worker's position is a nonce, and the scan *)
(* hashes only behind it and inside the chunk; and what is found is the    *)
(* share of the nonce that was hashed last, of the coordinator's work.     *)
AssemblyInv ==
  /\ pc \in {"adopt", "chunk", "scan", "hashed", "failed"}
  /\ pc # "adopt" => work.job \in Jobs /\ work.nonce \in 0 .. kMaxNonce
  /\ pc = "hashed" =>
       /\ scan_nonce <= ChunkEnd
       /\ scan_work.nonce = scan_nonce
       /\ hash = hash_header_template(scan_work.header_template)
  /\ found # NoWork =>
       /\ pc = "scan"
       /\ found = LET nonce == scan_nonce - 1
                  IN [submission |-> make_share_submission(prepared, nonce),
                      candidate |-> Candidate(nonce),
                      hash |-> hash_header_template(
                                 set_header_nonce(prepared.header_template, nonce))]
  /\ InStep

=============================================================================
