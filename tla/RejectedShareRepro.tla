------------------------- MODULE RejectedShareRepro -------------------------
(***************************************************************************)
(* The diagnostic of repro/rejected_share_repro.cpp: it hashes a recorded  *)
(* share's header once as the miner builds it, and then once for every     *)
(* choice of byte orders for the four 32-byte strings that go into it,     *)
(* looking for a model under which the share would have counted.           *)
(*                                                                         *)
(* The tool knows nothing of midstates: it hashes 80 bytes by the general  *)
(* path.  The recorded share is any that WorkAssembly finds.               *)
(***************************************************************************)
EXTENDS WorkAssembly

all_transforms == {"identity", "reverse_32", "swap_u32_bytes"}

apply_transform(in, t) ==
  CASE t = "identity" -> in
    [] t = "reverse_32" -> Reverse(in)
    [] t = "swap_u32_bytes" -> byteswap_each_u32(in)

merkle_fold_variant(leaf, branch, t) ==
  LET current[i \in 0 .. Len(branch)] ==
        IF i = 0 THEN leaf
                 ELSE dbl_sha256_bytes(current[i - 1] \o apply_transform(branch[i], t))
  IN current[Len(branch)]

Variants == [coinbase : all_transforms, prevhash : all_transforms,
             branch : all_transforms, final_merkle : all_transforms]

(* evaluate_variant, the header. *)
VariantHeader(job, extranonce2, nonce, v) ==
  LET coinbase_hash == dbl_sha256_bytes(job.coinb1 \o Extranonce1 \o extranonce2 \o job.coinb2)
      merkle_root == merkle_fold_variant(apply_transform(coinbase_hash, v.coinbase),
                                         job.merkle_branch, v.branch)
  IN make_sha_input_header_bytes(job, apply_transform(job.prevhash, v.prevhash),
                                 apply_transform(merkle_root, v.final_merkle), nonce)

(* header_hash_raw *)
evaluate_variant(job, extranonce2, nonce, v) ==
  dbl_sha256_bytes(VariantHeader(job, extranonce2, nonce, v))

(* Faulty variant: prevhash as it is sent. *)
current_miner_as_sent ==
  [coinbase |-> "identity", prevhash |-> "identity",
   branch |-> "identity", final_merkle |-> "identity"]

current_miner ==
  [coinbase |-> "identity", prevhash |-> "swap_u32_bytes",
   branch |-> "identity", final_merkle |-> "identity"]

-----------------------------------------------------------------------------
(* Properties. *)

(* Without branches two transforms of the coinbase hash may cancel, and    *)
(* the branches' does not matter.                                          *)
SameModel(v, job) ==
  /\ v.prevhash = current_miner.prevhash
  /\ IF job.merkle_branch = <<>>
       THEN v.coinbase = v.final_merkle
       ELSE v = current_miner

(* What the tool calls the current miner model is the miner: for every     *)
(* share it finds the tool's general path gives the hash of the miner's    *)
(* midstate and hand-padded block, and no other of the 81 models does      *)
(* (rejected_share_repro.cpp 101-190, 290-331; header.cpp 79-119).         *)
ModelIsMiner ==
  found # NoWork =>
    \A v \in Variants :
      evaluate_variant(work.job, found.submission.extranonce2_hex, scan_nonce - 1, v)
          = found.hash
        <=> SameModel(v, work.job)

=============================================================================
