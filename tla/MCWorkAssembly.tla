--------------------------- MODULE MCWorkAssembly ---------------------------
(***************************************************************************)
(* Instance of WorkAssembly: bytes of base 2, so that a nonce has sixteen  *)
(* values and two bytes of extranonce2 four.                               *)
(***************************************************************************)
EXTENDS RejectedShareRepro

Field(name, size) == Bytes(Source(name), size)

MCExtranonce1 == Field("extranonce1", 4)

(* Two jobs.  Their coinbases have 55 and 56 bytes: the length just fits   *)
(* into the block, and just does not.  The second has no Merkle branch.    *)
MCJobs ==
  {[job_id |-> 1, prevhash |-> Field("prevhash1", 32), coinb1 |-> Field("coinb1", 30),
    coinb2 |-> Field("coinb2", 19), merkle_branch |-> <<Field("branch1", 32), Field("branch2", 32)>>,
    version |-> Field("version", 4), nbits |-> Field("nbits", 4), ntime |-> Field("ntime1", 4)],
   [job_id |-> 2, prevhash |-> Field("prevhash2", 32), coinb1 |-> Field("coinb1", 30),
    coinb2 |-> Field("coinb2", 20), merkle_branch |-> <<>>,
    version |-> Field("version", 4), nbits |-> Field("nbits", 4), ntime |-> Field("ntime2", 4)]}

=============================================================================
