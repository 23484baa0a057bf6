-------------------------- MODULE MCMinerPipeline --------------------------
(* A small instance of MinerPipeline: two nonces, two extranonce2 values.  *)
EXTENDS MinerPipeline

CONSTANTS j1, j2

MCJobs == {j1, j2}
MCCleanJobs == {j2}
MCBadJobs == {}
MCDifficulties == {1, 2, 3}
MCBadDifficulties == {3}

(* Difficulty 1 accepts hashes up to 1, difficulty 2 only hash 0; 3 is out *)
(* of range.                                                               *)
MCShareTarget == [d \in MCDifficulties |-> IF d = 1 THEN 1 ELSE 0]

(* Every nonce of extranonce2 0 is a share at difficulty 1, one of them at *)
(* difficulty 2; of extranonce2 1 only the last nonce is a share.          *)
MCHash ==
  [j \in MCJobs |-> [e \in 0 .. MaxExtranonce2 |-> [n \in 0 .. MaxNonce |->
     CASE e = 0 -> n % 2
       [] e # 0 /\ n = MaxNonce -> 0
       [] OTHER -> 9]]]

=============================================================================
