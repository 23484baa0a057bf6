------------------------------ MODULE MCMining ------------------------------
(***************************************************************************)
(* Instance of Mining: nonce 0 is a share at every difficulty, and no      *)
(* target can be computed for difficulty 3.                                *)
(***************************************************************************)
EXTENDS Mining

CONSTANT good

MCJobs == {good}
MCDifficulties == {1, 2, 3}
MCBadDifficulties == {3}
MCShareTarget == [d \in Difficulties |-> 0]
MCHash ==
  [j \in Jobs |-> [e \in 0 .. MaxExtranonce2 |-> [n \in 0 .. MaxNonce |-> n]]]

=============================================================================
