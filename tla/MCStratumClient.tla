-------------------------- MODULE MCStratumClient --------------------------
(***************************************************************************)
(* Instance of StratumClient: two shares, and two unsolicited lines from   *)
(* the pool, of which one must announce the job the client waits for.      *)
(***************************************************************************)
EXTENDS StratumClient

(* The jobs are alike: nothing but their notification tells them apart.    *)
JobSymmetry == Permutations(Jobs)

=============================================================================
