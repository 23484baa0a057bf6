------------------------------ MODULE MCDivMod ------------------------------
(***************************************************************************)
(* Instance of DivMod: every pair of four-limb numbers with limbs of two   *)
(* bits.                                                                   *)
(***************************************************************************)
EXTENDS DivMod

MCOperands == uint256

=============================================================================
