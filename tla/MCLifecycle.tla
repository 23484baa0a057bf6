---------------------------- MODULE MCLifecycle ----------------------------
(***************************************************************************)
(* Instance of Lifecycle: its only parameter has its value in the cfg.     *)
(***************************************************************************)
EXTENDS Lifecycle

=============================================================================
