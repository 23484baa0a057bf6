-------------------------- MODULE MCScanTelemetry --------------------------
(***************************************************************************)
(* Instance of ScanTelemetry: two chunks of four nonces, checked every two.*)
(***************************************************************************)
EXTENDS ScanTelemetry

(* A share, a block that is a share, and a block that is none. *)
MCShareNonces == {1, 2, 6}
MCBlockNonces == {2, 5}

=============================================================================
