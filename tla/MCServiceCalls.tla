---------------------------- MODULE MCServiceCalls ----------------------------
(* Small instances of ServiceCalls for TLC. *)
EXTENDS ServiceCalls, TLC
=============================================================================
