---------------------------- MODULE MCSwitchFlow ----------------------------
(***************************************************************************)
(* Instances of SwitchFlow for TLC; the runs differ in their .cfg only.    *)
(***************************************************************************)
EXTENDS SwitchFlow, TLC

=============================================================================
