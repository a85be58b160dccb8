-------------------------- MODULE MCHistoryBridge --------------------------
(***************************************************************************)
(* Instances of HistoryBridge for TLC.  The runs differ in their .cfg      *)
(* only; one checks liveness, so no symmetry is declared.                  *)
(***************************************************************************)
EXTENDS HistoryBridge, TLC

=============================================================================
