---------------------------- MODULE MCShellClient ----------------------------
(***************************************************************************)
(* An instance of ShellClient for TLC; its values are in the .cfg.         *)
(***************************************************************************)
EXTENDS ShellClient, TLC

=============================================================================
