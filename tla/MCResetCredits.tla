---------------------------- MODULE MCResetCredits ----------------------------
(* The model values of the accounts and connections are p, q and a.          *)
EXTENDS ResetCredits

=============================================================================
