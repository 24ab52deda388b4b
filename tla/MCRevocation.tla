---------------------------- MODULE MCRevocation ----------------------------
(***************************************************************************)
(* Instances of Revocation for TLC.                                         *)
(***************************************************************************)
EXTENDS Revocation
=============================================================================
