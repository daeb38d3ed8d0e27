---------------------------- MODULE MCArmMotion ----------------------------
(***************************************************************************)
(* ArmMotion for TLC: it has no sizes to choose, the cfg files pick which  *)
(* failures happen.                                                        *)
(***************************************************************************)
EXTENDS ArmMotion
=============================================================================
