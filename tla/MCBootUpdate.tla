---------------------------- MODULE MCBootUpdate ----------------------------
(* BootUpdate for TLC: a factory image, a healthy update and one that      *)
(* wedges.                                                                 *)
EXTENDS BootUpdate
=============================================================================
