------------------------------- MODULE MCUsers -------------------------------
(* Instances of Users for TLC.                                              *)
EXTENDS UsersProps

CONSTANTS alice, nobody, one, two
=============================================================================
