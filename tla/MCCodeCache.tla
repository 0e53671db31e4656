---------------------------- MODULE MCCodeCache ----------------------------
(***************************************************************************)
(* Instances: two harts with pages of one halfword, so that every 32-bit   *)
(* instruction straddles pages, and one hart with pages of two.            *)
(***************************************************************************)
EXTENDS CodeCache
=============================================================================
