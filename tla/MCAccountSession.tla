-------------------------- MODULE MCAccountSession --------------------------
(***************************************************************************)
(* Small instances of AccountSession.                                      *)
(***************************************************************************)
EXTENDS AccountSession
=============================================================================
