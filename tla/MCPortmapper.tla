---------------------------- MODULE MCPortmapper ----------------------------
(***************************************************************************)
(* Small instances of Portmapper for TLC.                                  *)
(***************************************************************************)
EXTENDS Portmapper

=============================================================================
