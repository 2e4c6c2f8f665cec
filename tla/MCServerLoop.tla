---------------------------- MODULE MCServerLoop ----------------------------
(***************************************************************************)
(* Small instances of ServerLoop for TLC.                                  *)
(***************************************************************************)
EXTENDS ServerLoop

\* A server connection times out after two units of time (the code: 60 s with
\* a garbage collection event every 30 s), a client connection after one.
MCTimeout == [k \in Kinds |-> IF k = "CLIENT" THEN 1 ELSE 2]

=============================================================================
