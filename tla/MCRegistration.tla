--------------------------- MODULE MCRegistration ---------------------------
(***************************************************************************)
(* Small instances of Registration for TLC: the processes are servers of   *)
(* the same name and version, that is a server and its successors.         *)
(***************************************************************************)
EXTENDS Registration

MCDescOf == [s \in Ports |-> [name |-> "S", version |-> 1]]

\* Four times MIN_TTL, so that a registration is renewed after three units.
MCTtlOf == [s \in Ports |-> 4]

Symmetry == Permutations(Ports)

=============================================================================
