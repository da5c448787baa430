----------------------------- MODULE MCRunServer -----------------------------
(* Small instances of RunServer for TLC. *)
EXTENDS RunServer, TLC

\* Clients are interchangeable.
ClientSymmetry == Permutations(Clients)

=============================================================================
