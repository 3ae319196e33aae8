-------------------------- MODULE MCServerSession --------------------------
(* Small instances of ServerSession for TLC. *)
EXTENDS ServerSession, TLC

(* Connections are interchangeable. *)
SessionSymmetry == Permutations(Session)
=============================================================================
