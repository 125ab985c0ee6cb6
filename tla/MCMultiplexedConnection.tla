----------------------- MODULE MCMultiplexedConnection -----------------------
(* Small instances of MultiplexedConnection, and of the inductive invariant *)
(* of its proofs, for TLC.                                                  *)
EXTENDS MultiplexedConnectionProofs, TLC

\* Requests are interchangeable.
Symmetry == Permutations(Requests)
==============================================================================
