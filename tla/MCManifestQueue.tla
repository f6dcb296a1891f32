-------------------------- MODULE MCManifestQueue --------------------------
(* Values for the constants of ManifestQueue. *)
EXTENDS ManifestQueue, TLC

\* The first group of a producer has FirstSize entries, the others one.
CONSTANT FirstSize

MCSize == [p \in Producers |-> [g \in 1 .. Groups |-> IF g = 1 THEN FirstSize ELSE 1]]

Symmetry == Permutations(Producers)
=============================================================================
