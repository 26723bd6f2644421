------------------------ MODULE MCProjectionCheckpoint ------------------------
(* ProjectionCheckpoint on small instances.                                *)
EXTENDS ProjectionCheckpoint, TLC

\* Connections are interchangeable, and so are pods.
Symmetry == Permutations(Conns) \cup Permutations(Pods)
=============================================================================
