------------------------------- MODULE MCViz --------------------------------
(* Instances of Viz for TLC: connections and probes are interchangeable. *)
EXTENDS Viz, TLC

Interchangeable == Permutations(Conns) \cup Permutations(Probes)
=============================================================================
