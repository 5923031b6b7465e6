----------------------------- MODULE MCCollector -----------------------------
(* Model-checking instances of Collector.                                  *)
EXTENDS Collector, TLC

(* The goroutines of one role, and the descriptors, are interchangeable.   *)
Symmetry == Permutations(Pollers) \cup Permutations(Handlers)
                \cup Permutations(Closers) \cup Permutations(Sockets)
=============================================================================
