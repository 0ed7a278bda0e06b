--------------------------- MODULE MCExecuteRoute ---------------------------
(* Small instances of ExecuteRoute for TLC. *)
EXTENDS ExecuteRoute, TLC

Symmetry == Permutations(Requests) \cup Permutations(Instances)
              \cup Permutations(Hashes)
============================================================================
