--------------------------- MODULE MCSystemManager ---------------------------
(* The values TLC needs besides those the configurations give.               *)
EXTENDS SystemManagerInvariant, TLC

\* Threads that run callbacks are interchangeable, and so are map names: no
\* definition tells one of them from another.
Symmetry == Permutations(Maps) \cup Permutations(Callbacks)

==============================================================================
