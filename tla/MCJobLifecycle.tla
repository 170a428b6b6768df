--------------------------- MODULE MCJobLifecycle ---------------------------
(* Instances of JobLifecycle for TLC.                                      *)
EXTENDS JobLifecycle, TLC

\* Workers and requests are interchangeable, and so are unused job rows: no
\* definition tells one from another.
Symmetry == Permutations(Worker) \cup Permutations(Request) \cup Permutations(Job)

=============================================================================
