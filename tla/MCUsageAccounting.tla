------------------------- MODULE MCUsageAccounting -------------------------
(***************************************************************************)
(* Instances of UsageAccounting for TLC. Jobs, engines and reconcilers are *)
(* model values; jobs, engines and reconcilers may be permuted.            *)
(***************************************************************************)
EXTENDS UsageAccounting, TLC

Symmetry == Permutations(Job) \cup Permutations(Engine) \cup Permutations(Reconciler)

=============================================================================
