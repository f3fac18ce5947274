---------------------------- MODULE MCUserRoots ----------------------------
(* Workers, threads and contexts are alike, and only safety is checked.     *)
EXTENDS UserRootsInv, TLC

Sym == Permutations(Context) \cup Permutations(Thread) \cup Permutations(Worker)

=============================================================================
