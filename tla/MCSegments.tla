---------------------------- MODULE MCSegments -----------------------------
(* Segments and workers are alike, and only safety is checked.  Of a second *)
(* collection there is what happens until all have answered SYNC1.          *)
EXTENDS SegmentsInv, TLC

Sym == Permutations(Segment) \cup Permutations(Worker)

Bounded == gc_count = 0 \/ sig' \in {PREASYNC, PRESYNC1}
MCInit == Init /\ stale = {}
MCSpec == MCInit /\ [][Next /\ Watch /\ Bounded]_watchedVars

=============================================================================
