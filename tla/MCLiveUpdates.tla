---------------------------- MODULE MCLiveUpdates ----------------------------
(* LiveUpdates for TLC: interchangeable watchers. *)
EXTENDS LiveUpdates, TLC

WatcherSymmetry == Permutations(Watchers)

=============================================================================
