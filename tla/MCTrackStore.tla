---------------------------- MODULE MCTrackStore ----------------------------
(* TrackStore for model checking: interchangeable values as symmetry sets.  *)
EXTENDS TrackStore, TLC

Symmetry ==
  Permutations(Conns) \cup Permutations(Accounts) \cup Permutations(Releases)
=============================================================================
