------------------------------- MODULE MCInvites -------------------------------
(* Invites for model checking: symmetry.                                     *)
EXTENDS Invites, TLC

Symmetry ==
  Permutations(Codes) \cup Permutations(Conns) \cup Permutations(Names \ Members)
=============================================================================
