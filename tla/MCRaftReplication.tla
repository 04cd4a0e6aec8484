------------------------- MODULE MCRaftReplication -------------------------
(***************************************************************************)
(* Instances of RaftReplication for TLC.  Servers are interchangeable: no  *)
(* definition compares ids, and only safety is checked under Symmetry.     *)
(***************************************************************************)
EXTENDS RaftReplication, TLC

Symmetry == Permutations(Server)
=============================================================================
