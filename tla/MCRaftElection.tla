--------------------------- MODULE MCRaftElection ---------------------------
(***************************************************************************)
(* Instances of RaftElection for TLC.  Servers are interchangeable: no     *)
(* definition compares ids, and only safety is checked under Symmetry.     *)
(***************************************************************************)
EXTENDS RaftElection, TLC

Symmetry == Permutations(Server)
=============================================================================
