---------------------------- MODULE MCThreadPool ----------------------------
(***************************************************************************)
(* Instances of ThreadPool for TLC.  No symmetry: liveness is checked.     *)
(***************************************************************************)
EXTENDS ThreadPool
=============================================================================
