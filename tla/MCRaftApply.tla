---------------------------- MODULE MCRaftApply ----------------------------
(***************************************************************************)
(* An instance of RaftApply: one restart, a snapshot after index 1, and a  *)
(* leader's snapshot of index 2.                                           *)
(***************************************************************************)
EXTENDS RaftApply

OneSnapshot == {2}
=============================================================================
