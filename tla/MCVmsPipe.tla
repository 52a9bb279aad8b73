------------------------------ MODULE MCVmsPipe ------------------------------
(* Small instances of VmsPipe for TLC; the children are interchangeable. *)
EXTENDS VmsPipe, TLC

ChildSymmetry == Permutations(Peers)
=============================================================================
