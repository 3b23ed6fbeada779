----------------------------- MODULE MCNodeTree -----------------------------
(* Bounds for the model checking of NodeTree. *)
EXTENDS NodeTree, TLC

Plain == {[stem |-> s, tags |-> <<>>] : s \in Stem}

Symmetry == Permutations(NodeId)
=============================================================================
