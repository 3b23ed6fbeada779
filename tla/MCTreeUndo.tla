----------------------------- MODULE MCTreeUndo -----------------------------
(* Bounds for the model checking of TreeUndo. *)
EXTENDS TreeUndo, TLC

Plain == {[stem |-> s, tags |-> <<>>] : s \in Stem}

Symmetry == Permutations(NodeId)
=============================================================================
