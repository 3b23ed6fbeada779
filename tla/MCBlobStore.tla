---------------------------- MODULE MCBlobStore ----------------------------
(* Bounds for the model checking of BlobStore. *)
EXTENDS BlobStore, TLC

Symmetry == Permutations(File) \cup Permutations(Key) \cup Permutations(Req)
=============================================================================
