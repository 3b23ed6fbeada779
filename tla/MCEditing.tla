----------------------------- MODULE MCEditing -----------------------------
(* Two users with a window each. *)
EXTENDS Editing

CONSTANTS a, b, ann, bob, ea, eb

MCUserOf == (a :> ann) @@ (b :> bob)
BothType == (ea :> a) @@ (eb :> b)
BobTypes == (eb :> b)
AnnTypes == (ea :> a) @@ (eb :> a)

\* Replacing characters leaves the size as it is; adding them does not.
SameSize == [t \in SUBSET Edits |-> 0]
Growing == [t \in SUBSET Edits |-> Cardinality(t)]

\* The two users, with all that is theirs, may be exchanged.
Exchange ==
    {(a :> b) @@ (b :> a) @@ (ann :> bob) @@ (bob :> ann) @@ (ea :> eb) @@ (eb :> ea)}
=============================================================================
