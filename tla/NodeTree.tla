------------------------------ MODULE NodeTree ------------------------------
(***************************************************************************)
(* The folder tree of FileSharer: the table `nodes` and every request that *)
(* changes it.  A request that writes runs in one BEGIN IMMEDIATE           *)
(* transaction (db.py), so each handler is one atomic action here; the     *)
(* bodies of the files, which no transaction covers, are in BlobStore.     *)
(*                                                                         *)
(* Who may do what is left out: for every space some user passes           *)
(* get_space_checked, and for every two spaces a user sees both may, so a  *)
(* permission check only chooses who performs a step.                      *)
(***************************************************************************)
EXTENDS Integers, Sequences, FiniteSets

CONSTANTS NodeId,     \* primary keys of the table (a pool: a purged key may come back)
          Space,      \* personal, team and org spaces
          TeamSpaces, \* those of a team; a team founded later has the place of a deleted one
          Stem,       \* names as people type them
          Typed,      \* the names that requests carry
          Null,       \* SQL NULL: parent_id of a root item, deleted_at of a live one
          MaxSuffix,  \* unique_name gives up (409) after this number; 999 in the code
          MaxTags,    \* bound of the model: suffixes one name may accumulate
          Retention,  \* trash_retention_days, in clock ticks
          MaxTime     \* bound of the model: the clock stops here

Name == [stem: Stem, tags: Seq(2..MaxSuffix)]

Row == [type: {"folder", "file"}, space: Space, parent: NodeId \cup {Null},
        name: Name, deleted: Nat \cup {Null}]

ASSUME NodeTreeAssumption ==
    /\ IsFiniteSet(NodeId)
    /\ Null \notin NodeId
    /\ Null \notin Nat
    /\ TeamSpaces \subseteq Space
    /\ Typed \subseteq Name
    /\ MaxSuffix \in Nat /\ MaxSuffix >= 2
    /\ MaxTags \in Nat
    /\ Retention \in Nat
    /\ MaxTime \in Nat

VARIABLES node,   \* the table: a function from the ids in use to their rows
          now     \* utcnow()

vars == <<node, now>>

Ids == DOMAIN node

-----------------------------------------------------------------------------
\* Walks along parent_id

\* The rows that are in `roots`, or in `links` with a parent that is already
\* reached: the walks of is_descendant, has_deleted_ancestor and the recursive
\* handlers, as the set they all compute.
Reach(roots, links) ==
    CHOOSE S \in SUBSET Ids :
        \A m \in Ids : m \in S <=> m \in roots \/ (m \in links /\ node[m].parent \in S)

Trashed == {m \in Ids : node[m].deleted # Null}

\* What _copy_node visits: it descends into live children only.
LiveSubtree(n) == Reach({n}, Ids \ Trashed)

\* The rows below n, n included: whatever their own deleted_at.
Subtree(n) == Reach({n}, Ids)

\* Rows that are in the trash or below something in the trash.
Hidden == Reach(Trashed, Ids)

\* The rows get_node_checked finds.
Visible == Ids \ Hidden

-----------------------------------------------------------------------------
\* Names

\* Mutant: numbering starts at "name (1)".
CandidateFromOne(nm, i) == IF i = 1 THEN nm ELSE [nm EXCEPT !.tags = Append(@, i - 1)]

\* The i-th candidate of unique_name: the name itself, then "name (2)", ...
Candidate(nm, i) == IF i = 1 THEN nm ELSE [nm EXCEPT !.tags = Append(@, i)]

Place == [space: Space, parent: NodeId \cup {Null}]

PlaceOf(n) == [space |-> node[n].space, parent |-> node[n].parent]

\* Mutant: the item that keeps its place counts against itself.
TakenByItself(at, nm, except) ==
    \E m \in Ids : PlaceOf(m) = at /\ node[m].name = nm /\ node[m].deleted = Null

Taken(at, nm, except) ==
    \E m \in Ids \ {except} :
        PlaceOf(m) = at /\ node[m].name = nm /\ node[m].deleted = Null

\* The name unique_name returns, as a set: empty when it raises 409.
UniqueNames(at, nm, except) ==
    {Candidate(nm, i) : i \in
        {i \in 1..MaxSuffix :
            /\ i > 1 => Len(nm.tags) < MaxTags
            /\ ~ Taken(at, Candidate(nm, i), except)
            /\ \A j \in 1..(i - 1) : Taken(at, Candidate(nm, j), except)}}

-----------------------------------------------------------------------------
\* Rows

NewRow(type, at, nm) ==
    [type |-> type, space |-> at.space, parent |-> at.parent, name |-> nm, deleted |-> Null]

\* INSERT the rows of `new`, a function from unused ids.
Insert(new) ==
    node' = [m \in Ids \cup DOMAIN new |-> IF m \in DOMAIN new THEN new[m] ELSE node[m]]

Unused == NodeId \ Ids

\* Where a request may put something: the root of a space, or a folder that
\* get_node_checked finds, in that folder's own space.
Folder(p) == [space |-> node[p].space, parent |-> p]
\* Mutant: the destination is any folder of the table.
DestinationsAnywhere ==
    {[space |-> s, parent |-> Null] : s \in Space}
        \cup {Folder(p) : p \in {m \in Ids : node[m].type = "folder"}}

Destinations ==
    {[space |-> s, parent |-> Null] : s \in Space}
        \cup {Folder(p) : p \in {m \in Visible : node[m].type = "folder"}}

-----------------------------------------------------------------------------
\* Requests

CreateFolder(at, typed) ==
    /\ at \in Destinations
    /\ \E n \in Unused, nm \in UniqueNames(at, typed, Null) :
          Insert([m \in {n} |-> NewRow("folder", at, nm)])
    /\ UNCHANGED now

\* _upload_one without a directory in rel_path, and each file of a multi-file
\* upload: a file row under a free name.
PutFile(at, typed) ==
    /\ \E n \in Unused, nm \in UniqueNames(at, typed, Null) :
          Insert([m \in {n} |-> NewRow("file", at, nm)])
    /\ UNCHANGED now

\* _upload_one with rel_path "dir/typed" (and an archive entry of that path):
\* _resolve_upload_parent takes the live FOLDER named dir, or creates one under
\* that very name without asking unique_name.
PutFileUnder(at, dir, typed) ==
    LET found == {m \in Ids : /\ PlaceOf(m) = at /\ node[m].name = dir
                              /\ node[m].type = "folder" /\ node[m].deleted = Null}
    IN  \/ \E d \in found : PutFile(Folder(d), typed)
        \/ /\ found = {}
           /\ \E d \in Unused : \E n \in Unused \ {d} :
                 Insert([m \in {d, n} |->
                           IF m = d THEN NewRow("folder", at, dir)
                           ELSE NewRow("file", [space |-> at.space, parent |-> d], typed)])
           /\ UNCHANGED now

\* POST /spaces/{id}/files and /nodes/{id}/files.
Upload(at, typed) == at \in Destinations /\ PutFile(at, typed)
UploadTree(at, dir, typed) == at \in Destinations /\ PutFileUnder(at, dir, typed)

\* POST /upload with a token scoped to folder p: resolve_upload_target reads the
\* row and its type, not its deleted_at.
TokenFolder(p) == p \in Ids /\ node[p].type = "folder"
UploadByToken(p, typed) == TokenFolder(p) /\ PutFile(Folder(p), typed)
UploadTreeByToken(p, dir, typed) == TokenFolder(p) /\ PutFileUnder(Folder(p), dir, typed)

\* Mutant: only the item itself changes space.
MovedAlone(n, at, nm) ==
    [node EXCEPT ![n].name = nm, ![n].space = at.space, ![n].parent = at.parent]

\* Mutant: what is in the trash below the item does not follow it.
MovedWithoutTrash(n, at, nm) ==
    [m \in Ids |-> IF m = n
                   THEN [node[n] EXCEPT !.name = nm, !.space = at.space, !.parent = at.parent]
                   ELSE IF m \in LiveSubtree(n)
                   THEN [node[m] EXCEPT !.space = at.space]
                   ELSE node[m]]

\* The table with n at `at`: _move_subtree_space takes all below it along.
Moved(n, at, nm) ==
    [m \in Ids |-> IF m = n
                   THEN [node[n] EXCEPT !.name = nm, !.space = at.space, !.parent = at.parent]
                   ELSE IF m \in Subtree(n)
                   THEN [node[m] EXCEPT !.space = at.space]
                   ELSE node[m]]

\* Mutant: a folder may be moved into what hangs below it.
MoveToAnywhere(n, at, given) ==
    /\ at \in Destinations
    /\ at.parent # n
    /\ \E nm \in UniqueNames(at, given, n) : node' = Moved(n, at, nm)

\* The PATCH that relocates n under the name it has just been given.
MoveTo(n, at, given) ==
    /\ at \in Destinations
    /\ node[n].type = "folder" => at.parent \notin Subtree(n)
    /\ \E nm \in UniqueNames(at, given, n) : node' = Moved(n, at, nm)

\* PATCH /nodes/{id}, with a name, a destination or both.
Rename(n, typed) ==
    /\ n \in Visible
    /\ \E nm \in UniqueNames(PlaceOf(n), typed, n) : node' = [node EXCEPT ![n].name = nm]
    /\ UNCHANGED now

Move(n, at) ==
    /\ n \in Visible
    /\ MoveTo(n, at, node[n].name)
    /\ UNCHANGED now

\* The name is resolved first, where the node still is.
RenameAndMove(n, typed, at) ==
    /\ n \in Visible
    /\ \E nm \in UniqueNames(PlaceOf(n), typed, n) : MoveTo(n, at, nm)
    /\ UNCHANGED now

\* The names of the copies below the root of a copied tree.  They depend on the
\* order in which the children come back from the database: these are the
\* assignments some order produces.  pick[m] numbers the candidate m receives.
InnerNames(tree, root, pick) ==
    LET inner == tree \ {root}
        given(m) == Candidate(node[m].name, pick[m])
        Beside(m) == {k \in inner \ {m} : node[k].parent = node[m].parent}
    IN  \A m \in inner :
            /\ \A k \in Beside(m) : given(k) # given(m)
            /\ \A j \in 1..(pick[m] - 1) :
                  \E k \in Beside(m) : given(k) = Candidate(node[m].name, j)

\* POST /nodes/{id}/copy.  Copying a folder below itself meets its own copies,
\* recurses until the interpreter stops it and is rolled back: no step.
Copy(n, at) ==
    /\ n \in Visible
    /\ at \in Destinations
    /\ at.parent \notin Subtree(n)
    /\ LET tree == LiveSubtree(n)
       IN  \E id \in [tree -> Unused], pick \in [tree -> 1..MaxSuffix],
              top \in UniqueNames(at, node[n].name, Null) :
              /\ \A a, b \in tree : id[a] = id[b] => a = b
              /\ top = Candidate(node[n].name, pick[n])
              /\ InnerNames(tree, n, pick)
              /\ Insert([c \in {id[m] : m \in tree} |->
                           LET m == CHOOSE x \in tree : id[x] = c
                           IN  NewRow(node[m].type,
                                      [space |-> at.space,
                                       parent |-> IF m = n THEN at.parent ELSE id[node[m].parent]],
                                      Candidate(node[m].name, pick[m]))])
    /\ UNCHANGED now

\* DELETE /nodes/{id}: only the item itself is stamped, never what is below it.
SoftDelete(n) ==
    /\ n \in Visible
    /\ node' = [node EXCEPT ![n].deleted = now]
    /\ UNCHANGED now

\* Mutant: the item comes back under the name it had.
RestoreAsItWas(n) ==
    /\ n \in Trashed
    /\ node' = [node EXCEPT ![n].parent = IF @ \in Trashed THEN Null ELSE @,
                            ![n].deleted = Null]
    /\ UNCHANGED now

\* POST /nodes/{id}/restore: only the direct parent is looked at.
Restore(n) ==
    /\ n \in Trashed
    /\ LET home == IF node[n].parent \in Trashed
                   THEN [space |-> node[n].space, parent |-> Null]
                   ELSE PlaceOf(n)
       IN  \E nm \in UniqueNames(home, node[n].name, n) :
              node' = [node EXCEPT ![n].parent = home.parent, ![n].name = nm,
                                   ![n].deleted = Null]
    /\ UNCHANGED now

DeleteRows(gone) == node' = [m \in Ids \ gone |-> node[m]]

\* Mutant: nobody asks whether the item is in the trash.
PurgeAnything(n) ==
    /\ DeleteRows(Subtree(n))
    /\ UNCHANGED now

\* DELETE /nodes/{id}/purge, and the administrator's purge.
Purge(n) ==
    /\ n \in Trashed
    /\ DeleteRows(Subtree(n))
    /\ UNCHANGED now

Expired == {m \in Trashed : node[m].deleted < now - Retention}

\* purge_expired: one transaction for everything that is due.
Sweep ==
    /\ Expired # {}
    /\ DeleteRows(UNION {Subtree(n) : n \in Expired})
    /\ UNCHANGED now

\* DELETE /admin/teams/{id}: without force a live row refuses it, one below
\* something trashed too; then every row of the space goes with the team.  A row
\* that other tables still refer to rolls the whole back: no step.
DeleteTeam(s, force) ==
    /\ s \in TeamSpaces
    /\ force \/ \A m \in Ids : node[m].space = s => node[m].deleted # Null
    /\ DeleteRows({m \in Ids : node[m].space = s})
    /\ UNCHANGED now

Tick ==
    /\ now < MaxTime
    /\ now' = now + 1
    /\ UNCHANGED node

-----------------------------------------------------------------------------
Init == node = [m \in {} |-> Null] /\ now = 0

Adding ==
    \/ \E at \in Destinations, t \in Typed : CreateFolder(at, t)
    \/ \E at \in Destinations, t \in Typed : Upload(at, t)
    \/ \E at \in Destinations, d, t \in Typed : UploadTree(at, d, t)
    \/ \E p \in Ids, t \in Typed : UploadByToken(p, t)
    \/ \E p \in Ids, d, t \in Typed : UploadTreeByToken(p, d, t)
    \/ \E n \in Visible, at \in Destinations : Copy(n, at)

Changing ==
    \/ \E n \in Visible, t \in Typed : Rename(n, t)
    \/ \E n \in Visible, at \in Destinations : Move(n, at)
    \/ \E n \in Visible, t \in Typed, at \in Destinations : RenameAndMove(n, t, at)

Trashing ==
    \/ \E n \in Visible : SoftDelete(n)
    \/ \E n \in Ids : Restore(n)
    \/ \E n \in Ids : Purge(n)
    \/ Sweep
    \/ \E s \in TeamSpaces, force \in BOOLEAN : DeleteTeam(s, force)

Next == Adding \/ Changing \/ Trashing \/ Tick

Spec == Init /\ [][Next]_vars

-----------------------------------------------------------------------------
\* What the tree promises

\* The table is a function from ids to rows of the declared shape; the clock is
\* within its bound.
TypeOK ==
    /\ Ids \subseteq NodeId
    /\ node \in [Ids -> Row]
    /\ now \in 0..MaxTime

\* parent_id is a foreign key to a folder of the same table: no request, in no
\* order, leaves a row whose parent is gone or is a file (db.py turns the
\* foreign keys on, so breaking it would make purge and sweep fail).
ParentIsFolder ==
    \A m \in Ids : node[m].parent # Null =>
        node[m].parent \in Ids /\ node[node[m].parent].type = "folder"

\* An item lives in the space of the folder that holds it, trashed items
\* included: permissions look at the item's own space_id, so a child left
\* behind in another space would be readable by the wrong people.
SpaceFollowsParent ==
    \A m \in Ids : node[m].parent # Null => node[m].space = node[node[m].parent].space

\* No set of rows hangs in the air: following parent_id leaves every non-empty
\* set, so there is no cycle and the walks of the code end.
Rooted ==
    \A S \in (SUBSET Ids) \ {{}} : \E m \in S : node[m].parent \notin S

\* Two live items of one type in one place never share a name, whatever mix of
\* uploads, moves, copies and restores put them there (unique_name).
SameTypeNamesDiffer ==
    \A m, k \in Ids :
        /\ m # k
        /\ PlaceOf(m) = PlaceOf(k)
        /\ node[m].deleted = Null /\ node[k].deleted = Null
        /\ node[m].type = node[k].type
        => node[m].name # node[k].name

\* Everything that get_node_checked refuses to show can be got back: some item
\* at or above it is listed in the trash of its own space (list_trash filters by
\* the listed item's space_id).
HiddenIsInSomeTrash ==
    \A m \in Hidden : \E a \in Trashed :
        m \in Subtree(a) /\ node[a].space = node[m].space

\* A row that a user can still see is erased only by an administrator who
\* deletes its team by force, and then with the whole space: neither a purge, nor
\* the sweep, nor the deletion of a team without force takes anything that was
\* not in the trash or under something in the trash.
ErasedFromTrashOrByForce ==
    [][(Ids \ Ids') \cap Visible # {} => \E s \in TeamSpaces : DeleteTeam(s, TRUE)]_vars

\* Nothing leaves the user's sight except by the delete request on the item or on
\* a folder above it: moving, renaming, restoring or erasing one item never
\* hides another that is still in the table.
OnlyDeleteHides ==
    [][Visible \cap Hidden' # {} => \E n \in Visible : SoftDelete(n)]_vars

\* docs/SPEC.md: moving an item to where it already is changes nothing, so long
\* as no live sibling bears its name.
MoveInPlaceIsIdle ==
    [][\A n \in Ids :
         /\ Move(n, PlaceOf(n))
         /\ \A m \in Ids \ (Trashed \cup {n}) :
               PlaceOf(m) = PlaceOf(n) => node[m].name # node[n].name
         => UNCHANGED node]_vars

-----------------------------------------------------------------------------
\* What is said of the tree and does not hold

\* tests/test_trash.py: once restored, an item can be opened again.
RestoredIsVisible == [][\A n \in Trashed : Restore(n) => n \in Visible']_vars

\* services/tokens.py: a token whose folder was deleted uploads nothing (404).
TokenUploadIsVisible ==
    [][\A p \in Ids, t \in Typed : UploadByToken(p, t) => (Ids' \ Ids) \subseteq Visible']_vars
=============================================================================
