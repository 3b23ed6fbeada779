------------------------------ MODULE TreeUndo ------------------------------
(***************************************************************************)
(* A browser that moves, renames or trashes items of the tree and offers    *)
(* to take the last such gesture back (pages/Files.tsx, lib/undo.ts),       *)
(* while everybody else goes on using the tree.  A gesture on several items *)
(* is a loop of awaited requests: others act between any two of them.       *)
(***************************************************************************)
EXTENDS NodeTree

CONSTANT MaxItems     \* bound of the model: items of one gesture

VARIABLES job,      \* the loop of requests under way, or Null
          offer,    \* what the undo banner would run, or Null
          told,     \* how the last gesture or undo ended, as the user sees it
          before    \* ghost: the table when the gesture began; Null once anything
                    \* but the gesture and its undo has changed it since

client == <<job, offer, told, before>>
allVars == <<node, now, job, offer, told, before>>

\* What an undo keeps of an item: undoing a trashing keeps its id only.
Items == [id: NodeId, name: Name \cup {Null}, place: Place \cup {Null}]

Kinds == {"move", "rename", "trash"}     \* what an offer takes back
UndoOf == [move |-> "undo move", rename |-> "undo rename", trash |-> "undo trash"]
Undos == {UndoOf[k] : k \in Kinds}

\* The loop of awaited requests, and what the banner offers.
Jobs == [kind: Kinds \cup {"delete"} \cup Undos, at: Place \cup {Null},
         todo: Seq(NodeId \cup Items), done: Seq(Items)]
Offers == [kind: Kinds, items: Seq(Items)]

\* Null, where there is nothing, is none of the things there could be.
ASSUME TreeUndoAssumption ==
    /\ MaxItems \in Nat \ {0}
    /\ Null \notin Jobs \cup Offers
    /\ \A S \in SUBSET NodeId : Null \notin [S -> Row]

\* The gestures: what the user picked, in the order of the Set that holds it.
Picks == {p \in UNION {[1..k -> Visible] : k \in 1..MaxItems} :
             \A i, j \in DOMAIN p : p[i] = p[j] => i = j}

Was(n) == [id |-> n, name |-> node[n].name, place |-> PlaceOf(n)]

-----------------------------------------------------------------------------
\* Which of the awaited requests succeed

NameFree(at, nm, n) == UniqueNames(at, nm, n) # {}

CanMove(n, at) ==
    /\ n \in Visible
    /\ at \in Destinations
    /\ node[n].type = "folder" => at.parent \notin Subtree(n)
    /\ NameFree(at, node[n].name, n)

\* Mutant: an item goes back to the root of its space.
HomeIsTheRoot(place) == [place EXCEPT !.parent = Null]

\* backTo(previous): the folder it was in, or the root of the space.
Home(place) ==
    IF place.parent \in Ids THEN Folder(place.parent) ELSE place

CanMoveBack(item) ==
    /\ item.id \in Visible
    /\ Home(item.place) \in Destinations
    /\ node[item.id].type = "folder" => item.place.parent \notin Subtree(item.id)
    /\ \E nm \in UniqueNames(PlaceOf(item.id), item.name, item.id) :
          NameFree(Home(item.place), nm, item.id)

CanRename(n, nm) == n \in Visible /\ NameFree(PlaceOf(n), nm, n)

CanRestore(n) ==
    /\ n \in Trashed
    /\ NameFree(IF node[n].parent \in Trashed
                THEN [space |-> node[n].space, parent |-> Null]
                ELSE PlaceOf(n), node[n].name, n)

-----------------------------------------------------------------------------
\* Gestures

Start(kind, todo, at) ==
    /\ job = Null
    /\ job' = [kind |-> kind, todo |-> todo, at |-> at, done |-> <<>>]
    /\ told' = "working"
    /\ before' = IF offer = Null THEN node ELSE Null
    /\ UNCHANGED <<node, now, offer>>

\* dropNodes within one space (into another space it copies, with nothing to
\* undo); what is dropped on itself is left out.
DropNodes ==
    \E p \in Picks, at \in Destinations :
        /\ \A i \in DOMAIN p : p[i] # at.parent /\ node[p[i]].space = at.space
        /\ Start("move", p, at)

\* The bulk delete, and items dragged onto the trash.
TrashMany == \E p \in Picks : Start("trash", p, Null)

\* deleteFromTree, deleteTab: one request, whose failure guard() swallows.
DeleteOne == \E n \in Visible : Start("delete", <<n>>, Null)

\* Mutant: what is offered is read after the request.
RenameCommitReadingLate ==
    \E n \in Visible, t \in Typed :
        /\ job = Null
        /\ Rename(n, t)
        /\ before' = IF offer = Null THEN node ELSE Null
        /\ offer' = [kind |-> "rename", items |-> <<[Was(n) EXCEPT !.name = node'[n].name]>>]
        /\ told' = "done"
        /\ UNCHANGED job

\* renameCommit: one request, an offer only when the name did change.
RenameCommit ==
    \E n \in Visible, t \in Typed :
        /\ job = Null
        /\ Rename(n, t)
        /\ before' = IF offer = Null THEN node ELSE Null
        /\ offer' = IF node'[n].name # node[n].name
                    THEN [kind |-> "rename", items |-> <<Was(n)>>] ELSE offer
        /\ told' = "done"
        /\ UNCHANGED job

\* One awaited request of the loop; the first that fails ends the loop and
\* leaves no offer for those that went through.
Advance(item) ==
    LET done == Append(job.done, item)
        last == Len(job.todo) = 1
    IN  /\ job' = IF last THEN Null ELSE [job EXCEPT !.todo = Tail(@), !.done = done]
        /\ offer' = IF last THEN [kind |-> job.kind, items |-> done] ELSE offer
        /\ told' = IF last THEN "done" ELSE told
        /\ UNCHANGED before

Abort == job' = Null /\ told' = "failed" /\ UNCHANGED <<node, now, offer, before>>

MoveStep ==
    /\ job # Null /\ job.kind = "move"
    /\ LET n == Head(job.todo)
       IN  IF CanMove(n, job.at) THEN Move(n, job.at) /\ Advance(Was(n)) ELSE Abort

TrashStep ==
    /\ job # Null /\ job.kind = "trash"
    /\ LET n == Head(job.todo)
       IN  IF n \in Visible THEN SoftDelete(n) /\ Advance([id |-> n, name |-> Null, place |-> Null]) ELSE Abort

\* The offer is made whether the request went through or not.
DeleteStep ==
    /\ job # Null /\ job.kind = "delete"
    /\ LET n == Head(job.todo)
       IN  /\ IF n \in Visible THEN SoftDelete(n) ELSE UNCHANGED <<node, now>>
           /\ offer' = [kind |-> "trash", items |-> <<[id |-> n, name |-> Null, place |-> Null]>>]
           /\ told' = IF n \in Visible THEN "done" ELSE "failed"
    /\ job' = Null
    /\ UNCHANGED before

-----------------------------------------------------------------------------
\* The undo

\* Mutant: the banner stays while its undo runs.
RunUndoKeepingOffer ==
    /\ job = Null /\ offer # Null
    /\ job' = [kind |-> UndoOf[offer.kind], todo |-> offer.items, at |-> Null, done |-> <<>>]
    /\ told' = "working"
    /\ UNCHANGED <<node, now, before, offer>>

\* runUndo clears the banner first, so a second press finds nothing.
RunUndo ==
    /\ job = Null /\ offer # Null
    /\ job' = [kind |-> UndoOf[offer.kind], todo |-> offer.items, at |-> Null, done |-> <<>>]
    /\ offer' = Null
    /\ told' = "working"
    /\ UNCHANGED <<node, now, before>>

\* The message goes away after a moment; the ghost is of no use without an offer.
Forget == /\ told' = IF job = Null THEN "quiet" ELSE told
          /\ before' = IF job = Null THEN Null ELSE before

\* The banner goes away after 12 seconds.
Dismiss ==
    /\ offer # Null
    /\ offer' = Null
    /\ Forget
    /\ UNCHANGED <<node, now, job>>

\* One awaited request of the undo: the items in the order they were done.
UndoStep ==
    /\ job # Null /\ job.kind \in Undos
    /\ LET item == Head(job.todo)
           Can == \/ job.kind = "undo move" /\ CanMoveBack(item)
                  \/ job.kind = "undo rename" /\ CanRename(item.id, item.name)
                  \/ job.kind = "undo trash" /\ CanRestore(item.id)
           Did == \/ job.kind = "undo move"
                     /\ RenameAndMove(item.id, item.name, Home(item.place))
                  \/ job.kind = "undo rename" /\ Rename(item.id, item.name)
                  \/ job.kind = "undo trash" /\ Restore(item.id)
           last == Len(job.todo) = 1
       IN  IF Can
           THEN /\ Did
                /\ job' = IF last THEN Null ELSE [job EXCEPT !.todo = Tail(@)]
                /\ told' = IF last THEN job.kind ELSE told
                /\ UNCHANGED <<offer, before>>
           ELSE Abort

\* Anyone else, any request, and the sweep.  Bound of the model: one such request
\* while a gesture is under way or can be taken back.
Others ==
    /\ job # Null \/ offer # Null => before # Null
    /\ Next
    /\ before' = IF node' = node /\ (job # Null \/ offer # Null) THEN before ELSE Null
    /\ told' = IF job = Null THEN "quiet" ELSE told
    /\ UNCHANGED <<job, offer>>

UInit == Init /\ job = Null /\ offer = Null /\ told = "quiet" /\ before = Null

UNext ==
    \/ DropNodes \/ TrashMany \/ DeleteOne \/ RenameCommit
    \/ MoveStep \/ TrashStep \/ DeleteStep
    \/ RunUndo \/ Dismiss \/ UndoStep
    \/ Others

USpec == UInit /\ [][UNext]_allVars

-----------------------------------------------------------------------------
\* The client holds a loop, an offer and a message of the declared shapes.
UTypeOK ==
    /\ job \in Jobs \cup {Null}
    /\ offer \in Offers \cup {Null}
    /\ told \in {"quiet", "working", "done", "failed"} \cup Undos

\* When nobody else touched the tree, taking back a move puts every item, and
\* every other item with it, into the place it had (lib/undo.ts, backTo).
UndoneMoveIsBack ==
    told = "undo move" /\ before # Null =>
        \A m \in Ids : PlaceOf(m) = [space |-> before[m].space, parent |-> before[m].parent]

\* When nobody else touched the tree and no two siblings shared a name, taking
\* back a rename restores the whole table (renameCommit).
NamesDifferIn(t) ==
    \A m, k \in DOMAIN t :
        m # k /\ t[m].parent = t[k].parent /\ t[m].space = t[k].space
              /\ t[m].deleted = Null /\ t[k].deleted = Null => t[m].name # t[k].name
UndoneRenameIsExact ==
    told = "undo rename" /\ before # Null /\ NamesDifferIn(before) => node = before

\* When nobody else touched the tree, an undo never fails half-way: the offer
\* holds exactly the items that were changed, and can be run once.  Left out are an
\* item beside which unique_name has no number left, and names at the model's bound
\* (the code goes on numbering).
NumbersRunOut ==
    \E m \in Ids \ Trashed : \A i \in 2..MaxSuffix :
        Taken(PlaceOf(m), Candidate(node[m].name, i), Null)
NamesAtBound == \E m \in Ids : Len(node[m].name.tags) >= MaxTags
UndoAloneSucceeds ==
    [][job # Null /\ job.kind \in Undos /\ told' = "failed"
         => before = Null \/ NamesAtBound \/ NumbersRunOut]_allVars

\* lib/undo.ts: giving back name and place together leaves no "name (2)" behind.
UndoneMoveKeepsNames ==
    told = "undo move" /\ before # Null /\ NamesDifferIn(before) => node = before

\* docs/SPEC.md 3.7: a restored item goes back to where it was; here for items
\* that one gesture put in the trash and its undo took out again.
UndoneTrashIsBack ==
    told = "undo trash" /\ before # Null =>
        \A m \in Ids : PlaceOf(m) = [space |-> before[m].space, parent |-> before[m].parent]
=============================================================================
