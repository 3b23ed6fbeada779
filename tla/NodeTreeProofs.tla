--------------------------- MODULE NodeTreeProofs ---------------------------
(***************************************************************************)
(* What holds of the folder tree for every number of rows, spaces and      *)
(* names, and of a browser that moves, renames and trashes its items and   *)
(* takes that back (TreeUndo).  The inductive invariant of the tree is     *)
(* Sound: the shape of the table, the foreign key, the space of a child    *)
(* and the absence of cycles need one another (a move keeps the tree free  *)
(* of cycles only because files have no children and Subtree(n) really     *)
(* holds what is below n).  That of the browser is UInv: while nobody else *)
(* changes the table, the lists that the loop and the offer hold say       *)
(* exactly how it differs from the table the gesture began with.           *)
(***************************************************************************)
EXTENDS TreeUndo, WellFoundedInduction, TLAPS

Sound == TypeOK /\ ParentIsFolder /\ SpaceFollowsParent /\ Rooted

-----------------------------------------------------------------------------
\* The walks

\* The equation that defines a walk always has a solution, so Reach returns one.
LEMMA ReachFixpoint ==
    ASSUME NEW roots, NEW links
    PROVE  /\ Reach(roots, links) \subseteq Ids
           /\ \A m \in Ids : m \in Reach(roots, links)
                 <=> m \in roots \/ (m \in links /\ node[m].parent \in Reach(roots, links))
PROOF
<1> DEFINE Closed(S) == \A m \in Ids :
              m \in roots \/ (m \in links /\ node[m].parent \in S) => m \in S
           L == {m \in Ids : \A S \in SUBSET Ids : Closed(S) => m \in S}
           L2 == {m \in Ids : m \in roots \/ (m \in links /\ node[m].parent \in L)}
           Solves(S) == \A m \in Ids :
              m \in S <=> m \in roots \/ (m \in links /\ node[m].parent \in S)
<1>1. L2 \subseteq L
  <2> SUFFICES ASSUME NEW m \in L2, NEW S \in SUBSET Ids, Closed(S)
               PROVE  m \in S
      OBVIOUS
  <2>1. node[m].parent \in L => node[m].parent \in S
      OBVIOUS
  <2> QED BY <2>1
<1>2. Closed(L2)
  BY <1>1
<1>3. L \subseteq L2
  <2> HIDE DEF Closed
  <2> SUFFICES ASSUME NEW m \in L PROVE m \in L2
      OBVIOUS
  <2>1. L2 \in SUBSET Ids
      OBVIOUS
  <2> HIDE DEF L2
  <2> QED BY <1>2, <2>1
<1>4. L = L2
  BY <1>1, <1>3
<1>5. L \in SUBSET Ids /\ Solves(L)
  <2>1. \A m \in Ids : m \in L2 <=> m \in roots \/ (m \in links /\ node[m].parent \in L)
      OBVIOUS
  <2> HIDE DEF L2
  <2>2. L \in SUBSET Ids
      OBVIOUS
  <2> HIDE DEF L
  <2> QED BY <1>4, <2>1, <2>2
<1> HIDE DEF L, Solves
<1>6. \E S \in SUBSET Ids : Solves(S)
  BY <1>5
<1>7. Reach(roots, links) = CHOOSE S \in SUBSET Ids : Solves(S)
  BY DEF Reach, Solves
<1>8. Reach(roots, links) \in SUBSET Ids /\ Solves(Reach(roots, links))
  BY <1>6, <1>7
<1> QED BY <1>8 DEF Solves

\* Subtree(n) holds n, everything below it, and nothing else that hangs elsewhere.
LEMMA SubtreeFacts ==
    ASSUME NEW n \in Ids
    PROVE  /\ Subtree(n) \subseteq Ids
           /\ n \in Subtree(n)
           /\ \A m \in Ids : node[m].parent \in Subtree(n) => m \in Subtree(n)
           /\ \A m \in Subtree(n) : m # n => node[m].parent \in Subtree(n)
PROOF BY ReachFixpoint DEF Subtree

LEMMA LiveSubtreeFacts ==
    ASSUME NEW n \in Ids
    PROVE  /\ LiveSubtree(n) \subseteq Ids
           /\ n \in LiveSubtree(n)
           /\ \A m \in LiveSubtree(n) : m # n => node[m].parent \in LiveSubtree(n)
PROOF BY ReachFixpoint DEF LiveSubtree

LEMMA HiddenFacts ==
    /\ Hidden \subseteq Ids
    /\ Trashed \subseteq Hidden
    /\ \A m \in Ids : node[m].parent \in Hidden => m \in Hidden
    /\ \A m \in Hidden : m \in Trashed \/ node[m].parent \in Hidden
PROOF BY ReachFixpoint DEF Hidden, Trashed

\* A file has nothing below it.
LEMMA FileSubtree ==
    ASSUME ParentIsFolder, Rooted, NEW n \in Ids, node[n].type # "folder", Null \notin Ids
    PROVE  Subtree(n) = {n}
PROOF
<1> DEFINE D == Subtree(n) \ {n}
<1>1. SUFFICES ASSUME D # {} PROVE FALSE
  BY SubtreeFacts
<1>2. PICK m \in D : node[m].parent \notin D
  BY <1>1, SubtreeFacts DEF Rooted
<1>3. m \in Ids /\ node[m].parent = n
  BY <1>2, SubtreeFacts
<1> QED BY <1>3 DEF ParentIsFolder

-----------------------------------------------------------------------------
\* Names and places

LEMMA CandidateIsName ==
    ASSUME NEW nm \in Name, NEW i \in 1..MaxSuffix
    PROVE  Candidate(nm, i) \in Name
PROOF
<1>1. CASE i = 1
  BY <1>1 DEF Candidate
<1>2. CASE i # 1
  <2>1. i \in 2..MaxSuffix
      BY <1>2, NodeTreeAssumption
  <2>2. Append(nm.tags, i) \in Seq(2..MaxSuffix)
      BY <2>1 DEF Name
  <2>3. Candidate(nm, i) = [stem |-> nm.stem, tags |-> Append(nm.tags, i)]
      BY <1>2 DEF Candidate, Name
  <2> QED BY <2>2, <2>3 DEF Name
<1> QED BY <1>1, <1>2

LEMMA NamesAreNames ==
    ASSUME NEW at, NEW nm \in Name, NEW except
    PROVE  UniqueNames(at, nm, except) \subseteq Name
PROOF BY CandidateIsName DEF UniqueNames

LEMMA UniqueIsFree ==
    ASSUME NEW at, NEW given, NEW except, NEW nm \in UniqueNames(at, given, except)
    PROVE  ~ Taken(at, nm, except)
PROOF BY DEF UniqueNames

\* A place a request may put something into.
GoodPlace(at) ==
    /\ at \in Place
    /\ at.parent # Null => /\ at.parent \in Ids
                           /\ node[at.parent].type = "folder"
                           /\ node[at.parent].space = at.space

LEMMA FolderPlace ==
    ASSUME TypeOK, NEW p \in Ids, node[p].type = "folder"
    PROVE  GoodPlace(Folder(p))
PROOF
<1>1. node[p].space \in Space /\ p \in NodeId
  BY DEF TypeOK, Row
<1> QED BY <1>1 DEF GoodPlace, Folder, Place

LEMMA DestinationPlace ==
    ASSUME TypeOK, NEW at \in Destinations
    PROVE  GoodPlace(at)
PROOF
<1>1. CASE at \in {[space |-> s, parent |-> Null] : s \in Space}
  BY <1>1 DEF GoodPlace, Place
<1>2. CASE at \in {Folder(p) : p \in {m \in Visible : node[m].type = "folder"}}
  BY <1>2, FolderPlace DEF Visible
<1> QED BY <1>1, <1>2 DEF Destinations

-----------------------------------------------------------------------------
\* Requests that add rows

\* Rows may be added whose parents are folders of the table or of the rows added
\* with them, as long as the new rows among themselves have no cycle.
LEMMA InsertSound ==
    ASSUME Sound, UNCHANGED now,
           NEW new, Insert(new),
           DOMAIN new \subseteq Unused,
           new \in [DOMAIN new -> Row],
           \A c \in DOMAIN new :
              \/ new[c].parent = Null
              \/ /\ new[c].parent \in Ids
                 /\ node[new[c].parent].type = "folder"
                 /\ node[new[c].parent].space = new[c].space
              \/ /\ new[c].parent \in DOMAIN new
                 /\ new[new[c].parent].type = "folder"
                 /\ new[new[c].parent].space = new[c].space,
           \A S \in (SUBSET DOMAIN new) \ {{}} : \E c \in S : new[c].parent \notin S
    PROVE  Sound'
PROOF
<1>1. /\ Ids' = Ids \cup DOMAIN new
      /\ Ids \cap DOMAIN new = {}
      /\ \A m \in Ids : node'[m] = node[m]
      /\ \A m \in DOMAIN new : node'[m] = new[m]
  BY DEF Insert, Unused, Ids
<1>2. TypeOK'
  <2>1. node' \in [Ids' -> Row]
      BY <1>1 DEF Sound, TypeOK, Insert, Ids
  <2> QED BY <1>1, <2>1 DEF Sound, TypeOK, Unused
<1>3. \A m \in Ids : node[m].parent # Null => node[m].parent \in Ids
  BY DEF Sound, ParentIsFolder
<1>4. ParentIsFolder'
  BY <1>1, <1>3 DEF Sound, ParentIsFolder
<1>5. SpaceFollowsParent'
  BY <1>1, <1>3 DEF Sound, SpaceFollowsParent
<1>6. Rooted'
  <2> SUFFICES ASSUME NEW S \in SUBSET Ids', S # {}
               PROVE  \E m \in S : node'[m].parent \notin S
      BY DEF Rooted
  <2>1. CASE S \cap Ids = {}
      BY <1>1, <2>1
  <2>2. CASE S \cap Ids # {}
    <3>1. PICK m \in S \cap Ids : node[m].parent \notin S \cap Ids
        BY <2>2 DEF Sound, Rooted
    <3>2. Null \notin Ids'
        BY <1>1, NodeTreeAssumption DEF Sound, TypeOK, Unused
    <3> QED BY <1>1, <1>3, <3>1, <3>2
  <2> QED BY <2>1, <2>2
<1> QED BY <1>2, <1>4, <1>5, <1>6 DEF Sound

\* One new row in a good place.
LEMMA PutSound ==
    ASSUME Sound, UNCHANGED now,
           NEW at, GoodPlace(at),
           NEW n \in Unused, NEW nm \in Name, NEW type \in {"folder", "file"},
           Insert([m \in {n} |-> NewRow(type, at, nm)])
    PROVE  Sound'
PROOF
<1> DEFINE new == [m \in {n} |-> NewRow(type, at, nm)]
<1>1. NodeTreeAssumption /\ n \in NodeId /\ n # Null /\ n \notin Ids
  BY NodeTreeAssumption DEF Unused
<1>2. NewRow(type, at, nm) \in Row
  BY DEF NewRow, Row, GoodPlace, Place
<1>3. /\ DOMAIN new = {n}
      /\ new[n].parent = at.parent
      /\ new[n].space = at.space
  BY DEF NewRow
<1>4. new \in [DOMAIN new -> Row]
  BY <1>2
<1>5. at.parent # n
  BY <1>1 DEF GoodPlace
<1>6. Insert(new)
  OBVIOUS
<1> HIDE DEF new
<1>7. \A c \in DOMAIN new :
         \/ new[c].parent = Null
         \/ /\ new[c].parent \in Ids
            /\ node[new[c].parent].type = "folder"
            /\ node[new[c].parent].space = new[c].space
  BY <1>3 DEF GoodPlace
<1>8. \A S \in (SUBSET DOMAIN new) \ {{}} : \E c \in S : new[c].parent \notin S
  BY <1>3, <1>5
<1> QED BY <1>1, <1>3, <1>4, <1>6, <1>7, <1>8, InsertSound DEF Unused

LEMMA PutFileSound ==
    ASSUME Sound, NEW at, GoodPlace(at), NEW typed \in Name, PutFile(at, typed)
    PROVE  Sound'
PROOF
<1>1. PICK n \in Unused, nm \in UniqueNames(at, typed, Null) :
         Insert([m \in {n} |-> NewRow("file", at, nm)])
  BY DEF PutFile
<1>2. nm \in Name
  BY NamesAreNames
<1> QED BY <1>1, <1>2, PutSound DEF PutFile

LEMMA CreateFolderSound ==
    ASSUME Sound, NEW at, NEW typed \in Name, CreateFolder(at, typed)
    PROVE  Sound'
PROOF
<1>1. PICK n \in Unused, nm \in UniqueNames(at, typed, Null) :
         Insert([m \in {n} |-> NewRow("folder", at, nm)])
  BY DEF CreateFolder
<1>2. nm \in Name
  BY NamesAreNames
<1>3. GoodPlace(at)
  BY DestinationPlace DEF CreateFolder, Sound
<1> QED BY <1>1, <1>2, <1>3, PutSound DEF CreateFolder

\* A file below a directory that exists, or below one made for it.
LEMMA PutFileUnderSound ==
    ASSUME Sound, NEW at, GoodPlace(at), NEW dir \in Name, NEW typed \in Name,
           PutFileUnder(at, dir, typed)
    PROVE  Sound'
PROOF
<1>1. CASE \E d \in {m \in Ids : /\ PlaceOf(m) = at /\ node[m].name = dir
                                 /\ node[m].type = "folder" /\ node[m].deleted = Null} :
             PutFile(Folder(d), typed)
  <2>1. PICK d \in Ids : node[d].type = "folder" /\ PutFile(Folder(d), typed)
      BY <1>1
  <2>2. GoodPlace(Folder(d))
      BY <2>1, FolderPlace DEF Sound
  <2> QED BY <2>1, <2>2, PutFileSound
<1>2. CASE /\ \E d \in Unused : \E n \in Unused \ {d} :
                 Insert([m \in {d, n} |->
                           IF m = d THEN NewRow("folder", at, dir)
                           ELSE NewRow("file", [space |-> at.space, parent |-> d], typed)])
           /\ UNCHANGED now
  <2>1. PICK d \in Unused : \E n \in Unused \ {d} :
                 Insert([m \in {d, n} |->
                           IF m = d THEN NewRow("folder", at, dir)
                           ELSE NewRow("file", [space |-> at.space, parent |-> d], typed)])
      BY <1>2
  <2>2. PICK n \in Unused \ {d} :
                 Insert([m \in {d, n} |->
                           IF m = d THEN NewRow("folder", at, dir)
                           ELSE NewRow("file", [space |-> at.space, parent |-> d], typed)])
      BY <2>1
  <2> DEFINE new == [m \in {d, n} |->
                       IF m = d THEN NewRow("folder", at, dir)
                       ELSE NewRow("file", [space |-> at.space, parent |-> d], typed)]
  <2>3. /\ d \in NodeId /\ d \notin Ids
        /\ n \in NodeId /\ n \notin Ids
        /\ n # d
        /\ Null \notin NodeId
      BY NodeTreeAssumption DEF Unused
  <2>4. /\ DOMAIN new = {d, n}
        /\ new[d] = NewRow("folder", at, dir)
        /\ new[n] = NewRow("file", [space |-> at.space, parent |-> d], typed)
      BY <2>3
  <2>5. new[d] \in Row /\ new[n] \in Row
      BY <2>3, <2>4 DEF NewRow, Row, GoodPlace, Place
  <2>6. /\ new[d].parent = at.parent /\ new[d].space = at.space /\ new[d].type = "folder"
        /\ new[n].parent = d /\ new[n].space = at.space
      BY <2>4 DEF NewRow
  <2>7. Insert(new)
      BY <2>2
  <2>8. new \in [DOMAIN new -> Row]
      BY <2>5
  <2> HIDE DEF new
  <2>9. \A c \in DOMAIN new :
           \/ new[c].parent = Null
           \/ /\ new[c].parent \in Ids
              /\ node[new[c].parent].type = "folder"
              /\ node[new[c].parent].space = new[c].space
           \/ /\ new[c].parent \in DOMAIN new
              /\ new[new[c].parent].type = "folder"
              /\ new[new[c].parent].space = new[c].space
      BY <2>4, <2>6 DEF GoodPlace
  <2>10. \A S \in (SUBSET DOMAIN new) \ {{}} : \E c \in S : new[c].parent \notin S
    <3>1. at.parent \notin {d, n}
        BY <2>3 DEF GoodPlace
    <3> QED BY <2>3, <2>4, <2>6, <3>1
  <2>11. DOMAIN new \subseteq Unused
      BY <2>3, <2>4 DEF Unused
  <2> QED BY <1>2, <2>7, <2>8, <2>9, <2>10, <2>11, InsertSound
<1> QED BY <1>1, <1>2 DEF PutFileUnder

\* The copy of a tree has the shape of the tree, so it brings no cycle with it;
\* siblings among the copies get different names.
LEMMA CopySound ==
    ASSUME Sound, NEW n, NEW at, Copy(n, at)
    PROVE  /\ Sound'
           /\ SameTypeNamesDiffer => SameTypeNamesDiffer'
PROOF
<1> DEFINE tree == LiveSubtree(n)
<1>1. n \in Ids /\ GoodPlace(at)
  BY DestinationPlace DEF Copy, Sound, Visible
<1> DEFINE rows(id, pick) ==
              [c \in {id[m] : m \in tree} |->
                 LET m == CHOOSE x \in tree : id[x] = c
                 IN  NewRow(node[m].type,
                            [space |-> at.space,
                             parent |-> IF m = n THEN at.parent ELSE id[node[m].parent]],
                            Candidate(node[m].name, pick[m]))]
<1>2. PICK id \in [tree -> Unused], pick \in [tree -> 1..MaxSuffix] :
         /\ \A a, b \in tree : id[a] = id[b] => a = b
         /\ Candidate(node[n].name, pick[n]) \in UniqueNames(at, node[n].name, Null)
         /\ InnerNames(tree, n, pick)
         /\ Insert(rows(id, pick))
  BY DEF Copy
<1> DEFINE new == rows(id, pick)
<1>3. /\ tree \subseteq Ids
      /\ n \in tree
      /\ \A m \in tree : m # n => node[m].parent \in tree
  BY <1>1, LiveSubtreeFacts
<1>4. DOMAIN new = {id[m] : m \in tree}
  OBVIOUS
<1>5. \A m \in tree : (CHOOSE x \in tree : id[x] = id[m]) = m
  BY <1>2
<1>6. \A m \in tree :
         /\ id[m] \in Unused
         /\ new[id[m]] = NewRow(node[m].type,
                            [space |-> at.space,
                             parent |-> IF m = n THEN at.parent ELSE id[node[m].parent]],
                            Candidate(node[m].name, pick[m]))
  BY <1>2, <1>5
<1> HIDE DEF new, tree
<1>7. \A m \in tree :
         /\ new[id[m]].type = node[m].type
         /\ new[id[m]].space = at.space
         /\ m = n => new[id[m]].parent = at.parent
         /\ m # n => new[id[m]].parent = id[node[m].parent]
         /\ new[id[m]].name = Candidate(node[m].name, pick[m])
  <2> SUFFICES ASSUME NEW m \in tree
               PROVE  /\ new[id[m]].type = node[m].type
                      /\ new[id[m]].space = at.space
                      /\ m = n => new[id[m]].parent = at.parent
                      /\ m # n => new[id[m]].parent = id[node[m].parent]
                      /\ new[id[m]].name = Candidate(node[m].name, pick[m])
      OBVIOUS
  <2> DEFINE parent == IF m = n THEN at.parent ELSE id[node[m].parent]
             given == Candidate(node[m].name, pick[m])
  <2>1. new[id[m]] = NewRow(node[m].type, [space |-> at.space, parent |-> parent], given)
      BY <1>6
  <2>2. (m = n => parent = at.parent) /\ (m # n => parent = id[node[m].parent])
      OBVIOUS
  <2>3. given = Candidate(node[m].name, pick[m])
      OBVIOUS
  <2> HIDE DEF parent, given
  <2> QED BY <2>1, <2>2, <2>3 DEF NewRow
<1>8. \A m \in tree : new[id[m]] \in Row
  <2> SUFFICES ASSUME NEW m \in tree PROVE new[id[m]] \in Row
      OBVIOUS
  <2> DEFINE parent == IF m = n THEN at.parent ELSE id[node[m].parent]
             given == Candidate(node[m].name, pick[m])
  <2>1. node[m] \in Row
      BY <1>3 DEF Sound, TypeOK
  <2>2. at.space \in Space /\ parent \in NodeId \cup {Null}
      BY <1>1, <1>3, <1>6 DEF GoodPlace, Place, Unused
  <2>3. given \in Name
      BY <1>2, <2>1, CandidateIsName DEF Row
  <2>4. new[id[m]] = NewRow(node[m].type, [space |-> at.space, parent |-> parent], given)
      BY <1>6
  <2> HIDE DEF parent, given
  <2> QED BY <2>1, <2>2, <2>3, <2>4 DEF NewRow, Row
<1>9. \A c \in DOMAIN new :
         \/ new[c].parent = Null
         \/ /\ new[c].parent \in Ids
            /\ node[new[c].parent].type = "folder"
            /\ node[new[c].parent].space = new[c].space
         \/ /\ new[c].parent \in DOMAIN new
            /\ new[new[c].parent].type = "folder"
            /\ new[new[c].parent].space = new[c].space
  <2> SUFFICES ASSUME NEW m \in tree, m # n
               PROVE  /\ new[id[m]].parent \in DOMAIN new
                      /\ new[new[id[m]].parent].type = "folder"
                      /\ new[new[id[m]].parent].space = new[id[m]].space
      BY <1>1, <1>4, <1>7 DEF GoodPlace
  <2>1. /\ node[m].parent \in tree
        /\ node[m].parent # Null
        /\ node[node[m].parent].type = "folder"
      BY <1>3, NodeTreeAssumption DEF Sound, TypeOK, ParentIsFolder
  <2> QED BY <1>4, <1>7, <2>1
<1>10. \A S \in (SUBSET DOMAIN new) \ {{}} : \E c \in S : new[c].parent \notin S
  <2> SUFFICES ASSUME NEW S \in SUBSET DOMAIN new, S # {}
               PROVE  \E c \in S : new[c].parent \notin S
      OBVIOUS
  <2> DEFINE T == {m \in tree : id[m] \in S}
  <2>1. T # {} /\ T \subseteq Ids
      BY <1>3, <1>4
  <2>2. PICK m \in T : node[m].parent \notin T
      BY <2>1 DEF Sound, Rooted
  <2>3. CASE m = n
    <3>1. at.parent \notin DOMAIN new
        BY <1>1, <1>4, <1>6, NodeTreeAssumption DEF GoodPlace, Unused
    <3> QED BY <1>7, <2>3, <3>1
  <2>4. CASE m # n
      BY <1>3, <1>7, <2>2, <2>4
  <2> QED BY <2>3, <2>4
<1>11. /\ DOMAIN new \subseteq Unused
       /\ new \in [DOMAIN new -> Row]
  <2>1. new = [c \in DOMAIN new |-> new[c]]
      BY DEF new
  <2> QED BY <1>4, <1>6, <1>8, <2>1
<1>12. Insert(new) /\ UNCHANGED now
  BY <1>2 DEF new, Copy
<1>13. Sound'
  BY <1>9, <1>10, <1>11, <1>12, InsertSound
<1>14. ASSUME SameTypeNamesDiffer PROVE SameTypeNamesDiffer'
  <2>1. /\ Ids' = Ids \cup DOMAIN new
        /\ Ids \cap DOMAIN new = {}
        /\ \A m \in Ids : node'[m] = node[m]
        /\ \A m \in DOMAIN new : node'[m] = new[m]
      BY <1>11, <1>12 DEF Insert, Unused, Ids
  <2>2. \A j \in Ids : node[j].parent \notin DOMAIN new
      BY <1>11, NodeTreeAssumption DEF Unused, Sound, ParentIsFolder
  <2>3. at.parent \notin DOMAIN new /\ at = [space |-> at.space, parent |-> at.parent]
      BY <1>1, <1>11, NodeTreeAssumption DEF GoodPlace, Place, Unused
  <2>4. ASSUME NEW a \in tree, NEW b \in tree, a # b, PlaceOf(id[a])' = PlaceOf(id[b])'
        PROVE  node'[id[a]].name # node'[id[b]].name
    <3>1. node'[id[a]].parent = node'[id[b]].parent
        BY <2>4 DEF PlaceOf
    <3>2. new[id[a]].parent = new[id[b]].parent
        BY <1>4, <2>1, <3>1
    <3>3. \A m \in tree \ {n} : new[id[m]].parent \in DOMAIN new
        BY <1>3, <1>4, <1>7
    <3>4. a # n /\ b # n
        BY <1>7, <2>3, <2>4, <3>2, <3>3
    <3>5. node[a].parent = node[b].parent
        BY <1>2, <1>3, <1>7, <3>2, <3>4
    <3>6. Candidate(node[a].name, pick[a]) # Candidate(node[b].name, pick[b])
        BY <1>2, <2>4, <3>4, <3>5 DEF InnerNames
    <3> QED BY <1>4, <1>7, <2>1, <3>6
  <2>5. ASSUME NEW a \in tree, NEW j \in Ids, PlaceOf(id[a])' = PlaceOf(j)',
               node'[j].deleted = Null
        PROVE  node'[id[a]].name # node'[j].name
    <3>1. /\ new[id[a]].parent = node[j].parent
          /\ new[id[a]].space = node[j].space
        BY <1>4, <2>1, <2>5 DEF PlaceOf
    <3>2. a = n
        BY <1>3, <1>4, <1>7, <2>2, <3>1
    <3>3. PlaceOf(j) = at
        BY <1>7, <2>3, <3>1, <3>2 DEF PlaceOf
    <3>4. ~ Taken(at, Candidate(node[n].name, pick[n]), Null) /\ Null \notin Ids
        BY <1>2, UniqueIsFree, NodeTreeAssumption DEF Sound, TypeOK
    <3>5. node[j].name # Candidate(node[n].name, pick[n])
        BY <2>1, <2>5, <3>3, <3>4 DEF Taken
    <3> QED BY <1>4, <1>7, <2>1, <3>2, <3>5
  <2> SUFFICES ASSUME NEW m \in Ids', NEW k \in Ids',
                      m # k,
                      PlaceOf(m)' = PlaceOf(k)',
                      node'[m].deleted = Null, node'[k].deleted = Null,
                      node'[m].type = node'[k].type
               PROVE  node'[m].name # node'[k].name
      BY DEF SameTypeNamesDiffer
  <2>6. CASE m \in Ids /\ k \in Ids
      BY <1>14, <2>1, <2>6 DEF SameTypeNamesDiffer, PlaceOf
  <2>7. CASE m \notin Ids
    <3>1. PICK a \in tree : m = id[a]
        BY <1>4, <2>1, <2>7
    <3>2. CASE k \in Ids
        BY <2>5, <3>1, <3>2
    <3>3. CASE k \notin Ids
      <4>1. PICK b \in tree : k = id[b]
          BY <1>4, <2>1, <3>3
      <4> QED BY <2>4, <3>1, <4>1
    <3> QED BY <3>2, <3>3
  <2>8. CASE k \notin Ids /\ m \in Ids
    <3>1. PICK b \in tree : k = id[b]
        BY <1>4, <2>1, <2>8
    <3> QED BY <2>5, <2>8, <3>1
  <2> QED BY <2>6, <2>7, <2>8
<1> QED BY <1>13, <1>14

-----------------------------------------------------------------------------
\* Requests that change rows

\* What a move does to each row, and why the destination is outside the subtree.
LEMMA MoveFacts ==
    ASSUME Sound, NEW n \in Ids, NEW at \in Destinations, NEW nm \in Name,
           node[n].type = "folder" => at.parent \notin Subtree(n),
           node' = Moved(n, at, nm)
    PROVE  /\ GoodPlace(at)
           /\ at.parent \notin Subtree(n)
           /\ Ids' = Ids
           /\ \A m \in Ids : node'[m] \in Row /\ node'[m].type = node[m].type
           /\ \A m \in Ids : node'[m].deleted = node[m].deleted
           /\ node'[n].parent = at.parent /\ node'[n].name = nm
           /\ \A m \in Ids \ {n} : node'[m].parent = node[m].parent /\ node'[m].name = node[m].name
           /\ \A m \in Subtree(n) : node'[m].space = at.space
           /\ \A m \in Ids \ Subtree(n) : node'[m] = node[m]
PROOF
<1>1. GoodPlace(at)
  BY DestinationPlace DEF Sound
<1>2. at.parent \notin Subtree(n)
  <2>1. CASE node[n].type # "folder"
    <3>1. Subtree(n) = {n}
        BY <2>1, FileSubtree, NodeTreeAssumption DEF Sound, TypeOK
    <3> QED BY <1>1, <2>1, <3>1, NodeTreeAssumption DEF GoodPlace, Sound, TypeOK
  <2> QED BY <2>1
<1>3. Ids' = Ids
  BY DEF Ids, Moved
<1>4. Subtree(n) \subseteq Ids /\ n \in Subtree(n)
  BY SubtreeFacts
<1>5. \A m \in Ids : node[m] \in Row
  BY DEF Sound, TypeOK
<1>6. node'[n] = [node[n] EXCEPT !.name = nm, !.space = at.space, !.parent = at.parent]
  BY DEF Moved
<1>7. \A m \in Subtree(n) \ {n} : node'[m] = [node[m] EXCEPT !.space = at.space]
  BY <1>4 DEF Moved
<1>8. \A m \in Ids \ Subtree(n) : node'[m] = node[m]
  BY <1>4 DEF Moved
<1>9. at.space \in Space /\ at.parent \in NodeId \cup {Null}
  BY <1>1 DEF GoodPlace, Place
<1>10. /\ node'[n] \in Row /\ node'[n].type = node[n].type /\ node'[n].deleted = node[n].deleted
       /\ node'[n].parent = at.parent /\ node'[n].name = nm /\ node'[n].space = at.space
  BY <1>5, <1>6, <1>9 DEF Row
<1>11. \A m \in Subtree(n) \ {n} :
          /\ node'[m] \in Row /\ node'[m].type = node[m].type /\ node'[m].deleted = node[m].deleted
          /\ node'[m].parent = node[m].parent /\ node'[m].name = node[m].name
          /\ node'[m].space = at.space
  <2> SUFFICES ASSUME NEW m \in Subtree(n) \ {n}
               PROVE  /\ node'[m] \in Row /\ node'[m].type = node[m].type
                      /\ node'[m].deleted = node[m].deleted
                      /\ node'[m].parent = node[m].parent /\ node'[m].name = node[m].name
                      /\ node'[m].space = at.space
      OBVIOUS
  <2>1. node'[m] = [node[m] EXCEPT !.space = at.space] /\ node[m] \in Row
      BY <1>4, <1>5, <1>7
  <2> QED BY <1>9, <2>1 DEF Row
<1> QED BY <1>1, <1>2, <1>3, <1>4, <1>5, <1>8, <1>10, <1>11

\* Moving keeps the tree a tree: a cycle would have to run through the moved item
\* and its new parent, and so below the moved item.
LEMMA MoveToSound ==
    ASSUME Sound, UNCHANGED now, NEW n \in Ids, NEW at, NEW given \in Name,
           MoveTo(n, at, given)
    PROVE  Sound'
PROOF
<1>1. PICK nm \in UniqueNames(at, given, n) :
         node' = Moved(n, at, nm)
  BY DEF MoveTo
<1>2. /\ nm \in Name
      /\ at \in Destinations
      /\ node[n].type = "folder" => at.parent \notin Subtree(n)
  BY NamesAreNames DEF MoveTo
<1>3. /\ GoodPlace(at)
      /\ at.parent \notin Subtree(n)
      /\ Ids' = Ids
      /\ \A m \in Ids : node'[m] \in Row /\ node'[m].type = node[m].type
      /\ node'[n].parent = at.parent
      /\ \A m \in Ids \ {n} : node'[m].parent = node[m].parent
      /\ \A m \in Subtree(n) : node'[m].space = at.space
      /\ \A m \in Ids \ Subtree(n) : node'[m] = node[m]
  BY <1>1, <1>2, MoveFacts
<1>4. /\ Subtree(n) \subseteq Ids
      /\ n \in Subtree(n)
      /\ \A m \in Ids : node[m].parent \in Subtree(n) => m \in Subtree(n)
      /\ \A m \in Subtree(n) : m # n => node[m].parent \in Subtree(n)
  BY SubtreeFacts
<1>5. TypeOK'
  <2>1. node' = [m \in Ids' |-> node'[m]]
      BY <1>1, <1>3 DEF Moved
  <2> QED BY <1>3, <2>1 DEF Sound, TypeOK
<1>6. ParentIsFolder'
  BY <1>3 DEF Sound, ParentIsFolder, GoodPlace
<1>7. SpaceFollowsParent'
  BY <1>3, <1>4 DEF Sound, SpaceFollowsParent, ParentIsFolder, GoodPlace
<1>8. Rooted'
  <2> SUFFICES ASSUME NEW S \in SUBSET Ids, S # {},
                      \A m \in S : node'[m].parent \in S
               PROVE  FALSE
      BY <1>3 DEF Rooted
  <2> DEFINE T == S \ Subtree(n)
  <2>1. T # {}
    <3>1. CASE n \in S
        BY <1>3, <3>1
    <3>2. CASE n \notin S
      <4>1. PICK m \in S : node[m].parent \notin S
          BY DEF Sound, Rooted
      <4> QED BY <1>3, <3>2, <4>1
    <3> QED BY <3>1, <3>2
  <2>2. PICK m \in T : node[m].parent \notin T
      BY <2>1 DEF Sound, Rooted
  <2> QED BY <1>3, <1>4, <2>2
<1> QED BY <1>5, <1>6, <1>7, <1>8 DEF Sound

\* A step that changes only names and deletion times.
LEMMA KeepLinksSound ==
    ASSUME Sound, UNCHANGED now, TypeOK', Ids' = Ids,
           \A m \in Ids : /\ node'[m].parent = node[m].parent
                          /\ node'[m].space = node[m].space
                          /\ node'[m].type = node[m].type
    PROVE  Sound'
PROOF BY DEF Sound, ParentIsFolder, SpaceFollowsParent, Rooted

LEMMA RenameSound ==
    ASSUME Sound, NEW n, NEW typed \in Name, Rename(n, typed)
    PROVE  Sound'
PROOF
<1>1. n \in Ids
  BY DEF Rename, Visible
<1>2. PICK nm \in Name : node' = [node EXCEPT ![n].name = nm]
  BY NamesAreNames DEF Rename
<1>3. \A m \in Ids : node[m] \in Row
  BY DEF Sound, TypeOK
<1>4. [node[n] EXCEPT !.name = nm] \in Row
  BY <1>1, <1>3 DEF Row
<1>5. Ids' = Ids /\ now' = now
  BY <1>2 DEF Ids, Rename
<1>6. TypeOK'
  BY <1>1, <1>2, <1>3, <1>4, <1>5 DEF Sound, TypeOK, Ids
<1>7. \A m \in Ids : /\ node'[m].parent = node[m].parent
                     /\ node'[m].space = node[m].space
                     /\ node'[m].type = node[m].type
  BY <1>1, <1>2, <1>3 DEF Row, Ids, Sound, TypeOK
<1> QED BY <1>5, <1>6, <1>7, KeepLinksSound

LEMMA SoftDeleteSound ==
    ASSUME Sound, NEW n, SoftDelete(n)
    PROVE  Sound'
PROOF
<1>1. n \in Ids /\ node' = [node EXCEPT ![n].deleted = now]
  BY DEF SoftDelete, Visible
<1>2. \A m \in Ids : node[m] \in Row
  BY DEF Sound, TypeOK
<1>3. [node[n] EXCEPT !.deleted = now] \in Row
  BY <1>1, <1>2 DEF Row, Sound, TypeOK
<1>4. Ids' = Ids /\ now' = now
  BY <1>1 DEF Ids, SoftDelete
<1>5. TypeOK'
  BY <1>1, <1>2, <1>3, <1>4 DEF Sound, TypeOK, Ids
<1>6. \A m \in Ids : /\ node'[m].parent = node[m].parent
                     /\ node'[m].space = node[m].space
                     /\ node'[m].type = node[m].type
  BY <1>1, <1>2 DEF Row, Ids, Sound, TypeOK
<1> QED BY <1>4, <1>5, <1>6, KeepLinksSound

\* Restoring leaves the item where it was, or takes it to the root.
LEMMA RestoreSound ==
    ASSUME Sound, NEW n, Restore(n)
    PROVE  Sound'
PROOF
<1>1. n \in Ids
  BY DEF Restore, Trashed
<1>2. PICK parent \in {Null, node[n].parent}, nm \in Name :
         node' = [node EXCEPT ![n].parent = parent, ![n].name = nm, ![n].deleted = Null]
  <2> DEFINE home == IF node[n].parent \in Trashed
                     THEN [space |-> node[n].space, parent |-> Null]
                     ELSE PlaceOf(n)
  <2>1. PICK nm \in UniqueNames(home, node[n].name, n) :
           node' = [node EXCEPT ![n].parent = home.parent, ![n].name = nm,
                                ![n].deleted = Null]
      BY DEF Restore
  <2>2. home.parent \in {Null, node[n].parent}
      BY DEF PlaceOf
  <2>3. node[n].name \in Name
      BY <1>1 DEF Sound, TypeOK, Row
  <2>4. nm \in Name
      BY <2>3, NamesAreNames
  <2> HIDE DEF home
  <2> QED BY <2>1, <2>2, <2>4
<1>3. \A m \in Ids : node[m] \in Row
  BY DEF Sound, TypeOK
<1>4. [node[n] EXCEPT !.parent = parent, !.name = nm, !.deleted = Null] \in Row
  BY <1>1, <1>2, <1>3 DEF Row
<1>5. Ids' = Ids /\ now' = now
  BY <1>2 DEF Ids, Restore
<1>6. node'[n] = [node[n] EXCEPT !.parent = parent, !.name = nm, !.deleted = Null]
  BY <1>1, <1>2, <1>3 DEF Row, Ids, Sound, TypeOK
<1>7. \A m \in Ids \ {n} : node'[m] = node[m]
  BY <1>1, <1>2 DEF Ids
<1>8. /\ node'[n].parent \in {Null, node[n].parent}
      /\ node'[n].space = node[n].space
      /\ node'[n].type = node[n].type
  BY <1>1, <1>3, <1>6 DEF Row
<1>9. TypeOK'
  <2>1. node' = [m \in Ids' |-> node'[m]]
      BY <1>2 DEF Ids, Sound, TypeOK
  <2> QED BY <1>3, <1>4, <1>5, <1>6, <1>7, <2>1 DEF Sound, TypeOK
<1>10. ParentIsFolder'
  BY <1>5, <1>7, <1>8 DEF Sound, ParentIsFolder
<1>11. SpaceFollowsParent'
  BY <1>5, <1>7, <1>8 DEF Sound, ParentIsFolder, SpaceFollowsParent
<1>12. Rooted'
  <2> SUFFICES ASSUME NEW S \in SUBSET Ids, S # {}
               PROVE  \E m \in S : node'[m].parent \notin S
      BY <1>5 DEF Rooted
  <2>1. PICK m \in S : node[m].parent \notin S
      BY DEF Sound, Rooted
  <2>2. Null \notin S
      BY NodeTreeAssumption DEF Sound, TypeOK
  <2> QED BY <1>7, <1>8, <2>1, <2>2
<1> QED BY <1>9, <1>10, <1>11, <1>12 DEF Sound

-----------------------------------------------------------------------------
\* Erasing

\* Rows may be erased together with everything below them.
LEMMA DeleteSound ==
    ASSUME Sound, UNCHANGED now, NEW gone, DeleteRows(gone),
           \A m \in Ids : node[m].parent \in gone => m \in gone
    PROVE  Sound'
PROOF
<1>1. Ids' = Ids \ gone /\ \A m \in Ids' : node'[m] = node[m]
  BY DEF DeleteRows, Ids
<1>2. TypeOK'
  <2>1. node' = [m \in Ids' |-> node[m]]
      BY <1>1 DEF DeleteRows
  <2> QED BY <1>1, <2>1 DEF Sound, TypeOK
<1>3. ParentIsFolder' /\ SpaceFollowsParent'
  BY <1>1 DEF Sound, ParentIsFolder, SpaceFollowsParent
<1>4. Rooted'
  BY <1>1 DEF Sound, Rooted
<1> QED BY <1>2, <1>3, <1>4 DEF Sound

LEMMA PurgeSound ==
    ASSUME Sound, NEW n, Purge(n)
    PROVE  Sound'
PROOF BY SubtreeFacts, DeleteSound DEF Purge, Trashed

LEMMA SweepSound ==
    ASSUME Sound, Sweep
    PROVE  Sound'
PROOF
<1> DEFINE gone == UNION {Subtree(n) : n \in Expired}
<1>1. Expired \subseteq Ids
  BY DEF Expired, Trashed
<1>2. \A m \in Ids : node[m].parent \in gone => m \in gone
  BY <1>1, SubtreeFacts
<1>3. DeleteRows(gone) /\ UNCHANGED now
  BY DEF Sweep
<1> HIDE DEF gone
<1> QED BY <1>2, <1>3, DeleteSound

\* A space holds whatever hangs below its rows.
LEMMA DeleteTeamSound ==
    ASSUME Sound, NEW s, NEW force, DeleteTeam(s, force)
    PROVE  Sound'
PROOF
<1> DEFINE gone == {m \in Ids : node[m].space = s}
<1>1. \A m \in Ids : node[m].parent \in gone => m \in gone
  BY NodeTreeAssumption DEF Sound, TypeOK, SpaceFollowsParent
<1>2. DeleteRows(gone) /\ UNCHANGED now
  BY DEF DeleteTeam
<1> HIDE DEF gone
<1> QED BY <1>1, <1>2, DeleteSound

-----------------------------------------------------------------------------
\* Every step

LEMMA AddingSound ==
    ASSUME Sound, Adding
    PROVE  Sound'
PROOF
<1>1. Typed \subseteq Name
  BY NodeTreeAssumption
<1>2. CASE \E at \in Destinations, t \in Typed : CreateFolder(at, t)
  BY <1>1, <1>2, CreateFolderSound
<1>3. CASE \E at \in Destinations, t \in Typed : Upload(at, t)
  BY <1>1, <1>3, PutFileSound, DestinationPlace DEF Upload, Sound
<1>4. CASE \E at \in Destinations, d, t \in Typed : UploadTree(at, d, t)
  <2>1. PICK at \in Destinations, d \in Typed, t \in Typed : PutFileUnder(at, d, t)
      BY <1>4 DEF UploadTree
  <2>2. GoodPlace(at)
      BY DestinationPlace DEF Sound
  <2> QED BY <1>1, <2>1, <2>2, PutFileUnderSound
<1>5. CASE \E p \in Ids, t \in Typed : UploadByToken(p, t)
  BY <1>1, <1>5, PutFileSound, FolderPlace DEF UploadByToken, TokenFolder, Sound
<1>6. CASE \E p \in Ids, d, t \in Typed : UploadTreeByToken(p, d, t)
  <2>1. PICK p \in Ids, d \in Typed, t \in Typed :
           node[p].type = "folder" /\ PutFileUnder(Folder(p), d, t)
      BY <1>6 DEF UploadTreeByToken, TokenFolder
  <2>2. GoodPlace(Folder(p))
      BY <2>1, FolderPlace DEF Sound
  <2> QED BY <1>1, <2>1, <2>2, PutFileUnderSound
<1>7. CASE \E n \in Visible, at \in Destinations : Copy(n, at)
  BY <1>7, CopySound
<1> QED BY <1>2, <1>3, <1>4, <1>5, <1>6, <1>7 DEF Adding

LEMMA ChangingSound ==
    ASSUME Sound, Changing
    PROVE  Sound'
PROOF
<1>1. Typed \subseteq Name
  BY NodeTreeAssumption
<1>2. Visible \subseteq Ids /\ \A n \in Ids : node[n].name \in Name
  BY DEF Visible, Sound, TypeOK, Row
<1>3. CASE \E n \in Visible, t \in Typed : Rename(n, t)
  BY <1>1, <1>3, RenameSound
<1>4. CASE \E n \in Visible, at \in Destinations : Move(n, at)
  BY <1>2, <1>4, MoveToSound DEF Move
<1>5. CASE \E n \in Visible, t \in Typed, at \in Destinations : RenameAndMove(n, t, at)
  <2>1. PICK n \in Visible, t \in Typed, at \in Destinations : RenameAndMove(n, t, at)
      BY <1>5
  <2>2. PICK nm \in UniqueNames(PlaceOf(n), t, n) : MoveTo(n, at, nm)
      BY <2>1 DEF RenameAndMove
  <2>3. nm \in Name
      BY <1>1, NamesAreNames
  <2> QED BY <1>2, <2>1, <2>2, <2>3, MoveToSound DEF RenameAndMove
<1> QED BY <1>3, <1>4, <1>5 DEF Changing

LEMMA NextSound ==
    ASSUME Sound, [Next]_vars
    PROVE  Sound'
PROOF
<1>1. CASE Adding
  BY <1>1, AddingSound
<1>2. CASE Changing
  BY <1>2, ChangingSound
<1>3. CASE Trashing
  BY <1>3, SoftDeleteSound, RestoreSound, PurgeSound, SweepSound, DeleteTeamSound
     DEF Trashing
<1>4. CASE Tick
  <2>1. now' \in 0..MaxTime
      BY <1>4, NodeTreeAssumption DEF Tick, Sound, TypeOK
  <2> QED BY <1>4, <2>1 DEF Tick, Sound, TypeOK, ParentIsFolder, SpaceFollowsParent, Rooted, Ids
<1>5. CASE UNCHANGED vars
  BY <1>5 DEF vars, Sound, TypeOK, ParentIsFolder, SpaceFollowsParent, Rooted, Ids
<1> QED BY <1>1, <1>2, <1>3, <1>4, <1>5 DEF Next

LEMMA InitSound ==
    ASSUME Init
    PROVE  Sound
PROOF
<1>1. Ids = {} /\ now = 0 /\ node \in [{} -> Row]
  BY DEF Init, Ids
<1>2. TypeOK
  BY <1>1, NodeTreeAssumption DEF TypeOK
<1>3. ParentIsFolder /\ SpaceFollowsParent /\ Rooted
  BY <1>1 DEF ParentIsFolder, SpaceFollowsParent, Rooted
<1> QED BY <1>2, <1>3 DEF Sound

\* The table keeps its shape and stays a tree whose children live where their
\* parents do, whatever requests arrive in whatever order.
THEOREM TreeIsSound == Spec => []Sound
PROOF
<1>1. Init => Sound
  BY InitSound
<1>2. Sound /\ [Next]_vars => Sound'
  BY NextSound
<1> QED BY <1>1, <1>2, PTL DEF Spec

\* The parts of Sound one by one: the declared shape of the table,
THEOREM TableHasItsType == Spec => []TypeOK
PROOF BY TreeIsSound, PTL DEF Sound

\* the foreign key parent_id, always to a folder,
THEOREM ParentsAreFolders == Spec => []ParentIsFolder
PROOF BY TreeIsSound, PTL DEF Sound

\* the space a row shares with its parent, on which every permission rests,
THEOREM SpacesFollowParents == Spec => []SpaceFollowsParent
PROOF BY TreeIsSound, PTL DEF Sound

\* and the absence of cycles, on which every walk of the code rests.
THEOREM TreeIsRooted == Spec => []Rooted
PROOF BY TreeIsSound, PTL DEF Sound

-----------------------------------------------------------------------------
\* The trash

\* What hangs below a trashed item is hidden: a row below it that is not would
\* have to hang below another such row, without end.
LEMMA TrashHides ==
    ASSUME Sound, NEW n \in Trashed
    PROVE  Subtree(n) \subseteq Hidden
PROOF
<1> DEFINE D == Subtree(n) \ Hidden
<1>1. n \in Ids
  BY DEF Trashed
<1>2. SUFFICES ASSUME D # {} PROVE FALSE
  OBVIOUS
<1>3. PICK m \in D : node[m].parent \notin D
  BY <1>1, <1>2, SubtreeFacts DEF Sound, Rooted
<1>4. m # n
  BY HiddenFacts
<1>5. node[m].parent \in Subtree(n) /\ node[m].parent \in Hidden
  BY <1>1, <1>3, <1>4, SubtreeFacts
<1> QED BY <1>1, <1>3, <1>5, HiddenFacts, SubtreeFacts

\* Everything hidden can be reached from the trash of its own space: it is in the
\* trash, or its parent can be so reached.
LEMMA SoundTrash ==
    ASSUME Sound
    PROVE  HiddenIsInSomeTrash
PROOF
<1> DEFINE Lost == {m \in Hidden : ~ \E a \in Trashed :
                       m \in Subtree(a) /\ node[a].space = node[m].space}
<1>1. SUFFICES ASSUME Lost # {} PROVE FALSE
  BY DEF HiddenIsInSomeTrash
<1>2. PICK m \in Lost : node[m].parent \notin Lost
  BY <1>1, HiddenFacts DEF Sound, Rooted
<1>3. Trashed \subseteq Ids /\ m \in Ids
  BY <1>2, HiddenFacts DEF Trashed
<1>4. m \notin Trashed
  BY <1>2, <1>3, SubtreeFacts
<1>5. node[m].parent \in Hidden /\ node[m].parent \in Ids
  BY <1>2, <1>4, HiddenFacts
<1>6. PICK a \in Trashed : /\ node[m].parent \in Subtree(a)
                           /\ node[a].space = node[node[m].parent].space
  BY <1>2, <1>5
<1>7. m \in Subtree(a)
  BY <1>3, <1>6, SubtreeFacts
<1>8. node[a].space = node[m].space
  BY <1>3, <1>5, <1>6, NodeTreeAssumption DEF Sound, TypeOK, SpaceFollowsParent
<1> QED BY <1>2, <1>6, <1>7, <1>8

\* Nothing is ever lost between the list of files and the trash.
THEOREM NothingIsLost == Spec => []HiddenIsInSomeTrash
PROOF
<1>1. Sound => HiddenIsInSomeTrash
  BY SoundTrash
<1> QED BY <1>1, TreeIsSound, PTL

LEMMA ErasingStep ==
    ASSUME Sound, [Next]_vars,
           \A s \in TeamSpaces : ~ DeleteTeam(s, TRUE)
    PROVE  (Ids \ Ids') \cap Visible = {}
PROOF
<1> SUFFICES Ids \ Ids' \subseteq Hidden
  BY DEF Visible
<1>1. CASE Adding
  <2>1. \A new : Insert(new) => Ids \subseteq Ids'
      BY DEF Insert, Ids
  <2>2. ASSUME NEW at, NEW t, PutFile(at, t) PROVE Ids \subseteq Ids'
      BY <2>1, <2>2 DEF PutFile
  <2>3. ASSUME NEW at, NEW t, CreateFolder(at, t) PROVE Ids \subseteq Ids'
      BY <2>1, <2>3 DEF CreateFolder
  <2>4. ASSUME NEW at, NEW d, NEW t, PutFileUnder(at, d, t) PROVE Ids \subseteq Ids'
      BY <2>1, <2>2, <2>4 DEF PutFileUnder
  <2>5. ASSUME NEW n, NEW at, Copy(n, at) PROVE Ids \subseteq Ids'
      BY <2>1, <2>5 DEF Copy
  <2> QED BY <1>1, <2>2, <2>3, <2>4, <2>5
      DEF Adding, Upload, UploadTree, UploadByToken, UploadTreeByToken
<1>2. CASE Changing
  <2>1. Ids = Ids'
      BY <1>2 DEF Changing, Rename, Move, RenameAndMove, MoveTo, Moved, Ids
  <2> QED BY <2>1
<1>3. CASE Trashing
  <2>1. CASE \E n \in Visible : SoftDelete(n)
      BY <2>1 DEF SoftDelete, Ids
  <2>2. CASE \E n \in Ids : Restore(n)
      BY <2>2 DEF Restore, Ids
  <2>3. CASE \E n \in Ids : Purge(n)
      BY <2>3, TrashHides DEF Purge, DeleteRows, Ids
  <2>4. CASE Sweep
    <3>1. Ids' = Ids \ UNION {Subtree(n) : n \in Expired}
        BY <2>4 DEF Sweep, DeleteRows, Ids
    <3>2. \A n \in Expired : Subtree(n) \subseteq Hidden
        BY TrashHides DEF Expired
    <3> QED BY <3>1, <3>2
  <2>5. CASE \E s \in TeamSpaces, force \in BOOLEAN : DeleteTeam(s, force)
    <3>1. PICK s \in TeamSpaces : DeleteTeam(s, FALSE)
        BY <2>5 DEF DeleteTeam
    <3>2. \A m \in Ids \ Ids' : node[m].deleted # Null
        BY <3>1 DEF DeleteTeam, DeleteRows, Ids
    <3> QED BY <3>2, HiddenFacts DEF Trashed
  <2> QED BY <1>3, <2>1, <2>2, <2>3, <2>4, <2>5 DEF Trashing
<1>4. CASE Tick \/ UNCHANGED vars
  BY <1>4 DEF Tick, vars, Ids
<1> QED BY <1>1, <1>2, <1>3, <1>4 DEF Next

\* A row that get_node_checked would still find is erased by no request and no sweep
\* but the forced deletion of its team.
THEOREM VisibleErasedByForceOnly == Spec => ErasedFromTrashOrByForce
PROOF
<1>1. Sound /\ [Next]_vars
        => [(Ids \ Ids') \cap Visible # {} => \E s \in TeamSpaces : DeleteTeam(s, TRUE)]_vars
  BY ErasingStep
<1> QED BY <1>1, TreeIsSound, PTL DEF Spec, ErasedFromTrashOrByForce

-----------------------------------------------------------------------------
\* What the user sees

\* A step leaves every row in sight that it keeps out of the trash, and lets it hang where
\* it hung, at the top of a space, or below another row in sight.
InSight ==
    \A m \in Visible \cap Ids' :
        /\ node'[m].deleted = Null
        /\ node'[m].parent \in {node[m].parent, Null} \cup Visible

LEMMA VisibleRow ==
    ASSUME Sound, NEW m \in Visible
    PROVE  /\ m \in Ids /\ node[m].deleted = Null
           /\ node[m].parent = Null \/ node[m].parent \in Visible
PROOF
<1>1. m \in Ids /\ m \notin Hidden /\ m \notin Trashed
  BY HiddenFacts DEF Visible
<1>2. node[m].parent \notin Hidden
  BY <1>1, HiddenFacts
<1> QED BY <1>1, <1>2 DEF Sound, ParentIsFolder, Visible, Trashed

\* The walk that finds the hidden rows, in the table the step leaves behind.
LEMMA HiddenFactsAfter ==
    (/\ Hidden \subseteq Ids
     /\ Trashed \subseteq Hidden
     /\ \A m \in Ids : node[m].parent \in Hidden => m \in Hidden
     /\ \A m \in Hidden : m \in Trashed \/ node[m].parent \in Hidden)'
PROOF BY HiddenFacts, PTL

\* Such a step hides nothing: rows that it hid would have to hang below one another,
\* without end.
LEMMA NothingHides ==
    ASSUME Sound, Sound', InSight
    PROVE  Visible \cap Hidden' = {}
PROOF
<1> DEFINE D == Visible \cap Hidden'
<1>1. Hidden' \subseteq Ids' /\ \A m \in Hidden' : m \in Trashed' \/ node'[m].parent \in Hidden'
  BY HiddenFactsAfter
<1>2. SUFFICES ASSUME D # {} PROVE FALSE
  OBVIOUS
<1>3. PICK m \in D : node'[m].parent \notin D
  BY <1>1, <1>2 DEF Sound, Rooted
<1>4. m \notin Trashed'
  BY <1>1, <1>3 DEF InSight, Trashed
<1>5. node'[m].parent \in Hidden' /\ node'[m].parent \notin Visible
  BY <1>1, <1>3, <1>4
<1>6. node'[m].parent = Null
  BY <1>1, <1>3, <1>5, VisibleRow DEF InSight
<1>7. Null \notin Ids'
  BY NodeTreeAssumption DEF Sound, TypeOK
<1> QED BY <1>1, <1>5, <1>6, <1>7

\* Nothing is out of sight that is not in the table.
LEMMA SameRows ==
    ASSUME Sound, \A m \in Ids : node'[m] = node[m]
    PROVE  InSight
PROOF BY VisibleRow DEF InSight

LEMMA AddingShows ==
    ASSUME Sound, Adding
    PROVE  InSight
PROOF
<1>1. \A new : Insert(new) /\ DOMAIN new \subseteq Unused => \A m \in Ids : node'[m] = node[m]
  BY DEF Insert, Unused
<1>2. ASSUME NEW at, NEW t, PutFile(at, t) PROVE \A m \in Ids : node'[m] = node[m]
  BY <1>1, <1>2 DEF PutFile
<1>3. ASSUME NEW at, NEW t, CreateFolder(at, t) PROVE \A m \in Ids : node'[m] = node[m]
  BY <1>1, <1>3 DEF CreateFolder
<1>4. ASSUME NEW at, NEW d, NEW t, PutFileUnder(at, d, t) PROVE \A m \in Ids : node'[m] = node[m]
  BY <1>1, <1>2, <1>4 DEF PutFileUnder
<1>5. ASSUME NEW n, NEW at, Copy(n, at) PROVE \A m \in Ids : node'[m] = node[m]
  BY <1>1, <1>5 DEF Copy
<1> QED BY SameRows, <1>2, <1>3, <1>4, <1>5
    DEF Adding, Upload, UploadTree, UploadByToken, UploadTreeByToken

LEMMA MoveToShows ==
    ASSUME Sound, NEW n \in Visible, NEW at, NEW given, MoveTo(n, at, given)
    PROVE  InSight
PROOF
<1>1. PICK nm : node' = Moved(n, at, nm)
  BY DEF MoveTo
<1>2. at.parent = Null \/ at.parent \in Visible
  BY DEF MoveTo, Destinations, Folder
<1>3. \A m \in Ids : /\ node'[m].deleted = node[m].deleted
                     /\ node'[m].parent = IF m = n THEN at.parent ELSE node[m].parent
  BY <1>1 DEF Moved, Sound, TypeOK, Row
<1> QED BY <1>2, <1>3, VisibleRow DEF InSight

LEMMA ChangingShows ==
    ASSUME Sound, Changing
    PROVE  InSight
PROOF
<1>1. ASSUME NEW n \in Visible, NEW t, Rename(n, t) PROVE InSight
  <2>1. \A m \in Ids : node'[m].deleted = node[m].deleted /\ node'[m].parent = node[m].parent
      BY <1>1 DEF Rename, Sound, TypeOK, Row, Ids
  <2> QED BY <2>1, VisibleRow DEF InSight
<1> QED BY <1>1, MoveToShows DEF Changing, Move, RenameAndMove

LEMMA RestoreShows ==
    ASSUME Sound, NEW n \in Ids, Restore(n)
    PROVE  InSight
PROOF
<1>1. n \notin Visible
  BY HiddenFacts DEF Restore, Visible
<1>2. \A m \in Ids \ {n} : node'[m] = node[m]
  BY DEF Restore, Ids
<1> QED BY <1>1, <1>2, VisibleRow DEF InSight

LEMMA ErasingShows ==
    ASSUME Sound, NEW gone, DeleteRows(gone)
    PROVE  InSight
PROOF
<1>1. \A m \in Ids' : node'[m] = node[m]
  BY DEF DeleteRows, Ids
<1> QED BY <1>1, VisibleRow DEF InSight

LEMMA HidingStep ==
    ASSUME Sound, [Next]_vars, ~ \E n \in Visible : SoftDelete(n)
    PROVE  Visible \cap Hidden' = {}
PROOF
<1>1. Sound'
  BY NextSound
<1>2. InSight
  <2>1. CASE Tick \/ UNCHANGED vars
      BY <2>1, SameRows DEF Tick, vars
  <2>2. CASE Trashing
      BY <2>2, RestoreShows, ErasingShows DEF Trashing, Purge, Sweep, DeleteTeam
  <2> QED BY <2>1, <2>2, AddingShows, ChangingShows DEF Next
<1> QED BY <1>1, <1>2, NothingHides

\* An item leaves the sight of its users only when somebody deletes something: no move,
\* restore, purge or sweep of one item hides another one (has_deleted_ancestor).
THEOREM OnlyDeletionHides == Spec => OnlyDeleteHides
PROOF
<1>1. Sound /\ [Next]_vars
        => [Visible \cap Hidden' # {} => \E n \in Visible : SoftDelete(n)]_vars
  BY HidingStep
<1> QED BY <1>1, TreeIsSound, PTL DEF Spec, OnlyDeleteHides

\* All that hangs below an item is in the item's space.
LEMMA SubtreeSpace ==
    ASSUME Sound, NEW n \in Ids
    PROVE  \A m \in Subtree(n) : node[m].space = node[n].space
PROOF
<1> DEFINE D == {m \in Subtree(n) : node[m].space # node[n].space}
<1>1. SUFFICES ASSUME D # {} PROVE FALSE
  OBVIOUS
<1>2. Subtree(n) \subseteq Ids /\ \A m \in Subtree(n) : m # n => node[m].parent \in Subtree(n)
  BY SubtreeFacts
<1>3. PICK m \in D : node[m].parent \notin D
  BY <1>1, <1>2 DEF Sound, Rooted
<1>4. m \in Ids /\ node[m].parent \in Subtree(n) /\ node[m].parent # Null
  BY <1>2, <1>3, NodeTreeAssumption DEF Sound, TypeOK
<1>5. node[m].space = node[node[m].parent].space
  BY <1>4 DEF Sound, SpaceFollowsParent
<1> QED BY <1>3, <1>4, <1>5

LEMMA MoveInPlaceStep ==
    ASSUME Sound, NEW n \in Ids, Move(n, PlaceOf(n)),
           \A m \in Ids \ (Trashed \cup {n}) :
               PlaceOf(m) = PlaceOf(n) => node[m].name # node[n].name
    PROVE  UNCHANGED node
PROOF
<1>1. PICK nm \in UniqueNames(PlaceOf(n), node[n].name, n) : node' = Moved(n, PlaceOf(n), nm)
  BY DEF Move, MoveTo
<1>2. ~ Taken(PlaceOf(n), node[n].name, n)
  BY DEF Taken, Trashed
<1>3. nm = node[n].name
  <2>1. PICK i \in 1..MaxSuffix :
            /\ nm = Candidate(node[n].name, i)
            /\ \A j \in 1..(i - 1) : Taken(PlaceOf(n), Candidate(node[n].name, j), n)
      BY <1>1 DEF UniqueNames
  <2>2. Candidate(node[n].name, 1) = node[n].name
      BY DEF Candidate
  <2>3. ~ (1 \in 1..(i - 1))
      BY <1>2, <2>1, <2>2
  <2>4. i = 1
      BY <2>3, NodeTreeAssumption
  <2> QED BY <2>1, <2>2, <2>4
<1>4. \A m \in Ids : node[m] \in Row
  BY DEF Sound, TypeOK
<1>5. Moved(n, PlaceOf(n), nm)[n] = node[n]
  BY <1>3, <1>4 DEF Moved, PlaceOf, Row
<1>6. \A m \in Subtree(n) : m # n => [node[m] EXCEPT !.space = PlaceOf(n).space] = node[m]
  BY <1>4, SubtreeSpace, SubtreeFacts DEF PlaceOf, Row
<1>7. \A m \in Ids : node'[m] = node[m]
  BY <1>1, <1>5, <1>6 DEF Moved
<1>8. node' = [m \in Ids |-> node'[m]] /\ node = [m \in Ids |-> node[m]]
  BY <1>1 DEF Moved, Sound, TypeOK
<1> QED BY <1>7, <1>8

\* Moving an item to where it is changes nothing, not even its name, wherever it is and
\* whatever hangs below it, unless a live item beside it has the same name (patch_node).
THEOREM MovingInPlaceIsIdle == Spec => MoveInPlaceIsIdle
PROOF
<1>1. Sound /\ [Next]_vars
        => [\A n \in Ids :
              /\ Move(n, PlaceOf(n))
              /\ \A m \in Ids \ (Trashed \cup {n}) :
                    PlaceOf(m) = PlaceOf(n) => node[m].name # node[n].name
              => UNCHANGED node]_vars
  BY MoveInPlaceStep
<1> QED BY <1>1, TreeIsSound, PTL DEF Spec, MoveInPlaceIsIdle

-----------------------------------------------------------------------------
\* Names

\* A step that leaves every row but n alone, and gives n a name that was free in
\* the place n ends up in.
LEMMA OneRowNames ==
    ASSUME Sound, SameTypeNamesDiffer, NEW n,
           Ids \subseteq Ids' /\ Ids' \subseteq Ids \cup {n},
           \A m \in Ids \ {n} : node'[m] = node[m],
           NEW except, except \notin Ids \/ except = n,
           ~ Taken([space |-> node'[n].space, parent |-> node'[n].parent], node'[n].name, except)
    PROVE  SameTypeNamesDiffer'
PROOF
<1> SUFFICES ASSUME NEW m \in Ids', NEW k \in Ids',
                    m # k,
                    PlaceOf(m)' = PlaceOf(k)',
                    node'[m].deleted = Null, node'[k].deleted = Null,
                    node'[m].type = node'[k].type
             PROVE  node'[m].name # node'[k].name
  BY DEF SameTypeNamesDiffer
<1>1. ASSUME NEW j \in Ids \ {n}, PlaceOf(j)' = PlaceOf(n)', node'[j].deleted = Null
      PROVE  node'[j].name # node'[n].name
  BY <1>1 DEF Taken, PlaceOf
<1>2. CASE m # n /\ k # n
  BY <1>2 DEF SameTypeNamesDiffer, PlaceOf
<1>3. CASE m = n
  BY <1>1, <1>3
<1>4. CASE k = n
  BY <1>1, <1>4
<1> QED BY <1>2, <1>3, <1>4

LEMMA PutNames ==
    ASSUME Sound, SameTypeNamesDiffer,
           NEW at, GoodPlace(at), NEW typed, NEW type,
           NEW n \in Unused, NEW nm \in UniqueNames(at, typed, Null),
           Insert([m \in {n} |-> NewRow(type, at, nm)])
    PROVE  SameTypeNamesDiffer'
PROOF
<1>1. n \notin Ids /\ Null \notin Ids
  BY NodeTreeAssumption DEF Unused, Sound, TypeOK
<1>2. /\ Ids' = Ids \cup {n}
      /\ \A m \in Ids \ {n} : node'[m] = node[m]
      /\ node'[n] = NewRow(type, at, nm)
  BY <1>1 DEF Insert, Ids
<1>3. node'[n].name = nm /\ node'[n].space = at.space /\ node'[n].parent = at.parent
  BY <1>2 DEF NewRow
<1>4. at = [space |-> at.space, parent |-> at.parent]
  BY DEF GoodPlace, Place
<1>5. ~ Taken(at, nm, Null)
  BY UniqueIsFree
<1> QED BY <1>1, <1>2, <1>3, <1>4, <1>5, OneRowNames

LEMMA PutFileNames ==
    ASSUME Sound, SameTypeNamesDiffer, NEW at, GoodPlace(at), NEW typed, PutFile(at, typed)
    PROVE  SameTypeNamesDiffer'
PROOF BY PutNames DEF PutFile

\* A directory made under a name nobody asked unique_name about: no live folder
\* has that name, so no two folders share it (a file may).
LEMMA PutFileUnderNames ==
    ASSUME Sound, SameTypeNamesDiffer, NEW at, GoodPlace(at), NEW dir, NEW typed,
           PutFileUnder(at, dir, typed)
    PROVE  SameTypeNamesDiffer'
PROOF
<1> DEFINE found == {m \in Ids : /\ PlaceOf(m) = at /\ node[m].name = dir
                                 /\ node[m].type = "folder" /\ node[m].deleted = Null}
<1>1. CASE \E d \in found : PutFile(Folder(d), typed)
  BY <1>1, FolderPlace, PutFileNames DEF Sound
<1>2. ASSUME found = {}, NEW d \in Unused, NEW n \in Unused \ {d},
             Insert([m \in {d, n} |->
                       IF m = d THEN NewRow("folder", at, dir)
                       ELSE NewRow("file", [space |-> at.space, parent |-> d], typed)])
      PROVE  SameTypeNamesDiffer'
  <2>1. d \notin Ids /\ n \notin Ids /\ d # n /\ d # Null /\ n # Null
      BY <1>2, NodeTreeAssumption DEF Unused
  <2>2. /\ Ids' = Ids \cup {d, n}
        /\ \A m \in Ids : node'[m] = node[m]
        /\ node'[d] = NewRow("folder", at, dir)
        /\ node'[n] = NewRow("file", [space |-> at.space, parent |-> d], typed)
      BY <1>2, <2>1 DEF Insert, Ids
  <2>3. /\ node'[d].name = dir /\ node'[d].space = at.space /\ node'[d].parent = at.parent
        /\ node'[d].type = "folder" /\ node'[n].type = "file" /\ node'[n].parent = d
      BY <2>2 DEF NewRow
  <2>4. at = [space |-> at.space, parent |-> at.parent]
      BY DEF GoodPlace, Place
  <2> SUFFICES ASSUME NEW m \in Ids', NEW k \in Ids',
                      m # k,
                      PlaceOf(m)' = PlaceOf(k)',
                      node'[m].deleted = Null, node'[k].deleted = Null,
                      node'[m].type = node'[k].type
               PROVE  node'[m].name # node'[k].name
      BY DEF SameTypeNamesDiffer
  <2>5. \A j \in Ids : node'[j].parent # d
      BY <2>1, <2>2 DEF Sound, ParentIsFolder
  <2>6. ASSUME NEW j \in Ids, PlaceOf(j)' = PlaceOf(d)', node'[j].deleted = Null,
               node'[j].type = "folder"
        PROVE  node'[j].name # dir
      BY <1>2, <2>2, <2>3, <2>4, <2>6 DEF PlaceOf
  <2>7. CASE m \in Ids /\ k \in Ids
      BY <2>2, <2>7 DEF SameTypeNamesDiffer, PlaceOf
  <2>8. CASE m = n \/ k = n
    <3>1. \A j \in Ids : PlaceOf(j)' # PlaceOf(n)'
        BY <2>2, <2>3, <2>5 DEF PlaceOf
    <3> QED BY <2>2, <2>3, <2>8, <3>1
  <2>9. CASE (m = d /\ k \in Ids) \/ (k = d /\ m \in Ids)
      BY <2>2, <2>3, <2>6, <2>9
  <2> QED BY <2>2, <2>7, <2>8, <2>9
<1> QED BY <1>1, <1>2 DEF PutFileUnder

LEMMA RenameNames ==
    ASSUME Sound, SameTypeNamesDiffer, NEW n, NEW typed, Rename(n, typed)
    PROVE  SameTypeNamesDiffer'
PROOF
<1>1. n \in Ids
  BY DEF Rename, Visible
<1>2. PICK nm \in UniqueNames(PlaceOf(n), typed, n) : node' = [node EXCEPT ![n].name = nm]
  BY DEF Rename
<1>3. \A m \in Ids : node[m] \in Row
  BY DEF Sound, TypeOK
<1>4. /\ Ids' = Ids
      /\ \A m \in Ids \ {n} : node'[m] = node[m]
      /\ node'[n] = [node[n] EXCEPT !.name = nm]
  BY <1>1, <1>2 DEF Ids
<1>5. node'[n].name = nm /\ node'[n].space = node[n].space /\ node'[n].parent = node[n].parent
  BY <1>1, <1>3, <1>4 DEF Row
<1>6. ~ Taken([space |-> node'[n].space, parent |-> node'[n].parent], node'[n].name, n)
  BY <1>2, <1>5, UniqueIsFree DEF PlaceOf
<1> QED BY <1>4, <1>6, OneRowNames

LEMMA RestoreNames ==
    ASSUME Sound, SameTypeNamesDiffer, NEW n, Restore(n)
    PROVE  SameTypeNamesDiffer'
PROOF
<1> DEFINE home == IF node[n].parent \in Trashed
                   THEN [space |-> node[n].space, parent |-> Null]
                   ELSE PlaceOf(n)
<1>1. n \in Ids
  BY DEF Restore, Trashed
<1>2. PICK nm \in UniqueNames(home, node[n].name, n) :
         node' = [node EXCEPT ![n].parent = home.parent, ![n].name = nm, ![n].deleted = Null]
  BY DEF Restore
<1>3. \A m \in Ids : node[m] \in Row
  BY DEF Sound, TypeOK
<1>4. home.space = node[n].space /\ home = [space |-> home.space, parent |-> home.parent]
  BY DEF PlaceOf
<1> HIDE DEF home
<1>5. /\ Ids' = Ids
      /\ \A m \in Ids \ {n} : node'[m] = node[m]
      /\ node'[n] = [node[n] EXCEPT !.parent = home.parent, !.name = nm, !.deleted = Null]
  BY <1>1, <1>2, <1>3 DEF Ids, Row
<1>6. node'[n].name = nm /\ node'[n].space = home.space /\ node'[n].parent = home.parent
  BY <1>1, <1>3, <1>4, <1>5 DEF Row
<1>7. ~ Taken([space |-> node'[n].space, parent |-> node'[n].parent], node'[n].name, n)
  BY <1>2, <1>4, <1>6, UniqueIsFree
<1> QED BY <1>5, <1>7, OneRowNames

\* Only the moved item meets new siblings; what is below it moves as one.
LEMMA MoveToNames ==
    ASSUME Sound, SameTypeNamesDiffer, NEW n \in Ids, NEW at, NEW given \in Name,
           MoveTo(n, at, given)
    PROVE  SameTypeNamesDiffer'
PROOF
<1>1. PICK nm \in UniqueNames(at, given, n) : node' = Moved(n, at, nm)
  BY DEF MoveTo
<1>2. /\ nm \in Name
      /\ at \in Destinations
      /\ node[n].type = "folder" => at.parent \notin Subtree(n)
  BY NamesAreNames DEF MoveTo
<1>3. /\ GoodPlace(at)
      /\ at.parent \notin Subtree(n)
      /\ Ids' = Ids
      /\ \A m \in Ids : node'[m].type = node[m].type
      /\ \A m \in Ids : node'[m].deleted = node[m].deleted
      /\ node'[n].parent = at.parent /\ node'[n].name = nm
      /\ \A m \in Ids \ {n} : node'[m].parent = node[m].parent /\ node'[m].name = node[m].name
      /\ \A m \in Subtree(n) : node'[m].space = at.space
      /\ \A m \in Ids \ Subtree(n) : node'[m] = node[m]
  BY <1>1, <1>2, MoveFacts
<1>4. /\ Subtree(n) \subseteq Ids
      /\ n \in Subtree(n)
      /\ \A m \in Ids : node[m].parent \in Subtree(n) => m \in Subtree(n)
      /\ \A m \in Subtree(n) : m # n => node[m].parent \in Subtree(n)
  BY SubtreeFacts
<1>5. at = [space |-> at.space, parent |-> at.parent]
  BY <1>3 DEF GoodPlace, Place
<1>6. ~ Taken(at, nm, n)
  BY <1>1, UniqueIsFree
<1> SUFFICES ASSUME NEW m \in Ids', NEW k \in Ids',
                    m # k,
                    PlaceOf(m)' = PlaceOf(k)',
                    node'[m].deleted = Null, node'[k].deleted = Null,
                    node'[m].type = node'[k].type
             PROVE  node'[m].name # node'[k].name
  BY DEF SameTypeNamesDiffer
<1>7. node'[m].parent = node'[k].parent /\ node'[m].space = node'[k].space
  BY DEF PlaceOf
<1>8. ASSUME NEW j \in Ids \ {n}, node'[j].parent = at.parent, node'[j].space = at.space,
             node'[j].deleted = Null
      PROVE  node'[j].name # nm
  <2>1. j \notin Subtree(n)
      BY <1>3, <1>4, <1>8
  <2>2. PlaceOf(j) = at
      BY <1>3, <1>5, <1>8, <2>1 DEF PlaceOf
  <2> QED BY <1>3, <1>6, <1>8, <2>2 DEF Taken
<1>9. CASE m # n /\ k # n
  <2>1. node[m].parent = node[k].parent
      BY <1>3, <1>7, <1>9
  <2>2. node[m].space = node[k].space
    <3>1. CASE node[m].parent \notin Subtree(n)
      <4>1. m \notin Subtree(n) /\ k \notin Subtree(n)
          BY <1>4, <1>9, <2>1, <3>1
      <4> QED BY <1>3, <1>7, <4>1
    <3>2. CASE node[m].parent \in Subtree(n)
      <4>1. node[m].parent # Null /\ m \in Ids /\ k \in Ids
          BY <1>3, <1>4, <3>2, NodeTreeAssumption DEF Sound, TypeOK
      <4> QED BY <2>1, <4>1 DEF Sound, SpaceFollowsParent
    <3> QED BY <3>1, <3>2
  <2>3. PlaceOf(m) = PlaceOf(k)
      BY <2>1, <2>2 DEF PlaceOf
  <2> QED BY <1>3, <1>9, <2>3 DEF SameTypeNamesDiffer
<1>10. CASE m = n
  BY <1>3, <1>4, <1>7, <1>8, <1>10
<1>11. CASE k = n
  BY <1>3, <1>4, <1>7, <1>8, <1>11
<1> QED BY <1>9, <1>10, <1>11

\* Fewer live rows, all others as they were.
LEMMA FewerNames ==
    ASSUME SameTypeNamesDiffer, Ids' \subseteq Ids,
           \A m \in Ids' : node'[m].deleted = Null => node'[m] = node[m]
    PROVE  SameTypeNamesDiffer'
PROOF
<1> SUFFICES ASSUME NEW m \in Ids', NEW k \in Ids',
                    m # k,
                    PlaceOf(m)' = PlaceOf(k)',
                    node'[m].deleted = Null, node'[k].deleted = Null,
                    node'[m].type = node'[k].type
             PROVE  node'[m].name # node'[k].name
  BY DEF SameTypeNamesDiffer
<1> QED BY DEF SameTypeNamesDiffer, PlaceOf

LEMMA SoftDeleteNames ==
    ASSUME Sound, SameTypeNamesDiffer, NEW n, SoftDelete(n)
    PROVE  SameTypeNamesDiffer'
PROOF
<1>1. n \in Ids /\ node' = [node EXCEPT ![n].deleted = now]
  BY DEF SoftDelete, Visible
<1>2. now # Null /\ node[n] \in Row
  BY <1>1, NodeTreeAssumption DEF Sound, TypeOK
<1>3. Ids' = Ids /\ node'[n].deleted # Null /\ \A m \in Ids \ {n} : node'[m] = node[m]
  BY <1>1, <1>2 DEF Ids, Row
<1> QED BY <1>3, FewerNames

LEMMA DeleteNames ==
    ASSUME SameTypeNamesDiffer, NEW gone, DeleteRows(gone)
    PROVE  SameTypeNamesDiffer'
PROOF
<1>1. Ids' = Ids \ gone /\ \A m \in Ids' : node'[m] = node[m]
  BY DEF DeleteRows, Ids
<1> QED BY <1>1, FewerNames

LEMMA NextNames ==
    ASSUME Sound, SameTypeNamesDiffer, [Next]_vars
    PROVE  SameTypeNamesDiffer'
PROOF
<1>1. CASE Adding
  <2>1. CASE \E at \in Destinations, t \in Typed : CreateFolder(at, t)
      BY <2>1, PutNames, DestinationPlace DEF CreateFolder, Sound
  <2>2. CASE \E at \in Destinations, t \in Typed : Upload(at, t)
      BY <2>2, PutFileNames, DestinationPlace DEF Upload, Sound
  <2>3. CASE \E at \in Destinations, d, t \in Typed : UploadTree(at, d, t)
    <3>1. PICK at \in Destinations, d \in Typed, t \in Typed : PutFileUnder(at, d, t)
        BY <2>3 DEF UploadTree
    <3>2. GoodPlace(at)
        BY DestinationPlace DEF Sound
    <3> QED BY <3>1, <3>2, PutFileUnderNames
  <2>4. CASE \E p \in Ids, t \in Typed : UploadByToken(p, t)
      BY <2>4, PutFileNames, FolderPlace DEF UploadByToken, TokenFolder, Sound
  <2>5. CASE \E p \in Ids, d, t \in Typed : UploadTreeByToken(p, d, t)
    <3>1. PICK p \in Ids, d \in Typed, t \in Typed :
             node[p].type = "folder" /\ PutFileUnder(Folder(p), d, t)
        BY <2>5 DEF UploadTreeByToken, TokenFolder
    <3>2. GoodPlace(Folder(p))
        BY <3>1, FolderPlace DEF Sound
    <3> QED BY <3>1, <3>2, PutFileUnderNames
  <2>6. CASE \E n \in Visible, at \in Destinations : Copy(n, at)
      BY <2>6, CopySound
  <2> QED BY <1>1, <2>1, <2>2, <2>3, <2>4, <2>5, <2>6 DEF Adding
<1>2. CASE Changing
  <2>1. Visible \subseteq Ids /\ \A n \in Ids : node[n].name \in Name
      BY DEF Visible, Sound, TypeOK, Row
  <2>2. CASE \E n \in Visible, t \in Typed : Rename(n, t)
      BY <2>2, RenameNames
  <2>3. CASE \E n \in Visible, at \in Destinations : Move(n, at)
      BY <2>1, <2>3, MoveToNames DEF Move
  <2>4. CASE \E n \in Visible, t \in Typed, at \in Destinations : RenameAndMove(n, t, at)
    <3>1. PICK n \in Visible, t \in Typed, at \in Destinations : RenameAndMove(n, t, at)
        BY <2>4
    <3>2. PICK nm \in UniqueNames(PlaceOf(n), t, n) : MoveTo(n, at, nm)
        BY <3>1 DEF RenameAndMove
    <3>3. nm \in Name
        BY NamesAreNames, NodeTreeAssumption
    <3> QED BY <2>1, <3>2, <3>3, MoveToNames
  <2> QED BY <1>2, <2>2, <2>3, <2>4 DEF Changing
<1>3. CASE Trashing
  BY <1>3, SoftDeleteNames, RestoreNames, DeleteNames
     DEF Trashing, Purge, Sweep, DeleteTeam
<1>4. CASE Tick \/ UNCHANGED vars
  BY <1>4 DEF Tick, vars, SameTypeNamesDiffer, PlaceOf, Ids
<1> QED BY <1>1, <1>2, <1>3, <1>4 DEF Next

\* Two live files of one folder, or two live folders, never share a name, though
\* no constraint of the database says so.
THEOREM NamesStayDifferent == Spec => []SameTypeNamesDiffer
PROOF
<1>1. Init => SameTypeNamesDiffer
  BY DEF Init, SameTypeNamesDiffer, Ids
<1>2. Sound /\ SameTypeNamesDiffer /\ [Next]_vars => SameTypeNamesDiffer'
  BY NextNames
<1> QED BY <1>1, <1>2, TreeIsSound, PTL DEF Spec

-----------------------------------------------------------------------------
\* The browser that works on the tree (TreeUndo)

IdsOf(s) == {s[i].id : i \in 1..Len(s)}
Distinct(s) == \A i, j \in 1..Len(s) : s[i].id = s[j].id => i = j

\* Items that say what to give back: name and place.
Full(s) == \A i \in 1..Len(s) : s[i].name \in Name /\ s[i].place \in Place

\* The shapes of a loop and of an offer, kind by kind.
ClientShape ==
    /\ UTypeOK
    /\ job # Null =>
          /\ told = "working"
          /\ job.todo # <<>>
          /\ job.kind \notin Undos => job.todo \in Seq(NodeId)
          /\ job.kind \in Undos => job.todo \in Seq(Items) /\ offer = Null
          /\ job.kind = "move" => Full(job.done)
          /\ job.kind \in {"undo move", "undo rename"} => Full(job.todo)
          /\ job.kind # "rename"
    /\ offer # Null =>
          /\ offer.items # <<>>
          /\ offer.kind \in {"move", "rename"} => Full(offer.items)
    /\ told \in Undos => offer = Null

LEMMA UndoNames ==
    /\ Undos = {"undo move", "undo rename", "undo trash"}
    /\ UndoOf["move"] = "undo move"
    /\ UndoOf["rename"] = "undo rename"
    /\ UndoOf["trash"] = "undo trash"
PROOF
<1>1. /\ UndoOf["move"] = "undo move"
      /\ UndoOf["rename"] = "undo rename"
      /\ UndoOf["trash"] = "undo trash"
  BY DEF UndoOf
<1> QED BY <1>1 DEF Undos, Kinds

LEMMA WasItem ==
    ASSUME Sound, NEW n \in Ids
    PROVE  /\ Was(n) \in Items
           /\ Was(n).id = n /\ Was(n).name = node[n].name /\ Was(n).place = PlaceOf(n)
           /\ Was(n).name \in Name /\ Was(n).place \in Place
PROOF
<1>1. n \in NodeId /\ node[n] \in Row
  BY DEF Sound, TypeOK
<1>2. node[n].name \in Name /\ PlaceOf(n) \in Place
  BY <1>1 DEF Row, Place, PlaceOf
<1> QED BY <1>1, <1>2 DEF Was, Items

\* What is left to do after the first is done, and what is done then.
LEMMA TailFacts ==
    ASSUME NEW S, NEW s \in Seq(S), s # <<>>
    PROVE  /\ Head(s) \in S /\ Head(s) = s[1] /\ 1 \in 1..Len(s)
           /\ Tail(s) \in Seq(S)
           /\ Len(s) # 1 => Tail(s) # <<>>
           /\ \A i \in 1..Len(Tail(s)) : i + 1 \in 1..Len(s) /\ Tail(s)[i] = s[i + 1]
PROOF
<1>1. Len(s) \in Nat /\ Len(s) > 0 /\ Len(Tail(s)) = Len(s) - 1
  OBVIOUS
<1>2. ASSUME Len(s) # 1 PROVE Tail(s) # <<>>
  <2>1. Len(Tail(s)) > 0
      BY <1>1, <1>2
  <2>2. \A t : Len(t) > 0 => t # <<>>
      OBVIOUS
  <2> QED BY <2>1, <2>2
<1>3. /\ Head(s) \in S /\ Head(s) = s[1]
      /\ Tail(s) \in Seq(S)
      /\ \A i \in 1..Len(Tail(s)) : i + 1 \in 1..Len(s) /\ Tail(s)[i] = s[i + 1]
  OBVIOUS
<1> QED BY <1>1, <1>2, <1>3

LEMMA AppendFacts ==
    ASSUME NEW S, NEW s \in Seq(S), NEW e \in S
    PROVE  /\ Append(s, e) \in Seq(S)
           /\ Append(s, e) # <<>>
           /\ Len(Append(s, e)) = Len(s) + 1
           /\ \A i \in 1..Len(s) : Append(s, e)[i] = s[i]
           /\ Append(s, e)[Len(s) + 1] = e
PROOF OBVIOUS

LEMMA FullTail ==
    ASSUME NEW s \in Seq(Items), s # <<>>, Full(s)
    PROVE  Full(Tail(s))
PROOF BY TailFacts DEF Full

LEMMA FullAppend ==
    ASSUME NEW s \in Seq(Items), NEW e \in Items, Full(s), e.name \in Name, e.place \in Place
    PROVE  Full(Append(s, e))
PROOF
<1>1. \A i \in 1..(Len(s) + 1) : i \in 1..Len(s) \/ i = Len(s) + 1
  OBVIOUS
<1> QED BY <1>1, AppendFacts DEF Full

-----------------------------------------------------------------------------
\* Every gesture is made of requests of the API

LEMMA StartShape ==
    ASSUME ClientShape, NEW kind \in {"move", "trash", "delete"},
           NEW todo \in Seq(NodeId), todo # <<>>, NEW at \in Place \cup {Null},
           Start(kind, todo, at)
    PROVE  ClientShape'
PROOF
<1>1. /\ job' = [kind |-> kind, todo |-> todo, at |-> at, done |-> <<>>]
      /\ told' = "working" /\ offer' = offer
  BY DEF Start
<1>2. todo \in Seq(NodeId \cup Items) /\ <<>> \in Seq(Items)
  OBVIOUS
<1>3. /\ job' \in Jobs
      /\ job'.kind = kind /\ job'.todo = todo /\ job'.done = <<>>
  BY <1>1, <1>2 DEF Jobs, Kinds
<1>4. Full(<<>>)
  BY DEF Full
<1> QED BY <1>1, <1>3, <1>4, UndoNames DEF ClientShape, UTypeOK

LEMMA PickIsSeq ==
    ASSUME Sound, NEW p \in Picks
    PROVE  /\ p \in Seq(NodeId) /\ p # <<>>
           /\ \A i \in 1..Len(p) : p[i] \in Visible
           /\ \A i, j \in 1..Len(p) : p[i] = p[j] => i = j
PROOF
<1>1. PICK k \in 1..MaxItems : p \in [1..k -> Visible]
  BY DEF Picks
<1>2. MaxItems \in Nat /\ Visible \subseteq NodeId
  BY TreeUndoAssumption DEF Visible, Sound, TypeOK
<1>3. k \in Nat /\ k > 0
  BY <1>2
<1>4. p \in Seq(NodeId) /\ Len(p) = k
  BY <1>1, <1>2, <1>3
<1> QED BY <1>1, <1>3, <1>4 DEF Picks

LEMMA AdvanceShape ==
    ASSUME ClientShape, job # Null, job.kind \in {"move", "trash"},
           NEW item \in Items,
           job.kind = "move" => item.name \in Name /\ item.place \in Place,
           Advance(item)
    PROVE  ClientShape'
PROOF
<1> DEFINE done == Append(job.done, item)
<1>0. job \in Jobs
  BY DEF ClientShape, UTypeOK
<1>1. /\ job.done \in Seq(Items) /\ job.todo \in Seq(NodeId)
      /\ job.todo # <<>> /\ told \notin Undos
      /\ told \in {"quiet", "working", "done", "failed"} \cup Undos
      /\ job.kind \notin Undos
  BY UndoNames DEF ClientShape, UTypeOK, Jobs
<1>2. done \in Seq(Items) /\ done # <<>>
  BY <1>1, AppendFacts
<1>3. job.kind = "move" => Full(done)
  BY <1>1, FullAppend DEF ClientShape
<1> HIDE DEF done
<1>4. CASE Len(job.todo) = 1
  <2>1. /\ job' = Null /\ told' = "done"
        /\ offer' = [kind |-> job.kind, items |-> done]
      BY <1>4 DEF Advance, done
  <2>2. offer' \in Offers /\ offer'.kind = job.kind /\ offer'.items = done
      BY <1>2, <2>1 DEF Offers, Kinds
  <2> QED BY <1>2, <1>3, <2>1, <2>2, UndoNames DEF ClientShape, UTypeOK
<1>5. CASE Len(job.todo) # 1
  <2>1. /\ job' = [job EXCEPT !.todo = Tail(job.todo), !.done = done]
        /\ told' = told /\ offer' = offer
      BY <1>5 DEF Advance, done
  <2>2. Tail(job.todo) \in Seq(NodeId) /\ Tail(job.todo) # <<>>
      BY <1>1, <1>5, TailFacts
  <2>3. Tail(job.todo) \in Seq(NodeId \cup Items)
      BY <2>2
  <2>4. /\ job' \in Jobs /\ job'.kind = job.kind
        /\ job'.todo = Tail(job.todo) /\ job'.done = done
      BY <1>0, <1>2, <2>1, <2>3 DEF Jobs
  <2> QED BY <1>0, <1>1, <1>3, <2>1, <2>2, <2>4, UndoNames DEF ClientShape, UTypeOK
<1> QED BY <1>4, <1>5

LEMMA AbortShape ==
    ASSUME ClientShape, Abort
    PROVE  ClientShape'
PROOF BY UndoNames DEF ClientShape, UTypeOK, Abort

\* A request of the API, or no change of the table: what a gesture or its undo does.
LEMMA UndoRequest ==
    ASSUME Sound, ClientShape, UndoStep
    PROVE  \/ UNCHANGED vars
           \/ \E n \in Visible, t \in Name : Rename(n, t)
           \/ \E n \in Visible, t \in Name, at \in Destinations : RenameAndMove(n, t, at)
           \/ \E n \in Ids : Restore(n)
PROOF
<1> DEFINE item == Head(job.todo)
           Can == \/ job.kind = "undo move" /\ CanMoveBack(item)
                  \/ job.kind = "undo rename" /\ CanRename(item.id, item.name)
                  \/ job.kind = "undo trash" /\ CanRestore(item.id)
           Did == \/ job.kind = "undo move"
                     /\ RenameAndMove(item.id, item.name, Home(item.place))
                  \/ job.kind = "undo rename" /\ Rename(item.id, item.name)
                  \/ job.kind = "undo trash" /\ Restore(item.id)
<1>1. /\ job # Null /\ job.kind \in Undos
      /\ (Can /\ Did) \/ Abort
  BY DEF UndoStep
<1>2. job.kind \in {"undo move", "undo rename"} => item.name \in Name
  <2>1. job.todo # <<>> /\ job.todo \in Seq(Items)
      BY <1>1 DEF ClientShape
  <2>2. item = job.todo[1] /\ 1 \in 1..Len(job.todo)
      BY <2>1
  <2> QED BY <1>1, <2>2 DEF ClientShape, Full
<1> HIDE DEF item
<1>3. CASE Abort
  BY <1>3 DEF Abort, vars
<1>4. CASE Can /\ Did
  <2>1. CASE job.kind = "undo move"
      BY <1>2, <1>4, <2>1 DEF CanMoveBack
  <2>2. CASE job.kind = "undo rename"
      BY <1>2, <1>4, <2>2 DEF CanRename
  <2>3. CASE job.kind = "undo trash"
      BY <1>4, <2>3 DEF CanRestore, Trashed
  <2> QED BY <1>1, <2>1, <2>2, <2>3, UndoNames
<1> QED BY <1>1, <1>3, <1>4

LEMMA UndoShape ==
    ASSUME ClientShape, UndoStep
    PROVE  ClientShape'
PROOF
<1>0. job \in Jobs
  BY DEF UndoStep, ClientShape, UTypeOK
<1>1. /\ job # Null /\ job.kind \in Undos /\ offer = Null
      /\ job.todo \in Seq(Items) /\ job.todo # <<>> /\ job.done \in Seq(Items)
      /\ told \notin Undos /\ told \in {"quiet", "working", "done", "failed"} \cup Undos
  BY UndoNames DEF UndoStep, ClientShape, UTypeOK, Jobs
<1>2. CASE Abort
  BY <1>2, AbortShape
<1>3. CASE /\ job' = IF Len(job.todo) = 1 THEN Null ELSE [job EXCEPT !.todo = Tail(@)]
           /\ told' = IF Len(job.todo) = 1 THEN job.kind ELSE told
           /\ UNCHANGED <<offer, before>>
  <2>1. CASE Len(job.todo) = 1
      BY <1>1, <1>3, <2>1 DEF ClientShape, UTypeOK
  <2>2. CASE Len(job.todo) # 1
    <3>1. Tail(job.todo) \in Seq(Items) /\ Tail(job.todo) # <<>>
        BY <1>1, <2>2, TailFacts
    <3>2. Tail(job.todo) \in Seq(NodeId \cup Items)
        BY <3>1
    <3>3. job' = [job EXCEPT !.todo = Tail(job.todo)] /\ told' = told /\ offer' = Null
        BY <1>1, <1>3, <2>2
    <3>4. /\ job' \in Jobs /\ job'.kind = job.kind /\ job'.todo = Tail(job.todo)
        BY <1>0, <3>2, <3>3 DEF Jobs
    <3>5. job.kind \in {"undo move", "undo rename"} => Full(Tail(job.todo))
        BY <1>1, FullTail DEF ClientShape
    <3> QED BY <1>0, <1>1, <3>1, <3>3, <3>4, <3>5, UndoNames DEF ClientShape, UTypeOK
  <2> QED BY <2>1, <2>2
<1> QED BY <1>2, <1>3 DEF UndoStep

\* Whatever the client does is a request of the API, or leaves the table alone.  An
\* undo carries the names it kept, which need not be among those of Typed.
LEMMA ClientRequest ==
    ASSUME Sound, ClientShape, [UNext]_allVars
    PROVE  \/ [Next]_vars
           \/ \E n \in Visible, t \in Name : Rename(n, t)
           \/ \E n \in Visible, t \in Name, at \in Destinations : RenameAndMove(n, t, at)
PROOF
<1>1. CASE DropNodes \/ TrashMany \/ DeleteOne \/ RunUndo \/ Dismiss \/ UNCHANGED allVars
  BY <1>1 DEF DropNodes, TrashMany, DeleteOne, Start, RunUndo, Dismiss, allVars, vars
<1>2. CASE RenameCommit
  BY <1>2 DEF RenameCommit, Next, Changing
<1>3. CASE MoveStep
  BY <1>3 DEF MoveStep, CanMove, Abort, Next, Changing, vars
<1>4. CASE TrashStep \/ DeleteStep
  BY <1>4 DEF TrashStep, DeleteStep, Abort, Next, Trashing, vars
<1>5. CASE UndoStep
  BY <1>5, UndoRequest DEF Next, Trashing
<1>6. CASE Others
  BY <1>6 DEF Others
<1> QED BY <1>1, <1>2, <1>3, <1>4, <1>5, <1>6 DEF UNext

LEMMA RenameAndMoveSound ==
    ASSUME Sound, NEW n \in Visible, NEW t \in Name, NEW at, RenameAndMove(n, t, at)
    PROVE  Sound'
PROOF
<1>1. PICK nm \in UniqueNames(PlaceOf(n), t, n) : MoveTo(n, at, nm)
  BY DEF RenameAndMove
<1>2. nm \in Name /\ n \in Ids
  BY NamesAreNames DEF Visible
<1> QED BY <1>1, <1>2, MoveToSound DEF RenameAndMove

LEMMA ClientSound ==
    ASSUME Sound, ClientShape, [UNext]_allVars
    PROVE  Sound'
PROOF BY ClientRequest, NextSound, RenameSound, RenameAndMoveSound

LEMMA ClientKeepsShape ==
    ASSUME Sound, ClientShape, [UNext]_allVars
    PROVE  ClientShape'
PROOF
<1>1. Visible \subseteq NodeId /\ Visible \subseteq Ids
  BY DEF Visible, Sound, TypeOK
<1>2. ASSUME NEW n \in NodeId PROVE <<n>> \in Seq(NodeId) /\ <<n>> # <<>>
  OBVIOUS
<1>3. ASSUME NEW n \in NodeId
      PROVE  [id |-> n, name |-> Null, place |-> Null] \in Items
  BY DEF Items
<1>4. CASE DropNodes
  <2>1. PICK p \in Picks, at \in Destinations : Start("move", p, at)
      BY <1>4 DEF DropNodes
  <2>2. at \in Place
      BY DestinationPlace DEF Sound, GoodPlace
  <2> QED BY <2>1, <2>2, PickIsSeq, StartShape
<1>5. CASE TrashMany
  BY <1>5, PickIsSeq, StartShape DEF TrashMany
<1>6. CASE DeleteOne
  BY <1>1, <1>2, <1>6, StartShape DEF DeleteOne
<1>7. CASE RenameCommit
  <2>1. PICK n \in Visible, t \in Typed :
           /\ job = Null /\ job' = job /\ told' = "done"
           /\ offer' = IF node'[n].name # node[n].name
                       THEN [kind |-> "rename", items |-> <<Was(n)>>] ELSE offer
      BY <1>7 DEF RenameCommit
  <2>2. /\ Was(n) \in Items /\ Was(n).name \in Name /\ Was(n).place \in Place
      BY <1>1, WasItem
  <2>3. <<Was(n)>> \in Seq(Items) /\ <<Was(n)>> # <<>> /\ Full(<<Was(n)>>)
      BY <2>2 DEF Full
  <2>4. [kind |-> "rename", items |-> <<Was(n)>>] \in Offers
      BY <2>3 DEF Offers, Kinds
  <2>5. offer' = offer \/ offer' = [kind |-> "rename", items |-> <<Was(n)>>]
      BY <2>1
  <2>6. "done" \notin Undos
      BY UndoNames
  <2> QED BY <2>1, <2>3, <2>4, <2>5, <2>6 DEF ClientShape, UTypeOK
<1>8. CASE MoveStep
  <2> DEFINE n == Head(job.todo)
  <2>1. job # Null /\ job.kind = "move"
      BY <1>8 DEF MoveStep
  <2>2. CASE CanMove(n, job.at) /\ Advance(Was(n))
    <3>1. n \in Ids
        BY <1>1, <2>2 DEF CanMove
    <3>2. Was(n) \in Items /\ Was(n).name \in Name /\ Was(n).place \in Place
        BY <3>1, WasItem
    <3> QED BY <2>1, <2>2, <3>2, AdvanceShape
  <2>3. CASE Abort
      BY <2>3, AbortShape
  <2> QED BY <1>8, <2>2, <2>3 DEF MoveStep
<1>9. CASE TrashStep
  <2> DEFINE n == Head(job.todo)
             item == [id |-> n, name |-> Null, place |-> Null]
  <2>1. job # Null /\ job.kind = "trash"
      BY <1>9 DEF TrashStep
  <2>2. CASE n \in Visible /\ Advance(item)
    <3>1. item \in Items
        BY <1>1, <1>3, <2>2
    <3> HIDE DEF item
    <3> QED BY <2>1, <2>2, <3>1, AdvanceShape
  <2>3. CASE Abort
      BY <2>3, AbortShape
  <2> QED BY <1>9, <2>2, <2>3 DEF TrashStep
<1>10. CASE DeleteStep
  <2> DEFINE n == Head(job.todo)
             item == [id |-> n, name |-> Null, place |-> Null]
  <2>1. /\ job # Null /\ job.kind = "delete" /\ job' = Null
        /\ offer' = [kind |-> "trash", items |-> <<item>>]
        /\ told' \in {"done", "failed"}
      BY <1>10 DEF DeleteStep
  <2>2. n \in NodeId
      BY <2>1, TailFacts, UndoNames DEF ClientShape
  <2>3. <<item>> \in Seq(Items) /\ <<item>> # <<>>
      BY <1>3, <2>2
  <2> HIDE DEF item
  <2>4. offer' \in Offers /\ offer'.kind = "trash" /\ offer'.items = <<item>>
      BY <2>1, <2>3 DEF Offers, Kinds
  <2> QED BY <2>1, <2>3, <2>4, UndoNames DEF ClientShape, UTypeOK
<1>11. CASE RunUndo
  <2>1. /\ job = Null /\ offer # Null
        /\ job' = [kind |-> UndoOf[offer.kind], todo |-> offer.items, at |-> Null, done |-> <<>>]
        /\ offer' = Null /\ told' = "working"
      BY <1>11 DEF RunUndo
  <2>2. offer \in Offers
      BY <2>1 DEF ClientShape, UTypeOK
  <2>3. /\ offer.kind \in Kinds /\ offer.items \in Seq(Items)
        /\ UndoOf[offer.kind] \in Undos
      BY <2>2 DEF Offers, Undos
  <2>4. /\ UndoOf[offer.kind] = "undo move" => offer.kind = "move"
        /\ UndoOf[offer.kind] = "undo rename" => offer.kind = "rename"
      BY <2>3, UndoNames DEF Kinds
  <2>5. offer.items \in Seq(NodeId \cup Items) /\ <<>> \in Seq(Items)
      BY <2>3
  <2>6. /\ job' \in Jobs /\ job'.kind = UndoOf[offer.kind] /\ job'.todo = offer.items
      BY <2>1, <2>3, <2>5 DEF Jobs
  <2> QED BY <2>1, <2>3, <2>4, <2>6, UndoNames DEF ClientShape, UTypeOK
<1>12. CASE Dismiss
  BY <1>12, UndoNames DEF Dismiss, Forget, ClientShape, UTypeOK
<1>13. CASE UndoStep
  BY <1>13, UndoShape
<1>14. CASE Others
  BY <1>14, UndoNames DEF Others, ClientShape, UTypeOK
<1>15. CASE UNCHANGED allVars
  BY <1>15 DEF allVars, ClientShape, UTypeOK
<1> QED BY <1>4, <1>5, <1>6, <1>7, <1>8, <1>9, <1>10, <1>11, <1>12, <1>13, <1>14, <1>15
        DEF UNext

\* The tree stays a tree and the client's loops and offers keep their shape, though an
\* undo asks for names and places that it kept while others changed the table.
THEOREM BrowserIsSound == USpec => [](Sound /\ UTypeOK)
PROOF
<1>1. UInit => Sound /\ ClientShape
  <2>1. UInit => Sound
      BY InitSound DEF UInit
  <2> QED BY <2>1, UndoNames DEF UInit, ClientShape, UTypeOK
<1>2. Sound /\ ClientShape /\ [UNext]_allVars => (Sound /\ ClientShape)'
  BY ClientSound, ClientKeepsShape
<1>3. ClientShape => UTypeOK
  BY DEF ClientShape
<1> QED BY <1>1, <1>2, <1>3, PTL DEF USpec

-----------------------------------------------------------------------------
\* A gesture and its undo, while nobody else changes the table

\* The table the gesture began with is a tree, and shares with the present one the rows,
\* their types and their spaces.
BeforeSound ==
    /\ before \in [Ids -> Row]
    /\ \A m \in Ids : before[m].parent # Null =>
          /\ before[m].parent \in Ids
          /\ before[before[m].parent].type = "folder"
          /\ before[before[m].parent].space = before[m].space
    /\ \A S \in (SUBSET Ids) \ {{}} : \E m \in S : before[m].parent \notin S
    /\ \A m \in Ids : node[m].space = before[m].space /\ node[m].type = before[m].type

\* s lists the items of table t that hang elsewhere than in table b: all in one folder,
\* each with the place it had, which can still be seen.
MovedItems(t, b, seen, s) ==
    /\ Distinct(s)
    /\ \A i \in 1..Len(s) :
          /\ s[i].id \in seen
          /\ s[i].place = [space |-> b[s[i].id].space, parent |-> b[s[i].id].parent]
          /\ s[i].place.parent \in {Null} \cup seen
    /\ \A m \in DOMAIN t \ IdsOf(s) : t[m].parent = b[m].parent
    /\ \A i, j \in 1..Len(s) : t[s[i].id].parent = t[s[j].id].parent

\* s is the one item whose name differs between t and b.
RenamedItem(t, b, seen, s) ==
    /\ Len(s) = 1
    /\ s[1].id \in seen
    /\ s[1].name = b[s[1].id].name
    /\ \A m \in DOMAIN t \ {s[1].id} : t[m] = b[m]
    /\ t[s[1].id] = [b[s[1].id] EXCEPT !.name = t[s[1].id].name]

TrashedItems(trash, s) == Distinct(s) /\ \A i \in 1..Len(s) : s[i].id \in trash

\* The items not yet moved are none of those moved, and are in the space they go to.
Moving ==
    /\ MovedItems(node, before, Visible, job.done)
    /\ \A i \in 1..Len(job.done) : node[job.done[i].id].parent = job.at.parent
    /\ \A i, j \in 1..Len(job.todo) : job.todo[i] = job.todo[j] => i = j
    /\ \A i \in 1..Len(job.todo) :
          /\ job.todo[i] \in Ids \ IdsOf(job.done)
          /\ before[job.todo[i]].space = job.at.space

Alone ==
    before # Null =>
        /\ BeforeSound
        /\ job # Null =>
              /\ offer = Null
              /\ job.kind = "move" => Moving
              /\ job.kind = "undo move" => MovedItems(node, before, Visible, job.todo)
              /\ job.kind = "undo rename" => RenamedItem(node, before, Visible, job.todo)
              /\ job.kind = "trash" => TrashedItems(Trashed, job.done)
              /\ job.kind = "undo trash" => TrashedItems(Trashed, job.todo)
              /\ job.kind = "delete" => Head(job.todo) \in Visible
        /\ offer # Null =>
              /\ offer.kind = "move" => MovedItems(node, before, Visible, offer.items)
              /\ offer.kind = "rename" => RenamedItem(node, before, Visible, offer.items)
              /\ offer.kind = "trash" => TrashedItems(Trashed, offer.items)
        /\ told = "undo move" => \A m \in Ids : node[m].parent = before[m].parent
        /\ told = "undo rename" => (NamesDifferIn(before) => node = before)

LEMMA DistinctTail ==
    ASSUME NEW S, NEW s \in Seq(S), s # <<>>, Distinct(s)
    PROVE  /\ Distinct(Tail(s))
           /\ \A i \in 1..Len(Tail(s)) : Tail(s)[i].id # Head(s).id
           /\ IdsOf(s) = IdsOf(Tail(s)) \cup {Head(s).id}
PROOF
<1>1. /\ Head(s) = s[1] /\ 1 \in 1..Len(s) /\ Len(s) \in Nat
      /\ Len(Tail(s)) = Len(s) - 1
      /\ \A i \in 1..Len(Tail(s)) : i + 1 \in 1..Len(s) /\ Tail(s)[i] = s[i + 1]
  BY TailFacts
<1> DEFINE t == Tail(s)
<1>2. t = Tail(s)
  OBVIOUS
<1> HIDE DEF t
<1>3. \A i \in 1..Len(t) : i \in Int /\ i + 1 # 1
  BY <1>1, <1>2
<1>4. \A i \in 1..Len(t) : t[i].id # s[1].id
  BY <1>1, <1>2, <1>3 DEF Distinct
<1>5. \A i, j \in 1..Len(t) : t[i].id = t[j].id => i = j
  <2> SUFFICES ASSUME NEW i \in 1..Len(t), NEW j \in 1..Len(t), t[i].id = t[j].id
               PROVE  i = j
      OBVIOUS
  <2>1. i + 1 = j + 1
      BY <1>1, <1>2 DEF Distinct
  <2> QED BY <1>3, <2>1
<1>6. \A k \in 1..Len(s) : k = 1 \/ (k - 1 \in 1..Len(t) /\ t[k - 1] = s[k])
  <2> SUFFICES ASSUME NEW k \in 1..Len(s), k # 1
               PROVE  k - 1 \in 1..Len(t) /\ t[k - 1] = s[k]
      OBVIOUS
  <2>1. k - 1 \in 1..Len(t) /\ (k - 1) + 1 = k
      BY <1>1, <1>2
  <2> QED BY <1>1, <1>2, <2>1
<1>7. IdsOf(s) \subseteq IdsOf(t) \cup {s[1].id}
  BY <1>6 DEF IdsOf
<1>8. IdsOf(t) \cup {s[1].id} \subseteq IdsOf(s)
  BY <1>1, <1>2 DEF IdsOf
<1> QED BY <1>1, <1>2, <1>4, <1>5, <1>7, <1>8 DEF Distinct

LEMMA DistinctAppend ==
    ASSUME NEW s \in Seq(Items), NEW e \in Items, Distinct(s), e.id \notin IdsOf(s)
    PROVE  /\ Distinct(Append(s, e))
           /\ IdsOf(Append(s, e)) = IdsOf(s) \cup {e.id}
PROOF
<1> DEFINE t == Append(s, e)
<1>1. /\ Len(t) = Len(s) + 1 /\ Len(s) \in Nat
      /\ \A i \in 1..Len(s) : t[i] = s[i]
      /\ t[Len(s) + 1] = e
  BY AppendFacts
<1> HIDE DEF t
<1>2. \A i \in 1..Len(t) : i \in 1..Len(s) \/ i = Len(s) + 1
  BY <1>1
<1>3. \A i \in 1..Len(s) : s[i].id # e.id /\ i \in 1..Len(t)
  BY <1>1 DEF IdsOf
<1>4. \A i, j \in 1..Len(t) : t[i].id = t[j].id => i = j
  BY <1>1, <1>2, <1>3 DEF Distinct
<1>5. Len(s) + 1 \in 1..Len(t)
  BY <1>1
<1>6. IdsOf(t) \subseteq IdsOf(s) \cup {e.id}
  BY <1>1, <1>2 DEF IdsOf
<1>7. IdsOf(s) \cup {e.id} \subseteq IdsOf(t)
  BY <1>1, <1>3, <1>5 DEF IdsOf
<1> QED BY <1>4, <1>6, <1>7 DEF Distinct, t

\* A step that changes no parent keeps the list of what was moved;
LEMMA MovedSame ==
    ASSUME NEW t, NEW u, NEW b, NEW seen, NEW see, NEW s,
           MovedItems(t, b, seen, s), seen \subseteq DOMAIN t, seen \subseteq see,
           DOMAIN u = DOMAIN t, \A m \in DOMAIN t : u[m].parent = t[m].parent
    PROVE  MovedItems(u, b, see, s)
PROOF
<1>1. \A i \in 1..Len(s) : u[s[i].id].parent = t[s[i].id].parent
  BY DEF MovedItems
<1>2. \A i, j \in 1..Len(s) : u[s[i].id].parent = u[s[j].id].parent
  <2>1. \A i, j \in 1..Len(s) : t[s[i].id].parent = t[s[j].id].parent
      BY DEF MovedItems
  <2> QED BY <1>1, <2>1
<1>3. \A m \in DOMAIN u \ IdsOf(s) : u[m].parent = b[m].parent
  BY DEF MovedItems
<1> QED BY <1>2, <1>3 DEF MovedItems

\* one that moves an item back leaves the rest of the list;
LEMMA MovedTail ==
    ASSUME NEW t, NEW u, NEW b, NEW seen, NEW see, NEW s \in Seq(Items), s # <<>>,
           MovedItems(t, b, seen, s), seen \subseteq DOMAIN t, seen \subseteq see,
           DOMAIN u = DOMAIN t,
           \A m \in DOMAIN t \ {Head(s).id} : u[m].parent = t[m].parent,
           u[Head(s).id].parent = b[Head(s).id].parent
    PROVE  MovedItems(u, b, see, Tail(s))
PROOF
<1> DEFINE r == Tail(s)
<1>1. Distinct(s)
  BY DEF MovedItems
<1>2. /\ Distinct(r)
      /\ \A i \in 1..Len(r) : r[i].id # Head(s).id
      /\ IdsOf(s) = IdsOf(r) \cup {Head(s).id}
      /\ \A i \in 1..Len(r) : i + 1 \in 1..Len(s) /\ r[i] = s[i + 1]
  BY <1>1, DistinctTail, TailFacts
<1> HIDE DEF r
<1>3. \A i \in 1..Len(r) :
          /\ r[i].id \in see /\ r[i].id \in DOMAIN t \ {Head(s).id}
          /\ r[i].place = [space |-> b[r[i].id].space, parent |-> b[r[i].id].parent]
          /\ r[i].place.parent \in {Null} \cup see
  BY <1>2 DEF MovedItems
<1>4. \A m \in DOMAIN u \ IdsOf(r) : u[m].parent = b[m].parent
  BY <1>2 DEF MovedItems
<1>5. \A i, j \in 1..Len(r) : u[r[i].id].parent = u[r[j].id].parent
  <2>1. \A i, j \in 1..Len(r) : t[r[i].id].parent = t[r[j].id].parent
      BY <1>2 DEF MovedItems
  <2>2. \A i \in 1..Len(r) : u[r[i].id].parent = t[r[i].id].parent
      BY <1>3
  <2> QED BY <2>1, <2>2
<1> QED BY <1>2, <1>3, <1>4, <1>5 DEF MovedItems, r

\* and one that moves another item to where the others are makes it longer by one.
LEMMA MovedAppend ==
    ASSUME NEW t, NEW u, NEW b, NEW seen, NEW see, NEW s \in Seq(Items), NEW e \in Items,
           MovedItems(t, b, seen, s), seen \subseteq DOMAIN t, seen \subseteq see,
           \A i \in 1..Len(s) : t[s[i].id].parent = u[e.id].parent,
           e.id \in seen, e.id \notin IdsOf(s),
           e.place = [space |-> b[e.id].space, parent |-> t[e.id].parent],
           t[e.id].parent \in {Null} \cup seen,
           DOMAIN u = DOMAIN t,
           \A m \in DOMAIN t \ {e.id} : u[m].parent = t[m].parent
    PROVE  MovedItems(u, b, see, Append(s, e))
PROOF
<1> DEFINE r == Append(s, e)
           p == u[e.id].parent
<1>1. Distinct(s)
  BY DEF MovedItems
<1>2. /\ Distinct(r)
      /\ IdsOf(r) = IdsOf(s) \cup {e.id}
  BY <1>1, DistinctAppend
<1>3. \A i \in 1..Len(r) : r[i] = e \/ \E j \in 1..Len(s) : r[i] = s[j]
  <2>1. /\ Len(r) = Len(s) + 1 /\ Len(s) \in Nat
        /\ \A i \in 1..Len(s) : r[i] = s[i]
        /\ r[Len(s) + 1] = e
      BY AppendFacts
  <2> HIDE DEF r
  <2>2. \A i \in 1..Len(r) : i \in 1..Len(s) \/ i = Len(s) + 1
      BY <2>1
  <2> QED BY <2>1, <2>2
<1> HIDE DEF r, p
<1>4. t[e.id].parent = b[e.id].parent
  BY DEF MovedItems
<1>5. \A i \in 1..Len(r) :
          /\ r[i].id \in see
          /\ r[i].place = [space |-> b[r[i].id].space, parent |-> b[r[i].id].parent]
          /\ r[i].place.parent \in {Null} \cup see
  BY <1>3, <1>4 DEF MovedItems
<1>6. \A i \in 1..Len(s) : s[i].id \in DOMAIN t \ {e.id}
  BY DEF MovedItems, IdsOf
<1>7. \A i \in 1..Len(r) : u[r[i].id].parent = p
  BY <1>3, <1>6 DEF p
<1>8. \A m \in DOMAIN u \ IdsOf(r) : u[m].parent = b[m].parent
  BY <1>2 DEF MovedItems
<1> QED BY <1>2, <1>5, <1>7, <1>8 DEF MovedItems, r

LEMMA TrashedTail ==
    ASSUME NEW trash, NEW left, NEW s \in Seq(Items), s # <<>>, TrashedItems(trash, s),
           trash \subseteq left \cup {Head(s).id}
    PROVE  TrashedItems(left, Tail(s))
PROOF
<1>1. Distinct(s)
  BY DEF TrashedItems
<1> DEFINE r == Tail(s)
<1>2. /\ Distinct(r)
      /\ \A i \in 1..Len(r) : r[i].id # Head(s).id
      /\ \A i \in 1..Len(r) : i + 1 \in 1..Len(s) /\ r[i] = s[i + 1]
  BY <1>1, DistinctTail, TailFacts
<1> HIDE DEF r
<1>3. \A i \in 1..Len(r) : r[i].id \in left
  BY <1>2 DEF TrashedItems
<1> QED BY <1>2, <1>3 DEF TrashedItems, r

LEMMA TrashedAppend ==
    ASSUME NEW trash, NEW more, NEW s \in Seq(Items), NEW e \in Items, TrashedItems(trash, s),
           e.id \notin trash, trash \subseteq more, e.id \in more
    PROVE  TrashedItems(more, Append(s, e))
PROOF
<1> DEFINE r == Append(s, e)
<1>1. e.id \notin IdsOf(s) /\ Distinct(s)
  BY DEF IdsOf, TrashedItems
<1>2. Distinct(r) /\ IdsOf(r) = IdsOf(s) \cup {e.id}
  BY <1>1, DistinctAppend
<1> HIDE DEF r
<1>3. \A i \in 1..Len(r) : r[i].id \in IdsOf(s) \cup {e.id}
  BY <1>2 DEF IdsOf
<1>4. IdsOf(s) \subseteq more
  BY DEF IdsOf, TrashedItems
<1> QED BY <1>2, <1>3, <1>4 DEF TrashedItems, r

\* What can be seen can still be seen.
LEMMA StillSeen ==
    ASSUME Sound, Sound', InSight, Ids' = Ids
    PROVE  Visible \subseteq Visible' /\ Visible \subseteq DOMAIN node
PROOF
<1>1. Visible \cap Hidden' = {}
  BY NothingHides
<1> QED BY <1>1 DEF Visible, Ids

LEMMA SameSeen ==
    ASSUME Sound, Sound', node' = node
    PROVE  /\ Visible \subseteq Visible' /\ Visible \subseteq DOMAIN node
           /\ Ids' = Ids /\ Trashed' = Trashed
PROOF
<1>1. Ids' = Ids /\ Trashed' = Trashed
  BY DEF Ids, Trashed
<1>2. InSight
  BY SameRows
<1> QED BY <1>1, <1>2, StillSeen

LEMMA BeforeBegins ==
    ASSUME Sound, before' = node, Ids' = Ids,
           \A m \in Ids : node'[m].space = node[m].space /\ node'[m].type = node[m].type
    PROVE  BeforeSound'
PROOF
<1>1. node \in [Ids -> Row]
  BY DEF Sound, TypeOK
<1>2. \A m \in Ids : node[m].parent # Null =>
          /\ node[m].parent \in Ids
          /\ node[node[m].parent].type = "folder"
          /\ node[node[m].parent].space = node[m].space
  BY DEF Sound, ParentIsFolder, SpaceFollowsParent
<1>3. \A S \in (SUBSET Ids) \ {{}} : \E m \in S : node[m].parent \notin S
  BY DEF Sound, Rooted
<1> QED BY <1>1, <1>2, <1>3 DEF BeforeSound

LEMMA BeforeStays ==
    ASSUME BeforeSound, before' = before, Ids' = Ids,
           \A m \in Ids : node'[m].space = node[m].space /\ node'[m].type = node[m].type
    PROVE  BeforeSound'
PROOF BY DEF BeforeSound

LEMMA StartAlone ==
    ASSUME Sound, Sound', ClientShape, NEW kind \in {"move", "trash", "delete"},
           NEW todo \in Seq(NodeId), NEW at, Start(kind, todo, at),
           kind = "delete" => Head(todo) \in Visible,
           kind = "move" =>
              /\ \A i, j \in 1..Len(todo) : todo[i] = todo[j] => i = j
              /\ \A i \in 1..Len(todo) : todo[i] \in Ids /\ node[todo[i]].space = at.space
    PROVE  Alone'
PROOF
<1>1. /\ job' = [kind |-> kind, todo |-> todo, at |-> at, done |-> <<>>]
      /\ offer' = offer /\ told' = "working" /\ node' = node
      /\ before' = IF offer = Null THEN node ELSE Null
  BY DEF Start
<1>2. CASE before' = Null
  BY <1>2 DEF Alone
<1>3. CASE before' # Null
  <2>1. offer' = Null /\ before' = node
      BY <1>1, <1>3
  <2>2. /\ Visible \subseteq Visible' /\ Ids' = Ids
      BY <1>1, SameSeen
  <2>3. BeforeSound'
      BY <1>1, <2>1, <2>2, BeforeBegins
  <2>4. /\ job'.kind = kind /\ job'.todo = todo /\ job'.at = at /\ job'.done = <<>>
      BY <1>1
  <2>5. IdsOf(<<>>) = {} /\ Distinct(<<>>) /\ \A i \in 1..Len(<<>>) : FALSE
      BY DEF IdsOf, Distinct
  <2>6. TrashedItems(Trashed', <<>>) /\ MovedItems(node', before', Visible', <<>>)
      BY <1>1, <2>1, <2>5 DEF TrashedItems, MovedItems
  <2>7. kind = "move" => Moving'
      BY <1>1, <2>1, <2>2, <2>4, <2>5, <2>6 DEF Moving
  <2> QED BY <1>1, <2>1, <2>2, <2>3, <2>4, <2>6, <2>7, UndoNames DEF Alone
<1> QED BY <1>2, <1>3

LEMMA RenameCommitAlone ==
    ASSUME Sound, Sound', ClientShape, RenameCommit
    PROVE  Alone'
PROOF
<1>1. PICK n \in Visible, t \in Typed :
         /\ job = Null /\ job' = Null /\ told' = "done"
         /\ Rename(n, t)
         /\ before' = IF offer = Null THEN node ELSE Null
         /\ offer' = IF node'[n].name # node[n].name
                     THEN [kind |-> "rename", items |-> <<Was(n)>>] ELSE offer
  BY DEF RenameCommit
<1>2. CASE before' = Null
  BY <1>2 DEF Alone
<1>3. CASE before' # Null
  <2>1. offer = Null /\ before' = node
      BY <1>1, <1>3
  <2>2. PICK nm : node' = [node EXCEPT ![n].name = nm]
      BY <1>1 DEF Rename
  <2>3. n \in Ids /\ \A m \in Ids : node[m] \in Row
      BY DEF Visible, Sound, TypeOK
  <2>4. /\ Ids' = Ids
        /\ \A m \in Ids \ {n} : node'[m] = node[m]
        /\ node'[n] = [node[n] EXCEPT !.name = nm]
      BY <2>2, <2>3 DEF Ids
  <2>5. /\ node'[n].name = nm
        /\ \A m \in Ids : /\ node'[m].parent = node[m].parent
                          /\ node'[m].space = node[m].space
                          /\ node'[m].type = node[m].type
                          /\ node'[m].deleted = node[m].deleted
      BY <2>3, <2>4 DEF Row
  <2>6. InSight
      BY <2>5, VisibleRow DEF InSight
  <2>7. Visible \subseteq Visible'
      BY <2>4, <2>6, StillSeen
  <2>8. BeforeSound'
      BY <2>1, <2>4, <2>5, BeforeBegins
  <2>9. Was(n).id = n /\ Was(n).name = node[n].name
      BY <2>3, WasItem
  <2>10. RenamedItem(node', before', Visible', <<Was(n)>>)
      BY <2>1, <2>3, <2>4, <2>5, <2>7, <2>9 DEF RenamedItem, Ids
  <2>11. CASE offer' = Null
      BY <1>1, <2>8, <2>11 DEF Alone
  <2>12. CASE offer' = [kind |-> "rename", items |-> <<Was(n)>>]
      BY <1>1, <2>8, <2>10, <2>12 DEF Alone
  <2> QED BY <1>1, <2>1, <2>11, <2>12
<1> QED BY <1>2, <1>3

\* The end of a gesture or of an undo that could not go on.
LEMMA AbortAlone ==
    ASSUME Sound, Sound', ClientShape, Alone, job # Null, Abort
    PROVE  Alone'
PROOF
<1>1. job' = Null /\ told' = "failed" /\ UNCHANGED <<node, now, offer, before>>
  BY DEF Abort
<1>2. CASE before = Null
  BY <1>1, <1>2 DEF Alone
<1>3. CASE before # Null
  <2>1. BeforeSound /\ offer = Null
      BY <1>3 DEF Alone
  <2>2. BeforeSound'
      BY <1>1, <2>1, BeforeStays DEF Ids
  <2> QED BY <1>1, <2>1, <2>2 DEF Alone
<1> QED BY <1>2, <1>3

LEMMA MoveAlone ==
    ASSUME Sound, Sound', ClientShape, Alone, MoveStep
    PROVE  Alone'
PROOF
<1> DEFINE n == Head(job.todo)
           at == job.at
<1>1. job # Null /\ job.kind = "move" /\ told = "working"
  BY DEF MoveStep, ClientShape
<1>2. CASE Abort
  BY <1>1, <1>2, AbortAlone
<1>3. CASE before = Null /\ Advance(Was(n))
  BY <1>3 DEF Advance, Alone
<1>4. ASSUME before # Null, CanMove(n, at), Move(n, at), Advance(Was(n))
      PROVE  Alone'
  <2>1. BeforeSound /\ offer = Null /\ Moving
      BY <1>1, <1>4 DEF Alone
  <2>2. /\ job.done \in Seq(Items) /\ job.todo \in Seq(NodeId) /\ job.todo # <<>>
      BY <1>1, UndoNames DEF ClientShape, UTypeOK, Jobs
  <2>3. n = job.todo[1] /\ 1 \in 1..Len(job.todo)
      BY <2>2, TailFacts
  <2>4. n \in Visible /\ n \in Ids /\ at \in Destinations
      BY <1>4 DEF CanMove, Visible
  <2>5. n \notin IdsOf(job.done) /\ before[n].space = at.space
      BY <2>1, <2>3 DEF Moving
  <2>6. /\ Was(n) \in Items /\ Was(n).id = n /\ Was(n).place = PlaceOf(n)
      BY <2>4, WasItem
  <2>7. PICK nm \in UniqueNames(at, node[n].name, n) : node' = Moved(n, at, nm)
      BY <1>4 DEF Move, MoveTo
  <2>8. nm \in Name
      BY <2>4, NamesAreNames DEF Sound, TypeOK, Row
  <2>9. /\ Ids' = Ids
        /\ \A m \in Ids : node'[m].type = node[m].type
        /\ node'[n].parent = at.parent
        /\ \A m \in Ids \ {n} : node'[m].parent = node[m].parent
        /\ \A m \in Subtree(n) : node'[m].space = at.space
        /\ \A m \in Ids \ Subtree(n) : node'[m] = node[m]
      BY <1>4, <2>4, <2>7, <2>8, MoveFacts DEF CanMove
  <2>10. \A m \in Ids : node'[m].space = node[m].space
    <3>1. node[n].space = at.space
        BY <2>1, <2>4, <2>5 DEF BeforeSound
    <3> QED BY <2>4, <2>9, <3>1, SubtreeSpace
  <2>11. Visible \subseteq Visible' /\ Visible \subseteq DOMAIN node
    <3>1. InSight
        BY <1>4, <2>4, MoveToShows DEF Move
    <3> QED BY <2>9, <3>1, StillSeen
  <2>12. BeforeSound'
      BY <1>4, <2>1, <2>9, <2>10, BeforeStays DEF Advance
  <2> DEFINE done == Append(job.done, Was(n))
  <2>13. /\ MovedItems(node', before, Visible', done)
         /\ \A i \in 1..Len(done) : node'[done[i].id].parent = at.parent
    <3>1. /\ MovedItems(node, before, Visible, job.done)
          /\ \A i \in 1..Len(job.done) : node[job.done[i].id].parent = at.parent
        BY <2>1 DEF Moving
    <3>2. Was(n).place = [space |-> before[n].space, parent |-> node[n].parent]
        BY <2>1, <2>4, <2>6 DEF BeforeSound, PlaceOf
    <3>3. node[n].parent \in {Null} \cup Visible
        BY <2>4, VisibleRow
    <3>4. DOMAIN node' = DOMAIN node /\ DOMAIN node = Ids
        BY <2>9 DEF Ids
    <3> DEFINE e == Was(n)
    <3>5. /\ e \in Items /\ e.id \in Visible /\ e.id \notin IdsOf(job.done)
          /\ e.place = [space |-> before[e.id].space, parent |-> node[e.id].parent]
          /\ node[e.id].parent \in {Null} \cup Visible
          /\ \A m \in DOMAIN node \ {e.id} : node'[m].parent = node[m].parent
          /\ node'[e.id].parent = at.parent
        BY <2>4, <2>5, <2>6, <2>9, <3>2, <3>3, <3>4
    <3> DEFINE s == job.done
               see == Visible'
               u == node'
    <3>6. /\ s \in Seq(Items)
          /\ MovedItems(node, before, Visible, s)
          /\ \A i \in 1..Len(s) : node[s[i].id].parent = u[e.id].parent
          /\ Visible \subseteq DOMAIN node /\ Visible \subseteq see
          /\ e.id \notin IdsOf(s)
          /\ DOMAIN u = DOMAIN node
          /\ \A m \in DOMAIN node \ {e.id} : u[m].parent = node[m].parent
        BY <2>2, <2>11, <3>1, <3>4, <3>5
    <3> HIDE DEF n, at, e, s, see, u
    <3>7. MovedItems(u, before, see, Append(s, e))
        BY <3>5, <3>6, MovedAppend
    <3>8. \E k \in 1..Len(Append(s, e)) : Append(s, e)[k] = e
      <4>1. /\ Len(Append(s, e)) = Len(s) + 1 /\ Append(s, e)[Len(s) + 1] = e
            /\ Len(s) \in Nat
          BY <3>5, <3>6
      <4>2. Len(s) + 1 \in 1..Len(Append(s, e))
          BY <4>1
      <4> QED BY <4>1, <4>2
    <3>9. \A i \in 1..Len(Append(s, e)) : u[Append(s, e)[i].id].parent = u[e.id].parent
        BY <3>7, <3>8 DEF MovedItems
    <3>10. u[e.id].parent = at.parent
        BY <3>5 DEF u
    <3> QED BY <3>7, <3>9, <3>10 DEF e, n, s, see, u
  <2>14. IdsOf(done) = IdsOf(job.done) \cup {n}
      BY <2>1, <2>2, <2>5, <2>6, DistinctAppend DEF Moving, MovedItems
  <2>15. CASE Len(job.todo) = 1
    <3>1. /\ job' = Null /\ told' = "done" /\ before' = before
          /\ offer' = [kind |-> "move", items |-> done]
        BY <1>1, <1>4, <2>15 DEF Advance
    <3> HIDE DEF done
    <3> QED BY <2>12, <2>13, <3>1 DEF Alone
  <2>16. CASE Len(job.todo) # 1
    <3> DEFINE rest == Tail(job.todo)
    <3>1. /\ job' = [job EXCEPT !.todo = rest, !.done = done]
          /\ told' = "working" /\ before' = before /\ offer' = Null
        BY <1>1, <1>4, <2>1, <2>16 DEF Advance
    <3>2. job \in Jobs
        BY <1>1 DEF ClientShape, UTypeOK
    <3>3. \A i \in 1..Len(rest) : i \in Int /\ i + 1 \in 1..Len(job.todo) /\ rest[i] = job.todo[i + 1]
        BY <2>2, TailFacts
    <3> HIDE DEF done, rest
    <3>4. /\ job'.kind = "move" /\ job'.at = at /\ job'.todo = rest /\ job'.done = done
        BY <1>1, <3>1, <3>2 DEF Jobs
    <3>5. \A i, j \in 1..Len(job.todo) : job.todo[i] = job.todo[j] => i = j
        BY <2>1 DEF Moving
    <3>6. \A i, j \in 1..Len(rest) : rest[i] = rest[j] => i = j
      <4> SUFFICES ASSUME NEW i \in 1..Len(rest), NEW j \in 1..Len(rest), rest[i] = rest[j]
                   PROVE  i = j
          OBVIOUS
      <4>1. i + 1 = j + 1
          BY <3>3, <3>5
      <4> QED BY <3>3, <4>1
    <3>7. \A i \in 1..Len(rest) : rest[i] # n
      <4> SUFFICES ASSUME NEW i \in 1..Len(rest), rest[i] = n PROVE FALSE
          OBVIOUS
      <4>1. i + 1 = 1
          BY <2>3, <3>3, <3>5
      <4> QED BY <3>3, <4>1
    <3>8. \A i \in 1..Len(rest) : rest[i] \in Ids \ IdsOf(done) /\ before[rest[i]].space = at.space
        BY <2>1, <2>14, <3>3, <3>7 DEF Moving
    <3>9. Moving'
        BY <2>9, <2>13, <3>1, <3>4, <3>6, <3>8 DEF Moving
    <3> QED BY <2>12, <3>1, <3>4, <3>9 DEF Alone
  <2> QED BY <2>15, <2>16
<1> QED BY <1>2, <1>3, <1>4 DEF MoveStep

\* What a delete request does to the table.
LEMMA SoftDeleteFacts ==
    ASSUME Sound, NEW n \in Visible, SoftDelete(n)
    PROVE  /\ Ids' = Ids /\ n \in NodeId /\ n \notin Trashed
           /\ Trashed' = Trashed \cup {n}
           /\ \A m \in Ids : node'[m].space = node[m].space /\ node'[m].type = node[m].type
PROOF
<1>1. n \in Ids /\ n \notin Trashed /\ n \in NodeId
  BY HiddenFacts DEF Visible, Sound, TypeOK
<1>2. node' = [node EXCEPT ![n].deleted = now] /\ now # Null
  BY NodeTreeAssumption DEF SoftDelete, Sound, TypeOK
<1>3. \A m \in Ids : node[m] \in Row
  BY DEF Sound, TypeOK
<1>4. /\ Ids' = Ids
      /\ \A m \in Ids \ {n} : node'[m] = node[m]
      /\ node'[n] = [node[n] EXCEPT !.deleted = now]
  BY <1>1, <1>2 DEF Ids
<1>5. /\ node'[n].deleted = now /\ node'[n].space = node[n].space
      /\ node'[n].type = node[n].type
  BY <1>1, <1>3, <1>4 DEF Row
<1>6. Trashed' = Trashed \cup {n}
  BY <1>1, <1>2, <1>4, <1>5 DEF Trashed
<1> QED BY <1>1, <1>4, <1>5, <1>6

LEMMA TrashAlone ==
    ASSUME Sound, Sound', ClientShape, Alone, TrashStep
    PROVE  Alone'
PROOF
<1> DEFINE n == Head(job.todo)
           e == [id |-> n, name |-> Null, place |-> Null]
<1>1. job # Null /\ job.kind = "trash" /\ told = "working"
  BY DEF TrashStep, ClientShape
<1>2. CASE Abort
  BY <1>1, <1>2, AbortAlone
<1>3. CASE before = Null /\ Advance(e)
  BY <1>3 DEF Advance, Alone
<1>4. ASSUME before # Null, n \in Visible, SoftDelete(n), Advance(e)
      PROVE  Alone'
  <2>1. BeforeSound /\ offer = Null /\ TrashedItems(Trashed, job.done)
      BY <1>1, <1>4 DEF Alone
  <2>2. job.done \in Seq(Items) /\ job \in Jobs
      BY <1>1 DEF ClientShape, UTypeOK, Jobs
  <2>3. /\ Ids' = Ids /\ n \in NodeId /\ n \notin Trashed
        /\ Trashed' = Trashed \cup {n}
        /\ \A m \in Ids : node'[m].space = node[m].space /\ node'[m].type = node[m].type
      BY <1>4, SoftDeleteFacts
  <2>4. BeforeSound'
      BY <1>4, <2>1, <2>3, BeforeStays DEF Advance
  <2>5. e \in Items /\ e.id = n
      BY <2>3 DEF Items
  <2> HIDE DEF e
  <2>6. TrashedItems(Trashed', Append(job.done, e))
      BY <2>1, <2>2, <2>3, <2>5, TrashedAppend
  <2> DEFINE done == Append(job.done, e)
  <2>7. CASE Len(job.todo) = 1
    <3>1. /\ job' = Null /\ told' = "done" /\ before' = before
          /\ offer' = [kind |-> "trash", items |-> done]
        BY <1>1, <1>4, <2>7 DEF Advance
    <3> HIDE DEF done
    <3>2. TrashedItems(Trashed', done)
        BY <2>6 DEF done
    <3> QED BY <2>4, <3>1, <3>2 DEF Alone
  <2>8. CASE Len(job.todo) # 1
    <3>1. /\ job' = [job EXCEPT !.todo = Tail(job.todo), !.done = done]
          /\ told' = "working" /\ before' = before /\ offer' = Null
        BY <1>1, <1>4, <2>1, <2>8 DEF Advance
    <3> HIDE DEF done
    <3>2. TrashedItems(Trashed', done)
        BY <2>6 DEF done
    <3>3. job'.kind = "trash" /\ job'.done = done
        BY <1>1, <2>2, <3>1 DEF Jobs
    <3> QED BY <2>4, <3>1, <3>2, <3>3 DEF Alone
  <2> QED BY <2>7, <2>8
<1> QED BY <1>2, <1>3, <1>4 DEF TrashStep

LEMMA DeleteAlone ==
    ASSUME Sound, Sound', ClientShape, Alone, DeleteStep
    PROVE  Alone'
PROOF
<1> DEFINE n == Head(job.todo)
           e == [id |-> n, name |-> Null, place |-> Null]
<1>1. /\ job # Null /\ job.kind = "delete" /\ job' = Null /\ before' = before
      /\ offer' = [kind |-> "trash", items |-> <<e>>]
      /\ told' \in {"done", "failed"}
      /\ n \in Visible => SoftDelete(n)
  BY DEF DeleteStep
<1>2. CASE before = Null
  BY <1>1, <1>2 DEF Alone
<1>3. CASE before # Null
  <2>1. BeforeSound /\ n \in Visible
      BY <1>1, <1>3 DEF Alone
  <2>2. /\ Ids' = Ids /\ Trashed' = Trashed \cup {n}
        /\ \A m \in Ids : node'[m].space = node[m].space /\ node'[m].type = node[m].type
      BY <1>1, <2>1, SoftDeleteFacts
  <2>3. BeforeSound'
      BY <1>1, <2>1, <2>2, BeforeStays
  <2>4. e.id = n
      OBVIOUS
  <2> HIDE DEF e
  <2>5. TrashedItems(Trashed', <<e>>)
      BY <2>2, <2>4 DEF TrashedItems, Distinct
  <2>6. /\ offer'.kind = "trash" /\ offer'.items = <<e>> /\ told' # "undo move"
        /\ told' # "undo rename"
      BY <1>1
  <2> QED BY <1>1, <2>3, <2>5, <2>6 DEF Alone
<1> QED BY <1>2, <1>3

\* Starting the undo hands the offer over to the loop.
LEMMA RunUndoAlone ==
    ASSUME Sound, Sound', ClientShape, Alone, RunUndo
    PROVE  Alone'
PROOF
<1>1. /\ job = Null /\ offer # Null
      /\ job' = [kind |-> UndoOf[offer.kind], todo |-> offer.items, at |-> Null, done |-> <<>>]
      /\ offer' = Null /\ told' = "working" /\ node' = node /\ before' = before
  BY DEF RunUndo
<1>2. CASE before = Null
  BY <1>1, <1>2 DEF Alone
<1>3. CASE before # Null
  <2>1. /\ BeforeSound
        /\ offer.kind = "move" => MovedItems(node, before, Visible, offer.items)
        /\ offer.kind = "rename" => RenamedItem(node, before, Visible, offer.items)
        /\ offer.kind = "trash" => TrashedItems(Trashed, offer.items)
      BY <1>1, <1>3 DEF Alone
  <2>2. /\ Visible \subseteq Visible' /\ Visible \subseteq DOMAIN node
        /\ Ids' = Ids /\ Trashed' = Trashed
      BY <1>1, SameSeen
  <2>3. BeforeSound'
      BY <1>1, <2>1, <2>2, BeforeStays
  <2>4. offer.kind \in Kinds
      BY <1>1 DEF ClientShape, UTypeOK, Offers
  <2>5. /\ job'.kind = "undo move" => offer.kind = "move"
        /\ job'.kind = "undo rename" => offer.kind = "rename"
        /\ job'.kind = "undo trash" => offer.kind = "trash"
        /\ job'.kind \in {"undo move", "undo rename", "undo trash"}
        /\ job'.todo = offer.items
      BY <1>1, <2>4, UndoNames DEF Kinds
  <2>6. offer.kind = "move" => MovedItems(node', before, Visible', offer.items)
      BY <1>1, <2>1, <2>2, MovedSame
  <2>7. offer.kind = "rename" => RenamedItem(node', before, Visible', offer.items)
      BY <1>1, <2>1, <2>2 DEF RenamedItem
  <2> QED BY <1>1, <2>1, <2>2, <2>3, <2>5, <2>6, <2>7 DEF Alone
<1> QED BY <1>2, <1>3

\* As long as the table stays as it is, so does all that is said of it.
LEMMA QuietAlone ==
    ASSUME Sound, Sound', ClientShape, Alone, before' = before, node' = node,
           job' = job, offer' = offer, told' \in {told, "quiet"}
    PROVE  Alone'
PROOF
<1>1. CASE before = Null
  BY <1>1 DEF Alone
<1>2. CASE before # Null
  <2>1. /\ Visible \subseteq Visible' /\ Visible \subseteq DOMAIN node
        /\ Ids' = Ids /\ Trashed' = Trashed
      BY SameSeen
  <2>2. BeforeSound'
      BY <1>2, <2>1, BeforeStays DEF Alone
  <2>3. Moving => Moving'
    <3>1. ASSUME Moving PROVE MovedItems(node', before, Visible', job.done)
        BY <2>1, <3>1, MovedSame DEF Moving
    <3> QED BY <2>1, <3>1 DEF Moving
  <2>4. \A s : MovedItems(node, before, Visible, s) => MovedItems(node', before, Visible', s)
      BY <2>1, MovedSame
  <2>5. \A s : RenamedItem(node, before, Visible, s) => RenamedItem(node', before, Visible', s)
      BY <2>1 DEF RenamedItem
  <2>6. told' = told \/ (told' # "undo move" /\ told' # "undo rename")
      OBVIOUS
  <2>7. job' # Null =>
              /\ offer' = Null
              /\ job'.kind = "move" => Moving'
              /\ job'.kind = "undo move" => MovedItems(node', before', Visible', job'.todo)
              /\ job'.kind = "undo rename" => RenamedItem(node', before', Visible', job'.todo)
              /\ job'.kind = "trash" => TrashedItems(Trashed', job'.done)
              /\ job'.kind = "undo trash" => TrashedItems(Trashed', job'.todo)
              /\ job'.kind = "delete" => Head(job'.todo) \in Visible'
      BY <1>2, <2>1, <2>3, <2>4, <2>5 DEF Alone
  <2>8. offer' # Null =>
              /\ offer'.kind = "move" => MovedItems(node', before', Visible', offer'.items)
              /\ offer'.kind = "rename" => RenamedItem(node', before', Visible', offer'.items)
              /\ offer'.kind = "trash" => TrashedItems(Trashed', offer'.items)
      BY <1>2, <2>1, <2>4, <2>5 DEF Alone
  <2>9. /\ told' = "undo move" => \A m \in Ids' : node'[m].parent = before'[m].parent
        /\ told' = "undo rename" => (NamesDifferIn(before') => node' = before')
      BY <1>2, <2>1, <2>6 DEF Alone
  <2> QED BY <2>2, <2>7, <2>8, <2>9 DEF Alone
<1> QED BY <1>1, <1>2

\* What is left of an undo after one more of its requests.
UndoGoesOn ==
    /\ job' = IF Len(job.todo) = 1 THEN Null ELSE [job EXCEPT !.todo = Tail(job.todo)]
    /\ told' = IF Len(job.todo) = 1 THEN job.kind ELSE told
    /\ UNCHANGED <<offer, before>>

LEMMA UndoJob ==
    ASSUME ClientShape, job # Null, job.kind \in Undos
    PROVE  /\ job \in Jobs /\ offer = Null /\ told = "working"
           /\ job.todo \in Seq(Items) /\ job.todo # <<>>
           /\ Head(job.todo) = job.todo[1] /\ 1 \in 1..Len(job.todo)
           /\ Head(job.todo) \in Items
           /\ UndoGoesOn => /\ Len(job.todo) # 1 => /\ job'.kind = job.kind
                                                   /\ job'.todo = Tail(job.todo)
                            /\ Len(job.todo) = 1 => IdsOf(Tail(job.todo)) = {}
PROOF
<1>1. /\ job \in Jobs /\ offer = Null /\ told = "working"
      /\ job.todo \in Seq(Items) /\ job.todo # <<>>
  BY DEF ClientShape, UTypeOK
<1>2. /\ Head(job.todo) = job.todo[1] /\ 1 \in 1..Len(job.todo)
      /\ Head(job.todo) \in Items
  BY <1>1, TailFacts
<1>3. ASSUME UndoGoesOn, Len(job.todo) # 1
      PROVE  job'.kind = job.kind /\ job'.todo = Tail(job.todo)
  BY <1>1, <1>3 DEF UndoGoesOn, Jobs
<1>4. ASSUME Len(job.todo) = 1 PROVE IdsOf(Tail(job.todo)) = {}
  <2>1. Len(Tail(job.todo)) = 0
      BY <1>1, <1>4
  <2> QED BY <2>1 DEF IdsOf
<1> QED BY <1>1, <1>2, <1>3, <1>4

\* The place an item had is still there, and is where it goes back to.
LEMMA HomeAgain ==
    ASSUME Sound, BeforeSound, NEW n \in Ids
    PROVE  Home([space |-> before[n].space, parent |-> before[n].parent])
              = [space |-> before[n].space, parent |-> before[n].parent]
PROOF
<1> DEFINE p == before[n].parent
<1>1. CASE p \in Ids
  <2>1. p # Null
      BY <1>1, NodeTreeAssumption DEF Sound, TypeOK
  <2>2. node[p].space = before[n].space
      BY <1>1, <2>1 DEF BeforeSound
  <2> QED BY <1>1, <2>2 DEF Home, Folder
<1>2. CASE p \notin Ids
  BY <1>2 DEF Home
<1> QED BY <1>1, <1>2

LEMMA UndoMoveAlone ==
    ASSUME Sound, Sound', ClientShape, Alone, before # Null, job # Null,
           job.kind = "undo move",
           RenameAndMove(Head(job.todo).id, Head(job.todo).name, Home(Head(job.todo).place)),
           UndoGoesOn
    PROVE  Alone'
PROOF
<1> DEFINE e == Head(job.todo)
           n == e.id
           s == job.todo
           at == [space |-> before[n].space, parent |-> before[n].parent]
<1>1. BeforeSound /\ MovedItems(node, before, Visible, s)
  BY DEF Alone
<1>2. /\ offer = Null /\ told = "working" /\ s \in Seq(Items) /\ s # <<>>
      /\ e = s[1] /\ 1 \in 1..Len(s)
      /\ Len(s) # 1 => job'.kind = "undo move" /\ job'.todo = Tail(s)
      /\ Len(s) = 1 => IdsOf(Tail(s)) = {}
  BY UndoJob, UndoNames
<1>3. /\ n \in Visible /\ n \in Ids /\ e.place = at
  BY <1>1, <1>2 DEF MovedItems, Visible
<1>4. Home(e.place) = at
  BY <1>1, <1>3, HomeAgain
<1>5. e.name \in Name
  BY <1>2 DEF ClientShape, Full
<1>6. PICK given \in UniqueNames(PlaceOf(n), e.name, n) : MoveTo(n, at, given)
  BY <1>4 DEF RenameAndMove
<1>7. PICK nm \in UniqueNames(at, given, n) : node' = Moved(n, at, nm)
  BY <1>6 DEF MoveTo
<1>8. /\ at \in Destinations /\ (node[n].type = "folder" => at.parent \notin Subtree(n))
      /\ nm \in Name
  BY <1>5, <1>6, <1>7, NamesAreNames DEF MoveTo
<1> HIDE DEF e, n, s
<1>9. /\ Ids' = Ids
      /\ \A m \in Ids : node'[m].type = node[m].type
      /\ node'[n].parent = at.parent
      /\ \A m \in Ids \ {n} : node'[m].parent = node[m].parent
      /\ \A m \in Subtree(n) : node'[m].space = at.space
      /\ \A m \in Ids \ Subtree(n) : node'[m] = node[m]
  BY <1>3, <1>7, <1>8, MoveFacts, ZenonT(60)
<1>10. \A m \in Ids : node'[m].space = node[m].space
  <2>1. node[n].space = at.space
      BY <1>1, <1>3 DEF BeforeSound
  <2> QED BY <1>3, <1>9, <2>1, SubtreeSpace
<1>11. Visible \subseteq Visible' /\ Visible \subseteq DOMAIN node
  <2>1. InSight
      BY <1>3, <1>6, MoveToShows
  <2> QED BY <1>9, <2>1, StillSeen
<1>12. before' = before /\ offer' = Null /\ BeforeSound'
  BY <1>1, <1>2, <1>9, <1>10, BeforeStays DEF UndoGoesOn
<1>13. MovedItems(node', before, Visible', Tail(s))
  <2> DEFINE see == Visible'
             u == node'
  <2>1. /\ DOMAIN u = DOMAIN node /\ Visible \subseteq see
        /\ \A m \in DOMAIN node \ {Head(s).id} : u[m].parent = node[m].parent
        /\ u[Head(s).id].parent = before[Head(s).id].parent
      BY <1>9, <1>11 DEF Ids, e, n, s
  <2> HIDE DEF see, u
  <2>2. MovedItems(u, before, see, Tail(s))
      BY <1>1, <1>2, <1>11, <2>1, MovedTail
  <2> QED BY <2>2 DEF see, u
<1>14. CASE Len(s) = 1
  <2>1. job' = Null /\ told' = "undo move"
      BY <1>14 DEF UndoGoesOn, s
  <2>2. \A m \in Ids' : node'[m].parent = before'[m].parent
      BY <1>2, <1>12, <1>13, <1>14 DEF MovedItems, Ids
  <2> QED BY <1>12, <2>1, <2>2 DEF Alone
<1>15. CASE Len(s) # 1
  <2>1. /\ job'.kind = "undo move" /\ job'.todo = Tail(s) /\ told' = "working"
      BY <1>2, <1>15 DEF UndoGoesOn, s
  <2> QED BY <1>12, <1>13, <2>1 DEF Alone
<1> QED BY <1>14, <1>15

\* A name that is free is the one unique_name returns.
LEMMA FreeNameIsKept ==
    ASSUME NEW at, NEW given, NEW n, ~ Taken(at, given, n), NEW nm \in UniqueNames(at, given, n)
    PROVE  nm = given
PROOF
<1>1. PICK i \in 1..MaxSuffix :
         /\ nm = Candidate(given, i)
         /\ \A j \in 1..(i - 1) : Taken(at, Candidate(given, j), n)
  BY DEF UniqueNames
<1>2. Candidate(given, 1) = given
  BY DEF Candidate
<1>3. ~ (1 \in 1..(i - 1))
  BY <1>1, <1>2
<1>4. i = 1
  BY <1>3, NodeTreeAssumption
<1> QED BY <1>1, <1>2, <1>4

LEMMA UndoRenameAlone ==
    ASSUME Sound, Sound', ClientShape, Alone, before # Null, job # Null,
           job.kind = "undo rename",
           Rename(Head(job.todo).id, Head(job.todo).name), UndoGoesOn
    PROVE  Alone'
PROOF
<1> DEFINE e == Head(job.todo)
           n == e.id
<1>1. BeforeSound /\ RenamedItem(node, before, Visible, job.todo)
  BY DEF Alone
<1>2. offer = Null /\ e = job.todo[1] /\ Len(job.todo) = 1
  BY <1>1, UndoJob, UndoNames DEF RenamedItem
<1>3. /\ n \in Visible /\ n \in Ids /\ e.name = before[n].name
      /\ \A m \in Ids \ {n} : node[m] = before[m]
      /\ node[n] = [before[n] EXCEPT !.name = node[n].name]
  BY <1>1, <1>2 DEF RenamedItem, Visible, Ids
<1>4. PICK nm \in UniqueNames(PlaceOf(n), e.name, n) : node' = [node EXCEPT ![n].name = nm]
  BY DEF Rename
<1> HIDE DEF e, n
<1>5. \A m \in Ids : node[m] \in Row /\ before[m] \in Row
  BY <1>1 DEF BeforeSound, Sound, TypeOK
<1>6. /\ Ids' = Ids
      /\ \A m \in Ids \ {n} : node'[m] = node[m]
      /\ node'[n] = [node[n] EXCEPT !.name = nm]
  BY <1>3, <1>4 DEF Ids
<1>7. \A m \in Ids : node'[m].space = node[m].space /\ node'[m].type = node[m].type
  <2>1. node[n] \in Row
      BY <1>3, <1>5
  <2>2. node'[n].space = node[n].space /\ node'[n].type = node[n].type
      BY <1>6, <2>1 DEF Row
  <2> QED BY <1>6, <2>2
<1>8. job' = Null /\ told' = "undo rename" /\ offer' = Null /\ before' = before
  BY <1>2 DEF UndoGoesOn
<1>9. BeforeSound'
  BY <1>1, <1>6, <1>7, <1>8, BeforeStays
<1>10. ASSUME NamesDifferIn(before) PROVE node' = before
  <2>1. /\ before[n].parent = node[n].parent /\ before[n].space = node[n].space
        /\ before[n].deleted = node[n].deleted
      BY <1>3, <1>5 DEF Row
  <2>2. node[n].deleted = Null
      BY <1>3, VisibleRow
  <2>3. ASSUME NEW m \in Ids \ {n}, PlaceOf(m) = PlaceOf(n), node[m].deleted = Null
        PROVE  node[m].name # before[n].name
    <3>1. /\ before[m].parent = before[n].parent /\ before[m].space = before[n].space
          /\ before[m].deleted = Null /\ before[n].deleted = Null
        BY <1>3, <2>1, <2>2, <2>3 DEF PlaceOf
    <3>2. m \in DOMAIN before /\ n \in DOMAIN before /\ m # n
        BY <1>1, <1>3 DEF BeforeSound
    <3> QED BY <1>3, <1>10, <3>1, <3>2 DEF NamesDifferIn
  <2>4. ~ Taken(PlaceOf(n), e.name, n)
      BY <1>3, <2>3 DEF Taken
  <2>5. nm = before[n].name
      BY <1>3, <1>4, <2>4, FreeNameIsKept
  <2>6. node'[n] = before[n]
      BY <1>3, <1>5, <1>6, <2>5 DEF Row
  <2>7. \A m \in Ids : node'[m] = before[m]
      BY <1>3, <1>6, <2>6
  <2>8. node' = [m \in Ids |-> node'[m]] /\ before = [m \in Ids |-> before[m]]
      BY <1>1, <1>4 DEF BeforeSound, Sound, TypeOK, Ids
  <2> QED BY <2>7, <2>8
<1> QED BY <1>8, <1>9, <1>10 DEF Alone

LEMMA UndoTrashAlone ==
    ASSUME Sound, Sound', ClientShape, Alone, before # Null, job # Null,
           job.kind = "undo trash", Restore(Head(job.todo).id), UndoGoesOn
    PROVE  Alone'
PROOF
<1> DEFINE e == Head(job.todo)
           n == e.id
           s == job.todo
<1>1. BeforeSound /\ TrashedItems(Trashed, s)
  BY DEF Alone
<1>2. /\ offer = Null /\ told = "working" /\ s \in Seq(Items) /\ s # <<>>
      /\ Len(s) # 1 => job'.kind = "undo trash" /\ job'.todo = Tail(s)
  BY UndoJob, UndoNames, ZenonT(60)
<1>3. n \in Ids
  BY ZenonT(60) DEF Restore, Trashed
<1>4. PICK parent, nm :
         node' = [node EXCEPT ![n].parent = parent, ![n].name = nm, ![n].deleted = Null]
  BY ZenonT(60) DEF Restore
<1>5. /\ Ids' = Ids
      /\ \A m \in Ids \ {n} : node'[m] = node[m]
  BY <1>4 DEF Ids
<1>6. node'[n].space = node[n].space /\ node'[n].type = node[n].type
  BY <1>3, <1>4 DEF Sound, TypeOK, Row, Ids
<1>7. \A m \in Ids : node'[m].space = node[m].space /\ node'[m].type = node[m].type
  BY <1>5, <1>6
<1>8. before' = before /\ offer' = Null /\ BeforeSound'
  BY <1>1, <1>2, <1>5, <1>7, BeforeStays DEF UndoGoesOn
<1>9. TrashedItems(Trashed', Tail(s))
  <2>1. Trashed \subseteq Trashed' \cup {Head(s).id}
      BY <1>5 DEF Trashed
  <2> QED BY <1>1, <1>2, <2>1, TrashedTail
<1>10. CASE Len(s) = 1
  <2>1. job' = Null /\ told' = "undo trash"
      BY <1>10 DEF UndoGoesOn
  <2> QED BY <1>8, <2>1 DEF Alone
<1>11. CASE Len(s) # 1
  <2>1. job'.kind = "undo trash" /\ job'.todo = Tail(s) /\ told' = "working"
      BY <1>2, <1>11 DEF UndoGoesOn
  <2> QED BY <1>8, <1>9, <2>1 DEF Alone
<1> QED BY <1>10, <1>11

LEMMA UndoAlone ==
    ASSUME Sound, Sound', ClientShape, Alone, UndoStep
    PROVE  Alone'
PROOF
<1> DEFINE e == Head(job.todo)
<1>1. job # Null /\ job.kind \in Undos
  BY DEF UndoStep
<1>2. CASE Abort
  BY <1>1, <1>2, AbortAlone
<1>3. CASE /\ \/ job.kind = "undo move" /\ RenameAndMove(e.id, e.name, Home(e.place))
              \/ job.kind = "undo rename" /\ Rename(e.id, e.name)
              \/ job.kind = "undo trash" /\ Restore(e.id)
           /\ UndoGoesOn
  <2>1. CASE before = Null
      BY <1>3, <2>1 DEF UndoGoesOn, Alone
  <2>2. CASE before # Null
      BY <1>1, <1>3, <2>2, UndoMoveAlone, UndoRenameAlone, UndoTrashAlone
  <2> QED BY <2>1, <2>2
<1> QED BY <1>2, <1>3 DEF UndoStep, UndoGoesOn

LEMMA NextAlone ==
    ASSUME Sound, ClientShape, Alone, [UNext]_allVars
    PROVE  Alone'
PROOF
<1>1. Sound'
  BY ClientSound
<1>2. CASE DropNodes
  <2>1. PICK p \in Picks, at \in Destinations :
           /\ \A i \in DOMAIN p : node[p[i]].space = at.space
           /\ Start("move", p, at)
      BY <1>2 DEF DropNodes
  <2>2. /\ p \in Seq(NodeId)
        /\ \A i, j \in 1..Len(p) : p[i] = p[j] => i = j
        /\ \A i \in 1..Len(p) : p[i] \in Ids
      BY PickIsSeq DEF Visible
  <2>3. \A i \in 1..Len(p) : node[p[i]].space = at.space
    <3>1. DOMAIN p = 1..Len(p)
        BY <2>2
    <3> QED BY <2>1, <3>1
  <2> QED BY <1>1, <2>1, <2>2, <2>3, StartAlone
<1>3. CASE TrashMany
  <2>1. PICK p \in Picks : Start("trash", p, Null)
      BY <1>3 DEF TrashMany
  <2>2. p \in Seq(NodeId)
      BY PickIsSeq
  <2> QED BY <1>1, <2>1, <2>2, StartAlone
<1>4. CASE DeleteOne
  <2>1. PICK n \in Visible : Start("delete", <<n>>, Null)
      BY <1>4 DEF DeleteOne
  <2>2. n \in NodeId
      BY DEF Visible, Sound, TypeOK
  <2>3. <<n>> \in Seq(NodeId) /\ Head(<<n>>) = n
      BY <2>2
  <2> QED BY <1>1, <2>1, <2>3, StartAlone
<1>5. CASE Dismiss
  <2>1. offer # Null /\ before' = IF job = Null THEN Null ELSE before
      BY <1>5 DEF Dismiss, Forget
  <2> QED BY <2>1 DEF Alone
<1>6. CASE Others
  <2>1. /\ before' = IF node' = node /\ (job # Null \/ offer # Null) THEN before ELSE Null
        /\ told' \in {told, "quiet"} /\ job' = job /\ offer' = offer
      BY <1>6 DEF Others
  <2>2. CASE before' = Null
      BY <2>2 DEF Alone
  <2>3. CASE before' # Null
      BY <1>1, <2>1, <2>3, QuietAlone
  <2> QED BY <2>2, <2>3
<1>7. CASE UNCHANGED allVars
  BY <1>1, <1>7, QuietAlone DEF allVars
<1>8. CASE RenameCommit \/ MoveStep \/ TrashStep \/ DeleteStep \/ RunUndo \/ UndoStep
  BY <1>1, <1>8, RenameCommitAlone, MoveAlone, TrashAlone, DeleteAlone, RunUndoAlone, UndoAlone
<1> QED BY <1>2, <1>3, <1>4, <1>5, <1>6, <1>7, <1>8 DEF UNext

UInv == Sound /\ ClientShape /\ Alone

LEMMA UndoInvariant == USpec => []UInv
PROOF
<1>1. UInit => UInv
  <2>1. UInit => Sound
      BY InitSound DEF UInit
  <2> QED BY <2>1, UndoNames DEF UInit, UInv, ClientShape, UTypeOK, Alone
<1>2. UInv /\ [UNext]_allVars => UInv'
  BY ClientSound, ClientKeepsShape, NextAlone DEF UInv
<1> QED BY <1>1, <1>2, PTL DEF USpec

\* Taking back a move puts every item where it was, whatever the tree, the items and the
\* folder they were dropped into, as long as nobody else changed the tree.
THEOREM MoveIsUndone == USpec => []UndoneMoveIsBack
PROOF
<1>1. UInv => UndoneMoveIsBack
  BY DEF UInv, Alone, BeforeSound, UndoneMoveIsBack, PlaceOf
<1> QED BY <1>1, UndoInvariant, PTL

\* Taking back a rename restores the table.
THEOREM RenameIsUndone == USpec => []UndoneRenameIsExact
PROOF
<1>1. UInv => UndoneRenameIsExact
  BY DEF UInv, Alone, UndoneRenameIsExact
<1> QED BY <1>1, UndoInvariant, PTL

Below == OpToRel(<, Nat)

LEMMA LeastOne ==
    ASSUME NEW T \in SUBSET Nat, T # {}
    PROVE  \E x \in T : \A y \in T : x <= y
<1>1. IsWellFoundedOn(Below, Nat)
    BY NatLessThanWellFounded DEF Below
<1>2. \A x, y \in Nat : y < x => <<y, x>> \in Below
    BY DEF Below, OpToRel
<1> HIDE DEF Below
<1>3. PICK x \in T : \A y \in T : ~ (<<y, x>> \in Below)
    BY <1>1, WFMin
<1>4. \A y \in T : x <= y
  <2> SUFFICES ASSUME NEW y \in T
               PROVE  x <= y
      OBVIOUS
  <2>1. x \in Nat /\ y \in Nat /\ ~ (y < x)
      BY <1>2, <1>3
  <2> QED
      BY <2>1
<1> QED
    BY <1>4

\* unique_name finds a name unless one of the same name stands beside every number.
LEMMA SomeNameIsFree ==
    ASSUME Sound, ~ NamesAtBound, ~ NumbersRunOut, NEW at, NEW nm, NEW n
    PROVE  NameFree(at, nm, n)
PROOF
<1>1. CASE ~ Taken(at, nm, n)
  <2>1. Candidate(nm, 1) = nm /\ 1 \in 1..MaxSuffix /\ 1..(1 - 1) = {}
      BY NodeTreeAssumption DEF Candidate
  <2>2. Candidate(nm, 1) \in UniqueNames(at, nm, n)
      BY <1>1, <2>1 DEF UniqueNames
  <2> QED BY <2>2 DEF NameFree
<1>2. CASE Taken(at, nm, n)
  <2>1. PICK m \in Ids : PlaceOf(m) = at /\ node[m].name = nm /\ node[m].deleted = Null
      BY <1>2 DEF Taken
  <2>2. Len(nm.tags) < MaxTags
    <3>1. node[m].name \in Name
        BY <2>1 DEF Sound, TypeOK, Row
    <3>2. Len(nm.tags) \in Nat
        BY <2>1, <3>1 DEF Name
    <3>3. ~ (Len(nm.tags) >= MaxTags)
        BY <2>1 DEF NamesAtBound
    <3> QED BY <3>2, <3>3, NodeTreeAssumption
  <2>3. m \in Ids \ Trashed
      BY <2>1 DEF Trashed
  <2>4. PICK k \in 2..MaxSuffix : ~ Taken(at, Candidate(nm, k), Null)
      BY <2>1, <2>3 DEF NumbersRunOut
  <2>5. ~ Taken(at, Candidate(nm, k), n)
    <3>1. Null \notin Ids
        BY NodeTreeAssumption DEF Sound, TypeOK
    <3> QED BY <2>4, <3>1 DEF Taken
  <2> DEFINE Free == {i \in 1..MaxSuffix : ~ Taken(at, Candidate(nm, i), n)}
  <2>6. k \in Free
      BY <2>4, <2>5, NodeTreeAssumption
  <2>7. Free \subseteq Nat
      BY NodeTreeAssumption
  <2>8. PICK i \in Free : \A j \in Free : i <= j
    <3> HIDE DEF Free
    <3> QED BY <2>6, <2>7, LeastOne
  <2>9. \A j \in 1..(i - 1) : Taken(at, Candidate(nm, j), n)
    <3> SUFFICES ASSUME NEW j \in 1..(i - 1), j \notin Free => Taken(at, Candidate(nm, j), n)
                 PROVE  j \notin Free
        BY <2>8, NodeTreeAssumption
    <3>1. i \in Nat /\ j < i
        BY <2>7
    <3> HIDE DEF Free
    <3> QED BY <2>7, <2>8, <3>1
  <2>10. Candidate(nm, i) \in UniqueNames(at, nm, n)
      BY <2>2, <2>8, <2>9 DEF UniqueNames
  <2> QED BY <2>10 DEF NameFree
<1> QED BY <1>1, <1>2

\* Going home never leads into the item itself: below it nothing hangs that did not hang
\* there when the gesture began, save what the gesture moved, and that hangs beside it.
LEMMA HomeIsOutside ==
    ASSUME Sound, BeforeSound, NEW s, MovedItems(node, before, Visible, s),
           NEW i \in 1..Len(s)
    PROVE  before[s[i].id].parent \notin Subtree(s[i].id)
PROOF
<1> DEFINE n == s[i].id
           D == Subtree(n)
<1>1. n \in Ids
  BY DEF MovedItems, Visible
<1>2. /\ D \subseteq Ids /\ n \in D
      /\ \A m \in D : m # n => node[m].parent \in D
  BY <1>1, SubtreeFacts
<1>3. SUFFICES ASSUME before[n].parent \in D PROVE FALSE
  OBVIOUS
<1>4. node[n].parent \notin D
  <2>1. PICK m \in D : node[m].parent \notin D
      BY <1>2 DEF Sound, Rooted
  <2> QED BY <1>2, <2>1
<1>5. \A m \in D : before[m].parent \in D
  <2> SUFFICES ASSUME NEW m \in D, m # n PROVE before[m].parent \in D
      BY <1>3
  <2>1. node[m].parent \in D
      BY <1>2
  <2>2. m \notin IdsOf(s)
    <3>1. \A j \in 1..Len(s) : node[s[j].id].parent = node[n].parent
        BY DEF MovedItems
    <3> QED BY <1>4, <2>1, <3>1 DEF IdsOf
  <2>3. node[m].parent = before[m].parent
      BY <1>2, <2>2 DEF MovedItems, Ids
  <2> QED BY <2>1, <2>3
<1>6. PICK m \in D : before[m].parent \notin D
  BY <1>2 DEF BeforeSound
<1> QED BY <1>5, <1>6

\* Each request of an undo that nobody interfered with can be served.
LEMMA UndoCan ==
    ASSUME Sound, ClientShape, Alone, before # Null, job # Null, job.kind \in Undos,
           ~ NamesAtBound, ~ NumbersRunOut
    PROVE  \/ job.kind = "undo move" /\ CanMoveBack(Head(job.todo))
           \/ job.kind = "undo rename" /\ CanRename(Head(job.todo).id, Head(job.todo).name)
           \/ job.kind = "undo trash" /\ CanRestore(Head(job.todo).id)
PROOF
<1> DEFINE e == Head(job.todo)
           n == e.id
           s == job.todo
<1>1. e = s[1] /\ 1 \in 1..Len(s)
  BY UndoJob
<1>2. CASE job.kind = "undo move"
  <2>1. BeforeSound /\ MovedItems(node, before, Visible, s)
      BY <1>2 DEF Alone
  <2> DEFINE at == [space |-> before[n].space, parent |-> before[n].parent]
  <2>2. /\ n \in Visible /\ n \in Ids /\ e.place = at
        /\ at.parent \in {Null} \cup Visible
      BY <1>1, <2>1 DEF MovedItems, Visible
  <2>3. Home(e.place) = at
      BY <2>1, <2>2, HomeAgain
  <2>4. at \in Destinations
    <3>1. CASE at.parent = Null
      <4>1. before[n].space \in Space
          BY <2>1, <2>2 DEF BeforeSound, Row
      <4> QED BY <3>1, <4>1 DEF Destinations
    <3>2. CASE at.parent # Null
      <4>1. at.parent \in Visible
          BY <2>2, <3>2
      <4>2. /\ before[at.parent].type = "folder" /\ before[at.parent].space = at.space
            /\ at.parent \in Ids
          BY <2>1, <2>2, <3>2 DEF BeforeSound
      <4>3. node[at.parent].type = "folder" /\ node[at.parent].space = at.space
          BY <2>1, <4>2 DEF BeforeSound
      <4>4. at = Folder(at.parent)
          BY <4>3 DEF Folder
      <4> HIDE DEF at
      <4> QED BY <4>1, <4>3, <4>4 DEF Destinations
    <3> QED BY <3>1, <3>2
  <2>5. e.place.parent \notin Subtree(n)
      BY <1>1, <2>1, <2>2, HomeIsOutside
  <2>6. \E nm \in UniqueNames(PlaceOf(n), e.name, n) : NameFree(at, nm, n)
      BY SomeNameIsFree DEF NameFree
  <2> HIDE DEF e, at
  <2>7. CanMoveBack(e)
      BY <2>2, <2>3, <2>4, <2>5, <2>6 DEF CanMoveBack
  <2> QED BY <1>2, <2>7 DEF e
<1>3. CASE job.kind = "undo rename"
  <2>1. RenamedItem(node, before, Visible, s)
      BY <1>3 DEF Alone
  <2>2. n \in Visible
      BY <1>1, <2>1 DEF RenamedItem
  <2> QED BY <1>3, <2>2, SomeNameIsFree DEF CanRename
<1>4. CASE job.kind = "undo trash"
  <2>1. n \in Trashed
      BY <1>1, <1>4 DEF Alone, TrashedItems
  <2> QED BY <1>4, <2>1, SomeNameIsFree DEF CanRestore
<1> QED BY <1>2, <1>3, <1>4, UndoNames

LEMMA UndoSucceedsStep ==
    ASSUME UInv, [UNext]_allVars, ~ UNCHANGED allVars,
           job # Null, job.kind \in Undos, told' = "failed", before # Null
    PROVE  NamesAtBound \/ NumbersRunOut
PROOF
<1>1. /\ told = "working" /\ offer = Null
      /\ job.kind \notin {"move", "trash", "delete"}
  BY UndoNames DEF UInv, ClientShape
<1>2. "failed" \notin Undos /\ "failed" # "working"
  BY UndoNames
<1>3. ~ (DropNodes \/ TrashMany \/ DeleteOne \/ RenameCommit \/ RunUndo)
  BY DEF DropNodes, TrashMany, DeleteOne, Start, RenameCommit, RunUndo
<1>4. ~ (MoveStep \/ TrashStep \/ DeleteStep \/ Dismiss)
  BY <1>1 DEF MoveStep, TrashStep, DeleteStep, Dismiss
<1>5. ~ Others
  BY <1>1, <1>2 DEF Others
<1>6. UndoStep
  BY <1>3, <1>4, <1>5 DEF UNext
<1>7. SUFFICES ASSUME ~ NamesAtBound, ~ NumbersRunOut PROVE FALSE
  OBVIOUS
<1>8. told' = IF Len(job.todo) = 1 THEN job.kind ELSE told
  BY <1>6, <1>7, UndoCan DEF UndoStep, UInv
<1> QED BY <1>1, <1>2, <1>8

\* An undo that nobody interfered with never stops half-way, whatever it takes back:
\* every item it names is still there, its folder too, and never below the item itself.
THEOREM UndoGoesThrough == USpec => UndoAloneSucceeds
PROOF
<1>1. UInv /\ [UNext]_allVars
        => [job # Null /\ job.kind \in Undos /\ told' = "failed"
              => before = Null \/ NamesAtBound \/ NumbersRunOut]_allVars
  BY UndoSucceedsStep
<1> QED BY <1>1, UndoInvariant, PTL DEF USpec, UndoAloneSucceeds

\* Where any name may be asked for, the browser is one more user of the tree: whatever is
\* proved of the tree holds while browsers move, rename, trash and take back.
THEOREM GesturesAreRequests == Typed = Name => (USpec => Spec)
PROOF
<1> SUFFICES ASSUME Typed = Name PROVE USpec => Spec
  OBVIOUS
<1>1. UInit => Init
  BY DEF UInit
<1>2. UInv /\ [UNext]_allVars => [Next]_vars
  BY ClientRequest DEF UInv, Next, Changing
<1> QED BY <1>1, <1>2, UndoInvariant, PTL DEF USpec, Spec
=============================================================================
