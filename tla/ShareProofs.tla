----------------------------- MODULE ShareProofs -----------------------------
(***************************************************************************)
(* The limit of a share link holds for any number of people, pieces, saves  *)
(* and broken connections, and so does what a local copy consists of.       *)
(***************************************************************************)
EXTENDS Share, FiniteSetTheorems, TLAPS

Phase == {"idle", "ready", "receiving", "broken", "failed", "finished"}
ClientState == [phase : Phase, sum : Version \cup {NoSum},
                parts : [Pieces -> Version \cup {NoPart}], version : Version,
                next : Pieces, last : Pieces, opened : BOOLEAN, bare : BOOLEAN]
LinkState == [state : {"open", "revoked", "expired", "none"}, limit : Limits, count : Nat]
NodeState == [kind : Kinds, state : {"live", "deleted", "hidden", "purged"}, version : Version]

-----------------------------------------------------------------------------
\* The invariant

Typed ==
    /\ backend \in Backends
    /\ link \in LinkState
    /\ node \in NodeState
    /\ client \in [Clients -> ClientState]
    /\ breaks \in Nat

\* Nobody has an answer of a version that is still to come, and who has finished has all.
Sane(m) ==
    /\ m.version <= node.version
    /\ m.phase = "finished" => \A i \in Pieces : m.parts[i] # NoPart

\* On a local disk the pieces that a client holds are of the version of its last answer,
\* unless it asked for some of them without saying what it had.
OneVersion(m) ==
    backend = "local" /\ ~ m.bare => \A i \in Pieces : m.parts[i] \in {NoPart, m.version}

Beginners == {c \in Clients : AtBeginning(c) /\ SentInPieces(c)}
Counted == Cardinality(Beginners) <= link.count /\ link.count <= link.limit

ShareInv == Typed /\ Counted /\ \A c \in Clients : Sane(client[c]) /\ OneVersion(client[c])

-----------------------------------------------------------------------------
\* Finite sets and types

LEMMA BeginnersFinite == IsFiniteSet(Beginners) /\ Cardinality(Beginners) \in Nat
<1>1. IsFiniteSet(Clients)
    BY ShareAssumption DEF Clients
<1> QED
    BY <1>1, FS_Subset, FS_CardinalityType DEF Beginners

LEMMA Bounds ==
    /\ Size \in Nat /\ Size > 0 /\ MaxVersion \in Nat
    /\ 0 \in Version /\ Version \subseteq Nat /\ NoPart \notin Version
    /\ 1 \in Pieces /\ Size \in Pieces /\ Pieces = 1..Size
    /\ Limits \subseteq Nat
    BY ShareAssumption DEF Version, Pieces, NoPart

LEMMA FreshTyped ==
    /\ Fresh \in ClientState
    /\ Fresh.version = 0 /\ Fresh.phase = "idle" /\ \A i \in Pieces : Fresh.parts[i] = NoPart
    BY Bounds DEF Fresh, ClientState, Phase

LEMMA FreshFails ==
    LET m == [Fresh EXCEPT !.phase = "failed"]
    IN  m \in ClientState /\ m.version = 0 /\ m.phase = "failed" /\ m.parts = Fresh.parts
    BY FreshTyped DEF ClientState, Phase

\* Fewer of the clients are at a beginning, or the same.
LEMMA FewerBeginners ==
    ASSUME Beginners' \subseteq Beginners
    PROVE  Cardinality(Beginners)' \in Nat /\ Cardinality(Beginners)' <= Cardinality(Beginners)
    BY BeginnersFinite, FS_Subset, FS_CardinalityType

\* At most one more is.
LEMMA OneMoreBeginner ==
    ASSUME NEW c, Beginners' \subseteq Beginners \cup {c}
    PROVE  Cardinality(Beginners)' \in Nat /\ Cardinality(Beginners)' <= Cardinality(Beginners) + 1
<1>1. /\ IsFiniteSet(Beginners \cup {c})
      /\ Cardinality(Beginners \cup {c}) \in Nat
      /\ Cardinality(Beginners \cup {c}) <= Cardinality(Beginners) + 1
    BY BeginnersFinite, FS_AddElement, FS_CardinalityType
<1>2. Cardinality(Beginners') <= Cardinality(Beginners \cup {c}) /\ Cardinality(Beginners') \in Nat
    BY <1>1, FS_Subset, FS_CardinalityType
<1> QED
    BY <1>1, <1>2, BeginnersFinite

-----------------------------------------------------------------------------
\* The initial state

LEMMA InitShareInv == Init => ShareInv
<1> SUFFICES ASSUME Init PROVE ShareInv
    OBVIOUS
<1>1. \A c \in Clients : client[c] = Fresh
    BY DEF Init
<1>2. Typed
  <2>1. client \in [Clients -> ClientState]
      BY FreshTyped DEF Init
  <2>2. backend \in Backends /\ breaks \in Nat /\ link \in LinkState /\ node \in NodeState
      BY Bounds DEF Init, LinkState, NodeState
  <2> QED
      BY <2>1, <2>2 DEF Typed
<1>3. Beginners = {}
    BY <1>1, FreshTyped DEF Beginners, AtBeginning, Held
<1>4. Counted
  <2>1. link.count = 0 /\ link.limit \in Nat
      BY Bounds DEF Init
  <2> QED
      BY <1>3, <2>1, FS_EmptySet DEF Counted
<1>5. ASSUME NEW c \in Clients PROVE Sane(client[c]) /\ OneVersion(client[c])
    BY <1>1, FreshTyped DEF Sane, OneVersion, Init
<1> QED
    BY <1>2, <1>4, <1>5 DEF ShareInv

-----------------------------------------------------------------------------
\* The item and the link

LEMMA OwnerKeeps ==
    ASSUME ShareInv, Owner
    PROVE  ShareInv'
<1>1. /\ UNCHANGED <<backend, client, breaks>>
      /\ link'.count = link.count /\ link'.limit = link.limit
      /\ link' \in LinkState /\ node' \in NodeState
      /\ node'.kind = node.kind /\ node.version <= node'.version
    BY Bounds DEF Owner, Trash, Restore, Purge, Save, Revoke, Expire, CleanupStaleShares,
                  ShareInv, Typed, Version, LinkState, NodeState
<1>2. node.version \in Nat /\ \A c \in Clients : client[c].version \in Nat
    BY Bounds DEF ShareInv, Typed, NodeState, ClientState
<1>3. node'.version = 0 => node.version = 0
    BY <1>1, <1>2, Bounds DEF NodeState
<1>4. Beginners' \subseteq Beginners
    BY <1>1, <1>3 DEF Beginners, AtBeginning, SentInPieces, Held
<1>5. Counted'
    BY <1>1, <1>4, FewerBeginners, BeginnersFinite, Bounds DEF ShareInv, Counted, Typed, LinkState
<1>6. ASSUME NEW c \in Clients PROVE Sane(client[c])' /\ OneVersion(client[c])'
  <2>1. client'[c] = client[c] /\ backend' = backend
      BY <1>1
  <2>2. client[c].version <= node'.version
    <3>1. client[c].version <= node.version /\ node'.version \in Nat
        BY <1>1, Bounds DEF ShareInv, Sane, NodeState
    <3> QED
        BY <1>1, <1>2, <3>1
  <2> QED
      BY <2>1, <2>2 DEF ShareInv, Sane, OneVersion
<1> QED
    BY <1>1, <1>5, <1>6 DEF ShareInv, Typed

-----------------------------------------------------------------------------
\* Requests

\* A step of client c, which becomes m.
LEMMA ClientMoves ==
    ASSUME ShareInv, NEW c \in Clients, NEW m \in ClientState,
           client' = [client EXCEPT ![c] = m], UNCHANGED <<backend, node>>,
           breaks' \in Nat, link' \in LinkState, link'.limit = link.limit,
           Sane(m), OneVersion(m),
           \/ link'.count = link.count /\ (c \in Beginners' => c \in Beginners)
           \/ link'.count = link.count + 1 /\ link.count < link.limit
    PROVE  ShareInv'
<1>1. /\ client' \in [Clients -> ClientState] /\ client'[c] = m
      /\ \A d \in Clients : d # c => client'[d] = client[d]
    BY DEF ShareInv, Typed
<1>2. Typed'
    BY <1>1 DEF ShareInv, Typed
<1>3. Beginners' \subseteq Beginners \cup {c}
    BY <1>1 DEF Beginners, AtBeginning, SentInPieces, Held
<1>4. link.count \in Nat /\ link.limit \in Nat
    BY Bounds DEF ShareInv, Typed, LinkState
<1>5. Counted'
  <2>1. CASE link'.count = link.count /\ (c \in Beginners' => c \in Beginners)
    <3>1. Beginners' \subseteq Beginners
        BY <1>3, <2>1
    <3> QED
        BY <1>4, <2>1, <3>1, FewerBeginners, BeginnersFinite DEF ShareInv, Counted
  <2>2. CASE link'.count = link.count + 1 /\ link.count < link.limit
      BY <1>3, <1>4, <2>2, OneMoreBeginner, BeginnersFinite DEF ShareInv, Counted
  <2> QED
      BY <2>1, <2>2
<1>6. ASSUME NEW d \in Clients PROVE Sane(client[d])' /\ OneVersion(client[d])'
  <2>1. client'[d] = m \/ client'[d] = client[d]
      BY <1>1
  <2> QED
      BY <2>1 DEF ShareInv, Sane, OneVersion
<1> QED
    BY <1>2, <1>5, <1>6 DEF ShareInv

LEMMA ScriptKeeps ==
    ASSUME ShareInv, NEW c \in Clients, Script(c)
    PROVE  ShareInv'
<1> DEFINE p == IF Resolved THEN "ready" ELSE "failed"
           v == IF Resolved /\ node.kind = "file" THEN node.version ELSE NoSum
           m == [client[c] EXCEPT !.phase = p, !.sum = v]
<1>1. /\ client' = [client EXCEPT ![c] = m] /\ client[c] \in ClientState
      /\ UNCHANGED <<backend, link, node, breaks>>
    BY DEF Script, ShareInv, Typed
<1>2. p \in Phase \ {"finished", "receiving"} /\ v \in Version \cup {NoSum}
    BY DEF Phase, ShareInv, Typed, NodeState
<1> HIDE DEF p, v
<1>3. /\ m \in ClientState /\ m.phase = p /\ m.parts = client[c].parts
      /\ m.version = client[c].version /\ m.bare = client[c].bare
    BY <1>1, <1>2 DEF ClientState
<1>4. Sane(m) /\ OneVersion(m)
    BY <1>2, <1>3 DEF ShareInv, Sane, OneVersion
<1>5. client'[c] = m
    BY <1>1 DEF ShareInv, Typed
<1> HIDE DEF m
<1>6. c \in Beginners' => c \in Beginners
    BY <1>1, <1>2, <1>3, <1>5 DEF Beginners, AtBeginning, SentInPieces, Held
<1> QED
    BY <1>1, <1>3, <1>4, <1>6, ClientMoves DEF ShareInv, Typed

\* A splitter that gets all of a body at which it did not ask to begin gets an archive, or a
\* file that was saved.
LEMMA LaterPieceFirst ==
    ASSUME ShareInv, NEW c \in Clients, NEW r \in Requests(c), Continues(r), SentInPieces(c)
    PROVE  1 \in Held(c) \/ ~ Whole(c, r)
<1>1. CASE c \notin Splitters
  <2>1. r.from \in Nat /\ r.from > 1 /\ 1..(r.from - 1) \subseteq Held(c)
      BY <1>1, Bounds DEF Requests, Request, Continues
  <2> QED
      BY <2>1
<1>2. CASE c \in Splitters
  <2>1. node.kind = "file" /\ node.version = 0
      BY <1>2 DEF SentInPieces
  <2>2. client[c].version = node.version
    <3>1. client[c].version \in Nat /\ client[c].version <= node.version
        BY Bounds DEF ShareInv, Sane, Typed, ClientState
    <3> QED
        BY <2>1, <3>1
  <2> QED
      BY <2>1, <2>2 DEF Whole, IsRange, Continues
<1> QED
    BY <1>1, <1>2

LEMMA DownloadKeeps ==
    ASSUME ShareInv, NEW c \in Clients, NEW r \in Requests(c), Download(c, r)
    PROVE  ShareInv'
<1> DEFINE w == Whole(c, r)
           new == IF w THEN [parts |-> Fresh.parts, next |-> 1, last |-> Size, bare |-> FALSE]
                  ELSE [parts |-> client[c].parts, next |-> r.from, last |-> r.to,
                        bare |-> client[c].bare \/ (Held(c) # {} /\ ~ r.checked)]
           parts == new.parts
           next == new.next
           last == new.last
           bare == new.bare
           m == [client[c] EXCEPT !.phase = "receiving", !.version = node.version,
                     !.opened = FALSE, !.parts = parts, !.next = next, !.last = last,
                     !.bare = bare]
<1>1. /\ client' = [client EXCEPT ![c] = m] /\ client[c] \in ClientState
      /\ UNCHANGED <<backend, node, breaks>> /\ Granted(r)
      /\ link' = IF Continues(r) THEN link ELSE [link EXCEPT !.count = @ + 1]
    BY DEF Download, ShareInv, Typed
<1>2. /\ r \in Request /\ r.from \in Pieces /\ r.to \in Pieces /\ r.from \in Missing(c)
    BY DEF Requests, Request
<1>3. /\ parts \in [Pieces -> Version \cup {NoPart}] /\ next \in Pieces /\ last \in Pieces
      /\ bare \in BOOLEAN /\ node.version \in Version
    BY <1>1, <1>2, FreshTyped, Bounds DEF ClientState, ShareInv, Typed, NodeState
<1>4. \/ w /\ parts = Fresh.parts /\ next = 1
      \/ /\ ~ w /\ parts = client[c].parts /\ next = r.from
         /\ bare <=> (client[c].bare \/ (Held(c) # {} /\ ~ r.checked))
    OBVIOUS
<1> HIDE DEF new, parts, next, last, bare
<1>5. /\ m \in ClientState /\ m.phase = "receiving" /\ m.parts = parts /\ m.next = next
      /\ m.version = node.version /\ m.bare = bare
    BY <1>1, <1>3 DEF ClientState, Phase
<1> HIDE DEF m
<1>6. Sane(m)
  <2>1. node.version <= node.version
    <3>1. node.version \in Nat
        BY <1>3, Bounds
    <3>2. \A v \in Nat : v <= v
        OBVIOUS
    <3> QED
        BY <3>1, <3>2
  <2>2. m.phase # "finished"
      BY <1>5
  <2> QED
      BY <1>5, <2>1, <2>2 DEF Sane
<1>7. OneVersion(m)
  <2> SUFFICES ASSUME backend = "local", ~ bare, NEW i \in Pieces
               PROVE  parts[i] \in {NoPart, node.version}
      BY <1>5 DEF OneVersion
  <2>1. CASE parts = Fresh.parts
      BY <2>1, FreshTyped
  <2>2. CASE /\ ~ w /\ parts = client[c].parts
             /\ bare <=> (client[c].bare \/ (Held(c) # {} /\ ~ r.checked))
    <3>1. ~ client[c].bare /\ (Held(c) = {} \/ r.checked)
        BY <2>2
    <3>2. client[c].parts[i] \in {NoPart, client[c].version}
        BY <3>1 DEF ShareInv, OneVersion
    <3>3. CASE Held(c) = {}
        BY <2>2, <3>3 DEF Held
    <3>4. CASE r.checked
      <4>1. client[c].version = node.version
          BY <2>2, <3>4 DEF Whole
      <4> QED
          BY <2>2, <3>2, <4>1
    <3> QED
        BY <3>1, <3>3, <3>4
  <2> QED
      BY <1>4, <2>1, <2>2
<1>8. /\ link' \in LinkState /\ link'.limit = link.limit
      /\ \/ link'.count = link.count /\ (c \in Beginners' => c \in Beginners)
         \/ link'.count = link.count + 1 /\ link.count < link.limit
  <2>1. link \in LinkState
      BY DEF ShareInv, Typed
  <2>2. CASE Continues(r)
    <3>1. link' = link
        BY <1>1, <2>2
    <3>2. ASSUME c \in Beginners' PROVE c \in Beginners
      <4>1. SentInPieces(c)
          BY <1>1, <3>2 DEF Beginners, SentInPieces
      <4>2. CASE 1 \in Held(c)
          BY <4>1, <4>2 DEF Beginners, AtBeginning
      <4>3. CASE ~ w
        <5>1. client'[c].parts = client[c].parts /\ client'[c].next = r.from
            BY <1>1, <1>4, <1>5, <4>3 DEF ShareInv, Typed
        <5>2. r.from # 1
            BY <2>2 DEF Continues
        <5>3. 1 \in Held(c)
            BY <3>2, <5>1, <5>2 DEF Beginners, AtBeginning, Held
        <5> QED
            BY <4>2, <5>3
      <4> QED
          BY <2>2, <4>1, <4>2, <4>3, LaterPieceFirst
    <3> QED
        BY <2>1, <3>1, <3>2
  <2>3. CASE ~ Continues(r)
    <3>1. link' = [link EXCEPT !.count = @ + 1] /\ link.count < link.limit
        BY <1>1, <2>3 DEF Granted
    <3> QED
        BY <2>1, <3>1 DEF LinkState
  <2> QED
      BY <2>2, <2>3
<1> QED
    BY <1>1, <1>5, <1>6, <1>7, <1>8, ClientMoves DEF ShareInv, Typed

\* A client that gives up holds what it held, or nothing.
LEMMA GivingUpKeeps ==
    ASSUME ShareInv, NEW c \in Clients, UNCHANGED <<backend, link, node>>, breaks' \in Nat,
           \/ client' = [client EXCEPT ![c] = [Fresh EXCEPT !.phase = "failed"]]
           \/ client' = [client EXCEPT ![c] = [client[c] EXCEPT !.phase = "broken"]]
    PROVE  ShareInv'
<1>1. CASE client' = [client EXCEPT ![c] = [Fresh EXCEPT !.phase = "failed"]]
  <2>1. PICK m \in ClientState :
            /\ client' = [client EXCEPT ![c] = m] /\ m.version = 0 /\ m.phase = "failed"
            /\ \A i \in Pieces : m.parts[i] = NoPart
      BY <1>1, FreshFails, FreshTyped
  <2>2. Sane(m) /\ OneVersion(m)
      BY <2>1, Bounds DEF Sane, OneVersion, ShareInv, Typed, NodeState
  <2>3. client'[c] = m
      BY <2>1 DEF ShareInv, Typed
  <2>4. c \notin Beginners'
      BY <2>1, <2>3 DEF Beginners, AtBeginning, Held
  <2> QED
      BY <2>1, <2>2, <2>4, ClientMoves DEF ShareInv, Typed
<1>2. CASE client' = [client EXCEPT ![c] = [client[c] EXCEPT !.phase = "broken"]]
  <2>1. client[c] \in ClientState
      BY DEF ShareInv, Typed
  <2>2. PICK m \in ClientState :
            /\ client' = [client EXCEPT ![c] = m] /\ m.version = client[c].version
            /\ m.phase = "broken" /\ m.parts = client[c].parts /\ m.bare = client[c].bare
    <3>1. LET m == [client[c] EXCEPT !.phase = "broken"]
          IN  /\ m \in ClientState /\ m.version = client[c].version
              /\ m.phase = "broken" /\ m.parts = client[c].parts /\ m.bare = client[c].bare
        BY <2>1 DEF ClientState, Phase
    <3> QED
        BY <1>2, <3>1
  <2>3. Sane(m) /\ OneVersion(m)
      BY <2>2 DEF Sane, OneVersion, ShareInv
  <2>4. client'[c] = m
      BY <2>2 DEF ShareInv, Typed
  <2>5. c \in Beginners' => c \in Beginners
      BY <2>2, <2>4 DEF Beginners, AtBeginning, SentInPieces, Held
  <2> QED
      BY <2>2, <2>3, <2>5, ClientMoves DEF ShareInv, Typed
<1> QED
    BY <1>1, <1>2

LEMMA BrokenOffKeeps ==
    ASSUME ShareInv, NEW c \in Clients, BrokenOff(c),
           UNCHANGED <<backend, link, node>>, breaks' \in Nat
    PROVE  ShareInv'
<1>1. CASE c \in Scripts
    BY <1>1, GivingUpKeeps DEF BrokenOff
<1>2. CASE c \notin Scripts
  <2>1. client' = [client EXCEPT ![c] = [client[c] EXCEPT !.phase = "broken"]]
      BY <1>2 DEF BrokenOff, ShareInv, Typed
  <2> QED
      BY <2>1, GivingUpKeeps
<1> QED
    BY <1>1, <1>2

-----------------------------------------------------------------------------
\* Bodies

LEMMA ReceiveKeeps ==
    ASSUME ShareInv, NEW c \in Clients, Receive(c)
    PROVE  ShareInv'
<1> DEFINE parts == [client[c].parts EXCEPT ![client[c].next] = client[c].version]
           rest == client[c].next < client[c].last
           all == \A i \in Pieces : parts[i] # NoPart
           next == IF rest THEN client[c].next + 1 ELSE client[c].next
           phase == IF rest THEN client[c].phase ELSE IF all THEN "finished" ELSE "broken"
           m == [client[c] EXCEPT !.parts = parts, !.opened = TRUE, !.next = next, !.phase = phase]
<1>1. /\ client' = [client EXCEPT ![c] = m] /\ client[c] \in ClientState
      /\ UNCHANGED <<backend, link, node, breaks>> /\ client[c].phase = "receiving"
    BY DEF Receive, ShareInv, Typed
<1>2. /\ client[c].parts \in [Pieces -> Version \cup {NoPart}] /\ client[c].version \in Version
      /\ client[c].next \in Pieces /\ client[c].last \in Pieces
    BY <1>1 DEF ClientState
<1>3. /\ parts \in [Pieces -> Version \cup {NoPart}]
      /\ \A i \in Pieces : parts[i] = IF i = client[c].next THEN client[c].version
                                      ELSE client[c].parts[i]
    BY <1>2
<1>4. next \in Pieces /\ (phase = "receiving" => next # 1)
    BY <1>2, Bounds
<1>5. phase \in Phase /\ (phase = "finished" => \A i \in Pieces : parts[i] # NoPart)
    BY <1>1 DEF Phase
<1> HIDE DEF parts, next, phase
<1>6. /\ m \in ClientState /\ m.phase = phase /\ m.parts = parts /\ m.next = next
      /\ m.version = client[c].version /\ m.bare = client[c].bare
    BY <1>1, <1>3, <1>4, <1>5 DEF ClientState
<1> HIDE DEF m
<1>7. Sane(m) /\ OneVersion(m)
    BY <1>3, <1>5, <1>6 DEF Sane, OneVersion, ShareInv
<1>8. c \in Beginners' => c \in Beginners
  <2>1. client'[c] = m
      BY <1>1 DEF ShareInv, Typed
  <2>2. AtBeginning(c)' => AtBeginning(c)
      BY <1>1, <1>3, <1>4, <1>6, <2>1, Bounds DEF AtBeginning, Held
  <2> QED
      BY <1>1, <2>2 DEF Beginners, SentInPieces
<1> QED
    BY <1>1, <1>6, <1>7, <1>8, ClientMoves DEF ShareInv, Typed

LEMMA NextKeepsShareInv ==
    ASSUME ShareInv, [Next]_vars
    PROVE  ShareInv'
<1>1. CASE Owner
    BY <1>1, OwnerKeeps
<1>2. ASSUME NEW c \in Clients, Ask(c) PROVE ShareInv'
  <2>1. CASE Script(c)
      BY <2>1, ScriptKeeps
  <2>2. ASSUME NEW r \in Requests(c), Download(c, r) PROVE ShareInv'
      BY <2>2, DownloadKeeps
  <2>3. ASSUME NEW r \in Requests(c), Refuse(c, r) PROVE ShareInv'
      BY <2>3, GivingUpKeeps DEF Refuse, ShareInv, Typed
  <2> QED
      BY <1>2, <2>1, <2>2, <2>3 DEF Ask
<1>3. ASSUME NEW c \in Clients, Answer(c) \/ Break(c) PROVE ShareInv'
  <2>1. CASE Receive(c)
      BY <2>1, ReceiveKeeps
  <2>2. CASE BodyGone(c)
      BY <2>2, BrokenOffKeeps DEF BodyGone, ShareInv, Typed
  <2>3. CASE Break(c)
      BY <2>3, BrokenOffKeeps DEF Break, ShareInv, Typed
  <2> QED
      BY <1>3, <2>1, <2>2, <2>3 DEF Answer
<1>4. CASE UNCHANGED vars
    BY <1>4 DEF vars, ShareInv, Typed, Counted, Sane, OneVersion, Beginners, AtBeginning,
                SentInPieces, Held
<1> QED
    BY <1>1, <1>2, <1>3, <1>4 DEF Next

-----------------------------------------------------------------------------
\* The results

\* Whatever the owner, the people and the network do, a link, an item and a
\* client are in a state of the program.
THEOREM ShareTyped == Spec => []ShareTypeOK
<1>1. ShareInv => ShareTypeOK
  <2> SUFFICES ASSUME ShareInv PROVE ShareTypeOK
      OBVIOUS
  <2>1. link.count \in 0..link.limit
      BY BeginnersFinite, Bounds DEF ShareInv, Counted, Typed, LinkState
  <2> QED
      BY <2>1 DEF ShareInv, Typed, ShareTypeOK, ClientState, LinkState, NodeState, Phase
<1> QED
    BY <1>1, InitShareInv, NextKeepsShareInv, PTL DEF Spec

\* Nobody is sent the beginning of a body without being counted, and no more are counted
\* than the link allows, however many connections break and are resumed without being
\* counted again, and whatever range is asked for of a file that stays as it is
\* (services/shares.py: consume_download, is_range_continuation).
THEOREM CopiesNeverExceedLimit == Spec => []CopiesWithinLimit
<1>1. ShareInv => CopiesWithinLimit
    BY DEF CopiesWithinLimit, ShareInv, Counted, Beginners
<1> QED
    BY <1>1, InitShareInv, NextKeepsShareInv, PTL DEF Spec

\* What a client puts together from a local disk is one version of the file, however often
\* it was saved between two tries, unless the client did not say what it had
\* (services/serving.py, If-Range).
THEOREM LocalCopiesAreWhole == Spec => []LocalCopyIsOneVersion
<1>1. ShareInv => LocalCopyIsOneVersion
    BY DEF LocalCopyIsOneVersion, ShareInv, Sane, OneVersion
<1> QED
    BY <1>1, InitShareInv, NextKeepsShareInv, PTL DEF Spec
=============================================================================
