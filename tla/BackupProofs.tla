---------------------------- MODULE BackupProofs ----------------------------
(***************************************************************************)
(* A complete round can be restored, and the newest one is never lost, for  *)
(* any number of spaces, weeks and saves and however many runs die, as long *)
(* as one process makes the rounds and no two spaces share a name.  Without *)
(* these conditions: the shapes, and that two runs never pack at once.      *)
(***************************************************************************)
EXTENDS Backup, FiniteSetTheorems, WellFoundedInduction, TLAPS

OneRunner == Runners = {"loop"}
NamesDiffer == \A s, t \in Spaces : NameOf[s] = NameOf[t] => s = t

-----------------------------------------------------------------------------
\* The invariant

me == run["loop"]
Mine == StampFor(me.kind, me.t)
Ours == store[me.kind][Mine]

RunShape ==
    /\ run = [r \in Runners |-> run[r]]
    /\ me \in [at: {"idle", "check", "list", "pack", "manifest", "prune"}, kind: Kinds,
               t: 0..now, force: {FALSE}, items: SUBSET Tar]

Shapes ==
    /\ now \in 0..MaxNow
    /\ world \in [Spaces -> Version]
    /\ store = [k \in Kinds |-> [t \in Stamp |-> store[k][t]]]
    /\ \A k \in Kinds, t \in Stamp :
          store[k][t] = [tars |-> [n \in Names |-> store[k][t].tars[n]],
                         db |-> store[k][t].db, manifest |-> store[k][t].manifest]
    /\ RunShape

\* While a round is being made, nobody saves and the round has no manifest yet; what was
\* packed holds what is there.
Packing ==
    me.at \in {"pack", "manifest"} =>
        /\ lock = "loop" /\ Ours.manifest = {}
        /\ \A i \in me.items : /\ i.file \in {{}, {world[i.space]}}
                               /\ Ours.tars[NameOf[i.space]] = {i}
Listing == me.at = "list" => Ours.manifest = {} /\ me.items = {}
Checking == me.at = "check" => me.items = {}
Closing == me.at = "manifest" => Packed("loop") = Spaces /\ Ours.db = {world}

BackupInv == Shapes /\ Packing /\ Listing /\ Checking /\ Closing /\ CompleteIsRestorable

Restorable(round) ==
    /\ Intact(round)
    /\ \A m \in round.manifest, s \in Spaces : m.items[s].file # {} => Placed(round, s)

RoundShape(round) ==
    round = [tars |-> [n \in Names |-> round.tars[n]], db |-> round.db, manifest |-> round.manifest]

LEMMA Bounds == Month \in Nat /\ Month > 0 /\ MaxNow \in Nat /\ MaxVersion \in Nat
    BY BackupAssumption

LEMMA NoRoundIsFine == RoundShape(NoRound) /\ Restorable(NoRound) /\ NoRound.manifest = {}
    BY DEF NoRound, RoundShape, Restorable, Intact

LEMMA Restorables ==
    CompleteIsRestorable <=> \A k \in Kinds : \A t \in Stamp \ Surplus(k) : Restorable(store[k][t])
    BY DEF CompleteIsRestorable, Restorable

LEMMA StoreRemains ==
    ASSUME CompleteIsRestorable, UNCHANGED store
    PROVE  CompleteIsRestorable'
<1>1. \A k \in Kinds : Surplus(k)' = Surplus(k)
    BY DEF Surplus, ListStamps
<1>2. \A k \in Kinds : \A t \in Stamp \ Surplus(k)' : Restorable(store'[k][t])
    BY <1>1, Restorables
<1> QED
    BY <1>2 DEF CompleteIsRestorable, Restorable, Intact, Placed

LEMMA StampsAreFinite ==
    ASSUME NEW S \in SUBSET Stamp, NEW T \in SUBSET S
    PROVE  Cardinality(T) <= Cardinality(S) /\ Cardinality(S) \in Nat /\ Cardinality(T) \in Nat
<1>1. IsFiniteSet(Stamp)
    BY Bounds, FS_Interval DEF Stamp
<1>2. IsFiniteSet(S) /\ IsFiniteSet(T)
    BY <1>1, FS_Subset
<1> QED
    BY <1>2, FS_Subset, FS_CardinalityType

\* What is beyond the newest ones stays beyond them, as long as they are there.
LEMMA SurplusStays ==
    ASSUME NEW k \in Kinds, NEW t \in Surplus(k),
           \A v \in Stamp : v >= t /\ store[k][v] # NoRound => store'[k][v] # NoRound
    PROVE  t \in Surplus(k)'
<1> DEFINE old == {v \in ListStamps(k) : v >= t}
           new == {v \in ListStamps(k)' : v >= t}
<1>1. t \in Stamp /\ t \in Nat /\ store[k][t] # NoRound
      /\ Cardinality(old) > Keep[k] /\ Keep[k] \in Nat
    BY Bounds, BackupAssumption DEF Surplus, ListStamps, Stamp
<1>2. old \in SUBSET new /\ new \in SUBSET Stamp
    BY DEF ListStamps
<1>3. t \in ListStamps(k)'
    BY <1>1 DEF ListStamps
<1> HIDE DEF old, new
<1>4. Cardinality(new) > Keep[k]
    BY <1>1, <1>2, StampsAreFinite
<1> QED
    BY <1>3, <1>4 DEF Surplus, new

\* A round that is stored and can be restored leaves the others what they are.
LEMMA StoredIsRestorable ==
    ASSUME CompleteIsRestorable, NEW round, round # NoRound, Restorable(round),
           \A k \in Kinds, t \in Stamp : store'[k][t] = round \/ store'[k][t] = store[k][t]
    PROVE  CompleteIsRestorable'
<1>1. ASSUME NEW k \in Kinds, NEW t \in Stamp \ Surplus(k)'
      PROVE  Restorable(store'[k][t])
  <2>1. t \notin Surplus(k)
      BY <1>1, SurplusStays
  <2> QED
      BY <2>1, Restorables
<1> QED
    BY <1>1 DEF CompleteIsRestorable, Restorable, Intact, Placed

LEMMA NothingToRestore ==
    ASSUME NEW round, round.manifest = {}
    PROVE  Restorable(round)
    BY DEF Restorable, Intact

LEMMA StampIsOne ==
    ASSUME NEW k \in Kinds, NEW t \in 0..MaxNow
    PROVE  StampFor(k, t) \in Stamp
<1>1. t \div Month \in 0..t
    BY Bounds
<1> QED
    BY <1>1, Bounds DEF StampFor, Stamp

LEMMA InitBackupInv == OneRunner /\ Init => BackupInv
<1> SUFFICES ASSUME OneRunner, Init
             PROVE  BackupInv
    OBVIOUS
<1>1. run["loop"] = Idle
    BY DEF OneRunner, Init
<1>2. me = [at |-> "idle", kind |-> "weekly", t |-> 0, force |-> FALSE, items |-> {}]
    BY <1>1 DEF me, Idle
<1>3. RunShape
    BY <1>2, Bounds DEF RunShape, Init, Kinds
<1>4. Shapes
    BY <1>3, NoRoundIsFine, Bounds DEF Shapes, RoundShape, Init, Version, Stamp
<1>5. CompleteIsRestorable
    BY NoRoundIsFine, Restorables DEF Init
<1> QED
    BY <1>2, <1>4, <1>5 DEF BackupInv, Packing, Listing, Checking, Closing

-----------------------------------------------------------------------------
\* How the parts of the invariant are kept

LEMMA OneRun ==
    ASSUME OneRunner, Shapes, NEW m, run' = [run EXCEPT !["loop"] = m]
    PROVE  me' = m /\ run' = [r \in Runners |-> run'[r]]
    BY DEF OneRunner, Shapes, RunShape, me

LEMMA MeIsARun ==
    ASSUME Shapes
    PROVE  /\ me.kind \in Kinds /\ me.t \in 0..now /\ now \in 0..MaxNow /\ me.t \in 0..MaxNow
           /\ Mine \in Stamp /\ me.items \subseteq Tar /\ me.force = FALSE
<1>1. me.kind \in Kinds /\ me.t \in 0..now /\ now \in 0..MaxNow /\ me.items \subseteq Tar
      /\ me.force = FALSE
    BY DEF Shapes, RunShape
<1>2. me.t \in 0..MaxNow
    BY <1>1, Bounds
<1> QED
    BY <1>1, <1>2, StampIsOne DEF Mine

\* The round under way is the only one that changes, and it stays a round.
LEMMA OursChanges ==
    ASSUME Shapes, NEW round, RoundShape(round),
           store' = [store EXCEPT ![me.kind][Mine] = round]
    PROVE  /\ store' = [k \in Kinds |-> [t \in Stamp |-> store'[k][t]]]
           /\ \A k \in Kinds, t \in Stamp : RoundShape(store'[k][t])
           /\ store'[me.kind][Mine] = round
           /\ \A k \in Kinds, t \in Stamp :
                 store'[k][t] = round \/ store'[k][t] = store[k][t]
<1>1. me.kind \in Kinds /\ Mine \in Stamp
    BY MeIsARun
<1>2. store = [k \in Kinds |-> [t \in Stamp |-> store[k][t]]]
      /\ \A k \in Kinds, t \in Stamp : RoundShape(store[k][t])
    BY DEF Shapes, RoundShape
<1>3. \A k \in Kinds, t \in Stamp :
          store'[k][t] = IF k = me.kind /\ t = Mine THEN round ELSE store[k][t]
    BY <1>1, <1>2
<1>4. store' = [k \in Kinds |-> [t \in Stamp |-> store'[k][t]]]
    BY <1>1, <1>2
<1> QED
    BY <1>1, <1>2, <1>3, <1>4

\* A step of the world or of a run that is not packing.
LEMMA NothingPacked ==
    ASSUME OneRunner, BackupInv, NEW m, run' = [run EXCEPT !["loop"] = m],
           m \in [at: {"idle", "check", "prune"}, kind: Kinds, t: 0..now, force: {FALSE},
                  items: SUBSET Tar],
           m.at = "check" => m.items = {},
           UNCHANGED <<now, world, store>>
    PROVE  BackupInv'
<1>1. me' = m /\ run' = [r \in Runners |-> run'[r]]
    BY OneRun DEF BackupInv
<1>2. RunShape'
    BY <1>1 DEF RunShape
<1>3. Shapes'
    BY <1>2 DEF BackupInv, Shapes
<1>4. Packing' /\ Listing' /\ Checking' /\ Closing'
    BY <1>1 DEF Packing, Listing, Checking, Closing
<1>5. CompleteIsRestorable'
    BY StoreRemains DEF BackupInv
<1> QED
    BY <1>3, <1>4, <1>5 DEF BackupInv

-----------------------------------------------------------------------------
\* One lemma per action

LEMMA SameOurs ==
    ASSUME me' = me, UNCHANGED store
    PROVE  Ours' = Ours
<1>1. Mine' = Mine
    BY DEF Mine, StampFor
<1> QED
    BY <1>1 DEF Ours

LEMMA SaveKeeps ==
    ASSUME OneRunner, BackupInv, NEW s \in Spaces, Save(s)
    PROVE  BackupInv'
<1>1. lock = "free" /\ UNCHANGED <<now, lock, store, run>> /\ me' = me
    BY DEF Save, me
<1>2. world' \in [Spaces -> Version]
  <2>1. world[s] \in Version /\ world[s] < MaxVersion
      BY DEF Save, BackupInv, Shapes
  <2>2. world[s] + 1 \in Version
      BY <2>1, Bounds DEF Version
  <2> QED
      BY <2>2 DEF Save, BackupInv, Shapes
<1>3. me.at \notin {"pack", "manifest"}
    BY <1>1 DEF BackupInv, Packing
<1>4. RunShape'
    BY <1>1 DEF BackupInv, Shapes, RunShape
<1>5. Shapes'
    BY <1>1, <1>2, <1>4 DEF BackupInv, Shapes
<1>6. Packing' /\ Checking' /\ Closing'
    BY <1>1, <1>3 DEF BackupInv, Packing, Checking, Closing
<1>7. Listing'
    BY <1>1, SameOurs DEF BackupInv, Listing
<1>8. CompleteIsRestorable'
    BY <1>1, StoreRemains DEF BackupInv
<1> QED
    BY <1>5, <1>6, <1>7, <1>8 DEF BackupInv

LEMMA WeekKeeps ==
    ASSUME OneRunner, BackupInv, Week
    PROVE  BackupInv'
<1>1. UNCHANGED <<world, lock, store, run>> /\ me' = me
    BY DEF Week, me
<1>2. now' \in 0..MaxNow /\ now < now' /\ now \in 0..MaxNow
    BY Bounds DEF Week, BackupInv, Shapes
<1>3. RunShape'
  <2>1. 0..now \subseteq 0..now'
      BY <1>2, Bounds
  <2> QED
      BY <1>1, <2>1 DEF BackupInv, Shapes, RunShape
<1>4. Shapes'
    BY <1>1, <1>2, <1>3 DEF BackupInv, Shapes
<1>5. Packing' /\ Listing' /\ Checking' /\ Closing'
  <2>1. Ours' = Ours /\ Packed("loop")' = Packed("loop")
      BY <1>1, SameOurs DEF Packed
  <2>2. Packing'
      BY <1>1, <2>1 DEF BackupInv, Packing
  <2> QED
      BY <1>1, <2>1, <2>2 DEF BackupInv, Listing, Checking, Closing
<1>6. CompleteIsRestorable'
    BY <1>1, StoreRemains DEF BackupInv
<1> QED
    BY <1>4, <1>5, <1>6 DEF BackupInv

LEMMA StartKeeps ==
    ASSUME OneRunner, BackupInv, Start("loop")
    PROVE  BackupInv'
<1> DEFINE m == [at |-> "check", kind |-> "weekly", t |-> now, force |-> FALSE, items |-> {}]
<1>1. run' = [run EXCEPT !["loop"] = m]
    BY DEF Start, Idle
<1>2. now \in 0..now
    BY Bounds DEF BackupInv, Shapes
<1>3. m \in [at: {"idle", "check", "prune"}, kind: Kinds, t: 0..now, force: {FALSE},
             items: SUBSET Tar]
    BY <1>2 DEF Kinds
<1>4. UNCHANGED <<now, world, store>>
    BY DEF Start
<1> QED
    BY <1>1, <1>3, <1>4, NothingPacked

LEMMA NextKindKeeps ==
    ASSUME OneRunner, BackupInv, NextKind("loop"), UNCHANGED <<now, world, store>>
    PROVE  BackupInv'
<1>1. me \in [at: {"idle", "check", "list", "pack", "manifest", "prune"}, kind: Kinds,
              t: 0..now, force: {FALSE}, items: SUBSET Tar]
    BY DEF BackupInv, Shapes, RunShape
<1>2. CASE me.kind = "weekly"
  <2> DEFINE m == [me EXCEPT !.kind = "monthly", !.at = "check", !.items = {}]
  <2>1. run' = [run EXCEPT !["loop"] = m]
      BY <1>1, <1>2 DEF NextKind, me
  <2>2. m \in [at: {"idle", "check", "prune"}, kind: Kinds, t: 0..now, force: {FALSE},
               items: SUBSET Tar] /\ m.items = {}
      BY <1>1 DEF Kinds
  <2> QED
      BY <2>1, <2>2, NothingPacked
<1>3. CASE me.kind # "weekly"
  <2>1. run' = [run EXCEPT !["loop"] = Idle]
      BY <1>3 DEF NextKind, me
  <2>2. 0 \in 0..now
      BY Bounds DEF BackupInv, Shapes
  <2>3. Idle \in [at: {"idle", "check", "prune"}, kind: Kinds, t: 0..now, force: {FALSE},
                  items: SUBSET Tar] /\ Idle.items = {}
      BY <2>2 DEF Idle, Kinds
  <2> QED
      BY <2>1, <2>3, NothingPacked
<1> QED
    BY <1>2, <1>3

LEMMA DieKeeps ==
    ASSUME OneRunner, BackupInv, Die("loop")
    PROVE  BackupInv'
<1>1. run' = [run EXCEPT !["loop"] = Idle] /\ UNCHANGED <<now, world, store>>
    BY DEF Die
<1>2. 0 \in 0..now
    BY Bounds DEF BackupInv, Shapes
<1>3. Idle \in [at: {"idle", "check", "prune"}, kind: Kinds, t: 0..now, force: {FALSE},
                items: SUBSET Tar] /\ Idle.items = {}
    BY <1>2 DEF Idle, Kinds
<1> QED
    BY <1>1, <1>3, NothingPacked

\* The run goes on with the same round.
LEMMA SameRound ==
    ASSUME OneRunner, BackupInv, NEW at \in {"list", "pack", "manifest", "prune"},
           run' = [run EXCEPT !["loop"].at = at], UNCHANGED <<now, world>>
    PROVE  /\ me'.at = at /\ me'.kind = me.kind /\ me'.t = me.t /\ me'.items = me.items
           /\ Mine' = Mine /\ RunShape'
<1>1. me \in [at: {"idle", "check", "list", "pack", "manifest", "prune"}, kind: Kinds,
              t: 0..now, force: {FALSE}, items: SUBSET Tar]
    BY DEF BackupInv, Shapes, RunShape
<1> DEFINE m == [me EXCEPT !.at = at]
<1>2. run' = [run EXCEPT !["loop"] = m]
    BY <1>1 DEF me
<1>3. m \in [at: {"idle", "check", "list", "pack", "manifest", "prune"}, kind: Kinds,
             t: 0..now, force: {FALSE}, items: SUBSET Tar]
      /\ m.at = at /\ m.kind = me.kind /\ m.t = me.t /\ m.items = me.items
    BY <1>1
<1>4. me' = m /\ run' = [r \in Runners |-> run'[r]]
    BY <1>2, OneRun DEF BackupInv
<1>5. RunShape'
    BY <1>3, <1>4 DEF RunShape
<1> HIDE DEF m
<1> QED
    BY <1>3, <1>4, <1>5 DEF Mine, StampFor

LEMMA CheckKeeps ==
    ASSUME OneRunner, BackupInv, Check("loop")
    PROVE  BackupInv'
<1>1. me.at = "check" /\ me.items = {} /\ me.force = FALSE /\ UNCHANGED <<now, world, store>>
    BY MeIsARun DEF Check, me, BackupInv, Checking
<1>2. CASE IsMade("loop")
    BY <1>1, <1>2, NextKindKeeps DEF Check, me
<1>3. CASE ~ IsMade("loop")
  <2>1. run' = [run EXCEPT !["loop"].at = "list"] /\ Ours.manifest = {}
      BY <1>3 DEF Check, Goes, IsMade, Here, Ours, Mine, me
  <2>2. me'.at = "list" /\ me'.kind = me.kind /\ me'.t = me.t /\ me'.items = me.items
        /\ Mine' = Mine /\ RunShape'
      BY <1>1, <2>1, SameRound
  <2>3. Shapes'
      BY <1>1, <2>2 DEF BackupInv, Shapes
  <2>4. Ours' = Ours
      BY <1>1, <2>2 DEF Ours
  <2>5. Packing' /\ Listing' /\ Checking' /\ Closing'
    <3>1. Packing' /\ Checking' /\ Closing'
        BY <2>2 DEF Packing, Checking, Closing
    <3>2. Listing'
        BY <1>1, <2>1, <2>2, <2>4 DEF Listing
    <3> QED
        BY <3>1, <3>2
  <2>6. CompleteIsRestorable'
      BY <1>1, StoreRemains DEF BackupInv
  <2> QED
      BY <2>3, <2>5, <2>6 DEF BackupInv
<1> QED
    BY <1>2, <1>3

LEMMA ListKeeps ==
    ASSUME OneRunner, BackupInv, List("loop")
    PROVE  BackupInv'
<1>1. me.at = "list" /\ run' = [run EXCEPT !["loop"].at = "pack"] /\ lock' = "loop"
      /\ UNCHANGED <<now, world, store>>
    BY DEF List, Goes, me
<1>2. Ours.manifest = {} /\ me.items = {}
    BY <1>1 DEF BackupInv, Listing
<1>3. me'.at = "pack" /\ me'.kind = me.kind /\ me'.t = me.t /\ me'.items = me.items
      /\ Mine' = Mine /\ RunShape'
    BY <1>1, SameRound
<1>4. Shapes'
    BY <1>1, <1>3 DEF BackupInv, Shapes
<1>5. Ours' = Ours
    BY <1>1, <1>3 DEF Ours
<1>6. Packing' /\ Listing' /\ Checking' /\ Closing'
  <2>1. Listing' /\ Checking' /\ Closing'
      BY <1>3 DEF Listing, Checking, Closing
  <2>2. Packing'
      BY <1>1, <1>2, <1>3, <1>5 DEF Packing
  <2> QED
      BY <2>1, <2>2
<1>7. CompleteIsRestorable'
    BY <1>1, StoreRemains DEF BackupInv
<1> QED
    BY <1>4, <1>6, <1>7 DEF BackupInv

Below == OpToRel(<, Nat)

LEMMA BelowPairs ==
    ASSUME NEW x \in Nat, NEW y \in Nat, y < x
    PROVE  <<y, x>> \in Below
    BY DEF Below, OpToRel

LEMMA LeastOne ==
    ASSUME NEW T \in SUBSET Nat, T # {}
    PROVE  \E x \in T : \A y \in T : x <= y
<1>1. IsWellFoundedOn(Below, Nat)
    BY NatLessThanWellFounded DEF Below
<1> HIDE DEF Below
<1>2. PICK x \in T : \A y \in T : ~ (<<y, x>> \in Below)
    BY <1>1, WFMin
<1>3. ASSUME NEW y \in T
      PROVE  x <= y
  <2>1. x \in Nat /\ y \in Nat
      OBVIOUS
  <2>2. ~ (y < x)
      BY <1>2, <2>1, BelowPairs
  <2> QED
      BY <2>1, <2>2
<1> QED
    BY <1>3

LEMMA MinOf ==
    ASSUME NEW S \in SUBSET Stamp, S # {}
    PROVE  Min(S) \in S /\ \A y \in S : Min(S) <= y
<1>1. S \subseteq Nat
    BY Bounds DEF Stamp
<1>2. \E x \in S : \A y \in S : x <= y
    BY <1>1, LeastOne
<1> QED
    BY <1>2 DEF Min

\* One object or more of the oldest round beyond the newest ones goes.
Leaves(kind, u, left) ==
    /\ u \in Surplus(kind) /\ u \in Stamp /\ u \in Nat /\ left \in Left(store[kind][u])
    /\ \A t \in Surplus(kind) : u <= t /\ t \in Nat
    /\ store' = [store EXCEPT ![kind][u] = left]
    /\ \A k \in Kinds, t \in Stamp :
          store'[k][t] = IF k = kind /\ t = u THEN left ELSE store[k][t]
    /\ store' = [k \in Kinds |-> [t \in Stamp |-> store'[k][t]]]

LEMMA PruneLeaves ==
    ASSUME NEW r \in Runners, run[r].kind \in Kinds, Prune(r),
           store = [k \in Kinds |-> [t \in Stamp |-> store[k][t]]]
    PROVE  \E u, left : Leaves(run[r].kind, u, left)
<1> DEFINE kind == run[r].kind
           u == Min(Surplus(kind))
<1>1. /\ u \in Surplus(kind) /\ \A t \in Surplus(kind) : u <= t
      /\ Surplus(kind) \subseteq Stamp /\ Stamp \subseteq Nat
  <2>1. Surplus(kind) \in SUBSET Stamp /\ Surplus(kind) # {}
      BY DEF Prune, Surplus, ListStamps
  <2> QED
      BY <2>1, MinOf, Bounds DEF Stamp
<1>2. PICK left \in Left(store[kind][u]) : store' = [store EXCEPT ![kind][u] = left]
    BY DEF Prune
<1>3. kind \in Kinds
    OBVIOUS
<1> HIDE DEF u, kind
<1>4. /\ \A k \in Kinds, t \in Stamp :
            store'[k][t] = IF k = kind /\ t = u THEN left ELSE store[k][t]
      /\ store' = [k \in Kinds |-> [t \in Stamp |-> store'[k][t]]]
    BY <1>1, <1>2, <1>3
<1>5. Leaves(kind, u, left)
    BY <1>1, <1>2, <1>4 DEF Leaves
<1> QED
    BY <1>5 DEF kind

LEMMA LeftIsARound ==
    ASSUME NEW round, NEW left \in Left(round)
    PROVE  /\ RoundShape(left) /\ left.db \subseteq round.db /\ left.manifest \subseteq round.manifest
           /\ \A n \in Names : left.tars[n] \in {{}, round.tars[n]}
<1>1. PICK names \in SUBSET Names, db \in SUBSET round.db, manifest \in SUBSET round.manifest :
        left = [tars |-> [n \in Names |-> IF n \in names THEN {} ELSE round.tars[n]],
                db |-> db, manifest |-> manifest]
    BY DEF Left
<1>2. /\ left.tars = [n \in Names |-> IF n \in names THEN {} ELSE round.tars[n]]
      /\ left.db = db /\ left.manifest = manifest
    BY <1>1
<1>3. left.tars = [n \in Names |-> left.tars[n]]
    BY <1>2
<1>4. RoundShape(left)
    BY <1>1, <1>2, <1>3 DEF RoundShape
<1> QED
    BY <1>2, <1>4

LEMMA PruneKeeps ==
    ASSUME OneRunner, BackupInv, Prune("loop")
    PROVE  BackupInv'
<1>1. me.at = "prune" /\ me' = me /\ UNCHANGED <<now, world, run>>
    BY DEF Prune, me
<1>2. me.kind \in Kinds /\ "loop" \in Runners
      /\ store = [k \in Kinds |-> [t \in Stamp |-> store[k][t]]]
    BY MeIsARun DEF BackupInv, Shapes, OneRunner
<1>3. PICK u, left : Leaves(me.kind, u, left)
    BY <1>2, PruneLeaves DEF me
<1>4. /\ u \in Stamp /\ left \in Left(store[me.kind][u])
      /\ \A k \in Kinds, t \in Stamp :
            store'[k][t] = IF k = me.kind /\ t = u THEN left ELSE store[k][t]
      /\ store' = [k \in Kinds |-> [t \in Stamp |-> store'[k][t]]]
    BY <1>3 DEF Leaves
<1>5. Shapes'
  <2>1. \A k \in Kinds, t \in Stamp : RoundShape(store'[k][t])
    <3>1. \A k \in Kinds, t \in Stamp : RoundShape(store[k][t])
        BY DEF BackupInv, Shapes, RoundShape
    <3> QED
        BY <1>4, <3>1, LeftIsARound
  <2>2. RunShape'
      BY <1>1 DEF BackupInv, Shapes, RunShape
  <2> QED
      BY <1>1, <1>4, <2>1, <2>2 DEF BackupInv, Shapes, RoundShape
<1>6. Packing' /\ Listing' /\ Checking' /\ Closing'
    BY <1>1 DEF Packing, Listing, Checking, Closing
<1>7. ASSUME NEW k \in Kinds, NEW t \in Stamp \ Surplus(k)'
      PROVE  Restorable(store'[k][t])
  <2>1. CASE k = me.kind /\ t = u /\ left = NoRound
      BY <1>4, <2>1, NoRoundIsFine
  <2>2. CASE k = me.kind /\ t = u /\ left # NoRound
    <3>1. u \in Surplus(me.kind)
        BY <1>3 DEF Leaves
    <3>2. \A v \in Stamp : store[k][v] # NoRound => store'[k][v] # NoRound
        BY <1>4, <2>2
    <3> QED
        BY <1>7, <2>2, <3>1, <3>2, SurplusStays
  <2>3. CASE k # me.kind \/ t # u
    <3>1. t \notin Surplus(k)
      <4>1. SUFFICES ASSUME t \in Surplus(k)
                     PROVE  FALSE
          OBVIOUS
      <4>2. u \in Nat /\ t \in Nat /\ (k = me.kind => u < t)
        <5>1. u \in Nat /\ t \in Nat /\ (k = me.kind => u <= t)
            BY <1>3, <4>1, Bounds DEF Leaves, Stamp
        <5> QED
            BY <2>3, <5>1
      <4>3. \A v \in Stamp : v >= t => v \in Nat /\ (k = me.kind => v # u)
          BY <4>2, Bounds DEF Stamp
      <4>4. \A v \in Stamp : v >= t /\ store[k][v] # NoRound => store'[k][v] # NoRound
          BY <1>4, <4>3
      <4> QED
          BY <1>7, <4>1, <4>4, SurplusStays
    <3> QED
        BY <1>4, <2>3, <3>1, Restorables DEF BackupInv
  <2> QED
      BY <2>1, <2>2, <2>3
<1>8. CompleteIsRestorable'
    BY <1>7 DEF CompleteIsRestorable, Restorable, Intact, Placed
<1> QED
    BY <1>5, <1>6, <1>8 DEF BackupInv

\* An archive is packed.
LEMMA PackKeeps ==
    ASSUME OneRunner, NamesDiffer, BackupInv, NEW s \in Spaces, Pack("loop", s)
    PROVE  BackupInv'
<1>1. PICK tar : /\ tar \in {[space |-> s, file |-> {}], [space |-> s, file |-> {world[s]}]}
                 /\ store' = [store EXCEPT ![me.kind][Mine] =
                                  [Ours EXCEPT !.tars[NameOf[s]] = {tar}]]
                 /\ run' = [run EXCEPT !["loop"].items = me.items \cup {tar}]
    BY DEF Pack, Put, Here, Ours, Mine, me
<1>2. me.at = "pack" /\ UNCHANGED <<now, world, lock>>
      /\ \A i \in me.items : i.space # s
    BY DEF Pack, Packed, me
<1>3. tar \in Tar /\ tar.space = s /\ tar.file \in {{}, {world[s]}}
    BY <1>1 DEF Tar, BackupInv, Shapes
<1> DEFINE m == [me EXCEPT !.items = me.items \cup {tar}]
           round == [Ours EXCEPT !.tars[NameOf[s]] = {tar}]
<1>4. me \in [at: {"idle", "check", "list", "pack", "manifest", "prune"}, kind: Kinds,
              t: 0..now, force: {FALSE}, items: SUBSET Tar]
    BY DEF BackupInv, Shapes, RunShape
<1>5. run' = [run EXCEPT !["loop"] = m]
    BY <1>1 DEF me
<1>6. m \in [at: {"idle", "check", "list", "pack", "manifest", "prune"}, kind: Kinds,
             t: 0..now, force: {FALSE}, items: SUBSET Tar]
      /\ m.at = "pack" /\ m.kind = me.kind /\ m.t = me.t /\ m.items = me.items \cup {tar}
    BY <1>2, <1>3, <1>4
<1>7. me' = m /\ run' = [r \in Runners |-> run'[r]]
    BY <1>5, OneRun DEF BackupInv
<1>8. RunShape'
    BY <1>2, <1>6, <1>7 DEF RunShape
<1>9. /\ RoundShape(round) /\ round.manifest = Ours.manifest
      /\ \A n \in Names : round.tars[n] = IF n = NameOf[s] THEN {tar} ELSE Ours.tars[n]
  <2>1. Ours = [tars |-> [n \in Names |-> Ours.tars[n]], db |-> Ours.db, manifest |-> Ours.manifest]
      BY MeIsARun DEF BackupInv, Shapes, Ours
  <2>2. round = [tars |-> [[n \in Names |-> Ours.tars[n]] EXCEPT ![NameOf[s]] = {tar}],
                 db |-> Ours.db, manifest |-> Ours.manifest]
      BY <2>1
  <2>3. round.manifest = Ours.manifest /\ round.db = Ours.db
        /\ round.tars = [n \in Names |-> IF n = NameOf[s] THEN {tar} ELSE Ours.tars[n]]
      BY <2>2
  <2>4. \A n \in Names : round.tars[n] = IF n = NameOf[s] THEN {tar} ELSE Ours.tars[n]
      BY <2>3
  <2>5. round.tars = [n \in Names |-> round.tars[n]]
      BY <2>3
  <2>6. RoundShape(round)
      BY <2>2, <2>5 DEF RoundShape
  <2> QED
      BY <2>3, <2>4, <2>6
<1>10. store' = [store EXCEPT ![me.kind][Mine] = round]
    BY <1>1
<1> HIDE DEF m, round
<1>11. Mine' = Mine
    BY <1>6, <1>7 DEF Mine, StampFor
<1>12. /\ store' = [k \in Kinds |-> [t \in Stamp |-> store'[k][t]]]
       /\ \A k \in Kinds, t \in Stamp : RoundShape(store'[k][t])
       /\ Ours' = round
       /\ \A k \in Kinds, t \in Stamp :
             store'[k][t] = round \/ store'[k][t] = store[k][t]
    BY <1>6, <1>7, <1>9, <1>10, <1>11, OursChanges DEF BackupInv, Ours
<1>13. Shapes'
    BY <1>2, <1>8, <1>12 DEF BackupInv, Shapes, RoundShape
<1>14. Packing'
  <2>1. lock' = "loop" /\ Ours'.manifest = {}
      BY <1>2, <1>9, <1>12 DEF BackupInv, Packing
  <2>2. ASSUME NEW i \in me'.items
        PROVE  i.file \in {{}, {world'[i.space]}} /\ Ours'.tars[NameOf[i.space]] = {i}
    <3>1. NameOf[s] \in Names
        BY DEF Names
    <3>2. CASE i = tar
        BY <1>2, <1>3, <1>9, <1>12, <3>1, <3>2
    <3>3. CASE i \in me.items
      <4>1. i.file \in {{}, {world[i.space]}} /\ Ours.tars[NameOf[i.space]] = {i}
          BY <1>2, <3>3 DEF BackupInv, Packing
      <4>2. i.space \in Spaces
          BY <3>3, MeIsARun DEF BackupInv, Tar
      <4>3. NameOf[i.space] \in Names /\ NameOf[i.space] # NameOf[s]
          BY <1>2, <3>3, <4>2 DEF Names, NamesDiffer
      <4> QED
          BY <1>2, <1>9, <1>12, <4>1, <4>3
    <3> QED
        BY <1>6, <1>7, <2>2, <3>2, <3>3
  <2> QED
      BY <2>1, <2>2 DEF Packing
<1>15. Listing' /\ Checking' /\ Closing'
    BY <1>6, <1>7 DEF Listing, Checking, Closing
<1>16. CompleteIsRestorable'
  <2>1. Restorable(round)
      BY <1>2, <1>9, NothingToRestore DEF BackupInv, Packing
  <2>2. round # NoRound
    <3>1. NameOf[s] \in Names
        BY DEF Names
    <3>2. round.tars[NameOf[s]] = {tar} /\ NoRound.tars[NameOf[s]] = {}
        BY <1>9, <3>1 DEF NoRound
    <3> QED
        BY <3>2
  <2> QED
      BY <1>12, <2>1, <2>2, StoredIsRestorable DEF BackupInv
<1> QED
    BY <1>13, <1>14, <1>15, <1>16 DEF BackupInv

\* The database is copied.
LEMMA SnapshotKeeps ==
    ASSUME OneRunner, BackupInv, SnapshotDb("loop")
    PROVE  BackupInv'
<1> DEFINE round == [Ours EXCEPT !.db = {world}]
<1>1. /\ me.at = "pack" /\ Packed("loop") = Spaces /\ UNCHANGED <<now, world, lock>>
      /\ store' = [store EXCEPT ![me.kind][Mine] = round]
      /\ run' = [run EXCEPT !["loop"].at = "manifest"]
    BY DEF SnapshotDb, Goes, Put, Here, Ours, Mine, me
<1>2. me'.at = "manifest" /\ me'.kind = me.kind /\ me'.t = me.t /\ me'.items = me.items
      /\ Mine' = Mine /\ RunShape'
    BY <1>1, SameRound
<1>3. /\ RoundShape(round) /\ round.manifest = Ours.manifest /\ round.tars = Ours.tars
      /\ round.db = {world}
  <2>1. Ours = [tars |-> [n \in Names |-> Ours.tars[n]], db |-> Ours.db, manifest |-> Ours.manifest]
      BY MeIsARun DEF BackupInv, Shapes, Ours
  <2>2. round = [tars |-> [n \in Names |-> Ours.tars[n]], db |-> {world},
                 manifest |-> Ours.manifest]
      BY <2>1
  <2>3. round.manifest = Ours.manifest /\ round.db = {world}
        /\ round.tars = [n \in Names |-> Ours.tars[n]]
      BY <2>2
  <2>4. Ours.tars = [n \in Names |-> Ours.tars[n]]
      BY <2>1
  <2> QED
      BY <2>2, <2>3, <2>4 DEF RoundShape
<1> HIDE DEF round
<1>4. /\ store' = [k \in Kinds |-> [t \in Stamp |-> store'[k][t]]]
      /\ \A k \in Kinds, t \in Stamp : RoundShape(store'[k][t])
      /\ Ours' = round
      /\ \A k \in Kinds, t \in Stamp :
            store'[k][t] = round \/ store'[k][t] = store[k][t]
    BY <1>1, <1>2, <1>3, OursChanges DEF BackupInv, Ours
<1>5. Shapes'
    BY <1>1, <1>2, <1>4 DEF BackupInv, Shapes, RoundShape
<1>6. Packing'
    BY <1>1, <1>2, <1>3, <1>4 DEF BackupInv, Packing
<1>7. Listing' /\ Checking'
    BY <1>2 DEF Listing, Checking
<1>8. Closing'
  <2>1. Packed("loop")' = Packed("loop")
      BY <1>2 DEF Packed, me
  <2> QED
      BY <1>1, <1>3, <1>4, <2>1 DEF Closing
<1>9. CompleteIsRestorable'
  <2>1. Restorable(round)
      BY <1>1, <1>3, NothingToRestore DEF BackupInv, Packing
  <2>2. round # NoRound
      BY <1>3 DEF NoRound
  <2> QED
      BY <1>4, <2>1, <2>2, StoredIsRestorable DEF BackupInv
<1> QED
    BY <1>5, <1>6, <1>7, <1>8, <1>9 DEF BackupInv

\* The manifest makes the round complete, and nothing has been saved since the first
\* archive was packed.
LEMMA ManifestKeeps ==
    ASSUME OneRunner, BackupInv, Manifest("loop")
    PROVE  BackupInv'
<1> DEFINE item(s) == CHOOSE i \in me.items : i.space = s
           entry == [items |-> [s \in Spaces |-> item(s)], db |-> world]
           round == [Ours EXCEPT !.manifest = {entry}]
<1>1. /\ me.at = "manifest" /\ UNCHANGED <<now, world, lock>>
      /\ store' = [store EXCEPT ![me.kind][Mine] = round]
      /\ run' = [run EXCEPT !["loop"].at = "prune"]
    BY DEF Manifest, Goes, Put, Here, Ours, Mine, me
<1>2. me'.at = "prune" /\ me'.kind = me.kind /\ me'.t = me.t /\ me'.items = me.items
      /\ Mine' = Mine /\ RunShape'
    BY <1>1, SameRound
<1>3. /\ RoundShape(round) /\ round.manifest = {entry} /\ round.tars = Ours.tars
      /\ round.db = Ours.db
  <2>1. Ours = [tars |-> [n \in Names |-> Ours.tars[n]], db |-> Ours.db, manifest |-> Ours.manifest]
      BY MeIsARun DEF BackupInv, Shapes, Ours
  <2> HIDE DEF entry
  <2>2. round = [tars |-> [n \in Names |-> Ours.tars[n]], db |-> Ours.db, manifest |-> {entry}]
      BY <2>1
  <2>3. round.manifest = {entry} /\ round.db = Ours.db
        /\ round.tars = [n \in Names |-> Ours.tars[n]]
      BY <2>2
  <2>4. Ours.tars = [n \in Names |-> Ours.tars[n]]
      BY <2>1
  <2> QED
      BY <2>2, <2>3, <2>4 DEF RoundShape
<1>4. ASSUME NEW s \in Spaces
      PROVE  /\ item(s) \in me.items /\ item(s).space = s
             /\ Ours.tars[NameOf[s]] = {item(s)} /\ item(s).file \in {{}, {world[s]}}
  <2>1. \E i \in me.items : i.space = s
      BY <1>1 DEF BackupInv, Closing, Packed, me
  <2>2. item(s) \in me.items /\ item(s).space = s
      BY <2>1
  <2> QED
      BY <1>1, <2>2 DEF BackupInv, Packing
<1>5. entry.db = world /\ \A s \in Spaces : entry.items[s] = item(s)
    OBVIOUS
<1>6. Restorable(round)
  <2> HIDE DEF item, entry, round
  <2>1. Intact(round)
      BY <1>1, <1>3, <1>4, <1>5 DEF Intact, BackupInv, Closing
  <2>2. ASSUME NEW s \in Spaces, entry.items[s].file # {}
        PROVE  Placed(round, s)
      BY <1>3, <1>4, <1>5, <2>2 DEF Placed
  <2> QED
      BY <1>3, <2>1, <2>2 DEF Restorable
<1> HIDE DEF item, entry, round
<1>7. /\ store' = [k \in Kinds |-> [t \in Stamp |-> store'[k][t]]]
      /\ \A k \in Kinds, t \in Stamp : RoundShape(store'[k][t])
      /\ \A k \in Kinds, t \in Stamp :
            store'[k][t] = round \/ store'[k][t] = store[k][t]
    BY <1>1, <1>3, OursChanges DEF BackupInv
<1>8. Shapes'
    BY <1>1, <1>2, <1>7 DEF BackupInv, Shapes, RoundShape
<1>9. Packing' /\ Listing' /\ Checking' /\ Closing'
    BY <1>2 DEF Packing, Listing, Checking, Closing
<1>10. CompleteIsRestorable'
  <2>1. round # NoRound
      BY <1>3 DEF NoRound
  <2> QED
      BY <1>6, <1>7, <2>1, StoredIsRestorable DEF BackupInv
<1> QED
    BY <1>8, <1>9, <1>10 DEF BackupInv

LEMMA BackupStep ==
    ASSUME OneRunner, NamesDiffer
    PROVE  BackupInv /\ [Next]_vars => BackupInv'
<1> SUFFICES ASSUME BackupInv, [Next]_vars
             PROVE  BackupInv'
    OBVIOUS
<1>1. CASE Step("loop") \/ Die("loop")
  <2>1. CASE Pruned("loop")
      BY <2>1, NextKindKeeps DEF Pruned
  <2> QED
      BY <1>1, <2>1, StartKeeps, CheckKeeps, ListKeeps, PackKeeps, SnapshotKeeps, ManifestKeeps,
         PruneKeeps, DieKeeps DEF Step
<1>2. CASE UNCHANGED vars
  <2>1. me' = me /\ UNCHANGED <<now, world, lock, store, run>>
      BY <1>2 DEF vars, me
  <2>2. Shapes'
    <3>1. RunShape'
        BY <2>1 DEF BackupInv, Shapes, RunShape
    <3> QED
        BY <2>1, <3>1 DEF BackupInv, Shapes
  <2>3. Ours' = Ours /\ Packed("loop")' = Packed("loop")
      BY <2>1, SameOurs DEF Packed
  <2>4. Packing'
      BY <2>1, <2>3 DEF BackupInv, Packing
  <2>5. Listing' /\ Checking' /\ Closing'
      BY <2>1, <2>3 DEF BackupInv, Listing, Checking, Closing
  <2>6. CompleteIsRestorable'
      BY <2>1, StoreRemains DEF BackupInv
  <2> QED
      BY <2>2, <2>4, <2>5, <2>6 DEF BackupInv
<1> QED
    BY <1>1, <1>2, SaveKeeps, WeekKeeps DEF Next, OneRunner

-----------------------------------------------------------------------------
\* A round with a manifest is what the manifest says and gives back every file that could
\* be read, as the database of the same round knows it (backup.py:356): for any number of
\* spaces, weeks, saves and failures, as long as the loop alone makes the rounds and the
\* spaces have names of their own.  BackupHand.cfg and BackupNames.cfg show that neither
\* condition can be dropped.
THEOREM RoundsAreRestorable == OneRunner /\ NamesDiffer => (Spec => []CompleteIsRestorable)
<1> SUFFICES ASSUME OneRunner, NamesDiffer
             PROVE  Spec => []CompleteIsRestorable
    OBVIOUS
<1>1. Init => BackupInv
    BY InitBackupInv
<1>2. BackupInv /\ [Next]_vars => BackupInv'
    BY BackupStep
<1>3. BackupInv => CompleteIsRestorable
    BY DEF BackupInv
<1> QED
    BY <1>1, <1>2, <1>3, PTL DEF Spec

-----------------------------------------------------------------------------
\* The newest round

\* No round lies in the future, and none after the one that a run is making; while a run
\* prunes, its own round is complete.
Past == \A k \in Kinds, t \in Stamp : store[k][t] # NoRound => t <= StampFor(k, now)
Recent ==
    me.at # "idle" => \A k \in Kinds, t \in Stamp : store[k][t] # NoRound => t <= StampFor(k, me.t)
Pruning == me.at = "prune" => Ours.manifest # {}
NewestInv == Past /\ Recent /\ Pruning

Completed(k) == {t \in Stamp : store[k][t].manifest # {}}

LEMMA MaxOf ==
    ASSUME NEW S \in SUBSET Stamp
    PROVE  /\ Max({-1} \cup S) \in {-1} \cup S /\ Max({-1} \cup S) \in Int
           /\ \A t \in S : t <= Max({-1} \cup S)
<1> DEFINE A == {-1} \cup S
           T == {MaxNow - a : a \in A}
<1>1. A \subseteq Int /\ \A a \in A : a <= MaxNow
    BY Bounds DEF Stamp
<1>2. T \subseteq Nat /\ T # {}
    BY <1>1, Bounds
<1>3. PICK x \in T : \A y \in T : x <= y
    BY <1>2, LeastOne
<1>4. PICK a \in A : x = MaxNow - a
    OBVIOUS
<1>5. \A b \in A : a >= b
  <2> SUFFICES ASSUME NEW b \in A
               PROVE  a >= b
      OBVIOUS
  <2>1. MaxNow - b \in T
      OBVIOUS
  <2>2. MaxNow - a <= MaxNow - b
      BY <1>3, <1>4, <2>1
  <2> QED
      BY <1>1, <2>2, Bounds
<1>6. Max(A) \in A /\ \A b \in A : Max(A) >= b
    BY <1>5 DEF Max
<1> QED
    BY <1>1, <1>6

LEMMA NewestOf == ASSUME NEW k PROVE Newest(k) = Max({-1} \cup Completed(k))
    BY DEF Newest, Completed, Complete

LEMMA NewestGrows ==
    ASSUME NEW S \in SUBSET Stamp, NEW T \in SUBSET Stamp,
           \/ S \subseteq T
           \/ \E t \in T : \A u \in S : u <= t
    PROVE  Max({-1} \cup T) >= Max({-1} \cup S)
<1>1. /\ Max({-1} \cup S) \in {-1} \cup S /\ Max({-1} \cup S) \in Int
      /\ Max({-1} \cup T) \in {-1} \cup T /\ Max({-1} \cup T) \in Int
      /\ \A t \in T : t <= Max({-1} \cup T)
    BY MaxOf
<1>2. \A t \in Stamp : t \in Nat
    BY Bounds DEF Stamp
<1> QED
    BY <1>1, <1>2

LEMMA LaterStamp ==
    ASSUME NEW k \in Kinds, NEW a \in Nat, NEW b \in Nat, a <= b
    PROVE  StampFor(k, a) <= StampFor(k, b) /\ StampFor(k, a) \in Nat /\ StampFor(k, b) \in Nat
<1>1. Month \in Nat /\ Month > 0
    BY Bounds
<1>2. a \div Month <= b \div Month /\ a \div Month \in Nat /\ b \div Month \in Nat
    BY <1>1
<1> QED
    BY <1>2 DEF StampFor

\* Nothing is stored.
LEMMA QuietStep ==
    ASSUME BackupInv, NewestInv, UNCHANGED store, now' \in 0..MaxNow, now <= now',
           \/ me'.at = "idle"
           \/ me' = me
           \/ me.at # "idle" /\ me'.at # "prune" /\ me'.t = me.t
           \/ me'.at = "check" /\ me'.t = now
    PROVE  NewestInv' /\ \A k \in Kinds : Newest(k)' >= Newest(k)
<1>1. now \in Nat /\ now' \in Nat
    BY Bounds DEF BackupInv, Shapes
<1>2. Past'
  <2> SUFFICES ASSUME NEW k \in Kinds, NEW t \in Stamp, store[k][t] # NoRound
               PROVE  t <= StampFor(k, now')
      BY DEF Past, StampFor
  <2>1. t <= StampFor(k, now) /\ t \in Nat
      BY Bounds DEF NewestInv, Past, Stamp
  <2> QED
      BY <1>1, <2>1, LaterStamp
<1>3. Recent'
    BY <1>1 DEF NewestInv, Past, Recent, StampFor
<1>4. Pruning'
  <2>1. CASE me' = me
      BY <2>1, SameOurs DEF NewestInv, Pruning
  <2>2. CASE me'.at # "prune"
      BY <2>2 DEF Pruning
  <2> QED
      BY <2>1, <2>2
<1>5. ASSUME NEW k \in Kinds
      PROVE  Newest(k)' >= Newest(k)
  <2>1. Newest(k)' = Newest(k)
      BY DEF Newest, Complete
  <2>2. Newest(k) \in Int
      BY NewestOf, MaxOf DEF Completed
  <2> QED
      BY <2>1, <2>2
<1> QED
    BY <1>2, <1>3, <1>4, <1>5 DEF NewestInv

\* An object of the round under way is stored.
LEMMA StoringStep ==
    ASSUME BackupInv, NewestInv, NEW round, RoundShape(round),
           store' = [store EXCEPT ![me.kind][Mine] = round],
           Ours.manifest # {} => round.manifest # {},
           me.at # "idle", me'.t = me.t, me'.kind = me.kind, now' = now,
           me'.at = "prune" => round.manifest # {}
    PROVE  NewestInv' /\ \A k \in Kinds : Newest(k)' >= Newest(k)
<1>1. /\ \A k \in Kinds, t \in Stamp :
            \/ store'[k][t] = store[k][t]
            \/ k = me.kind /\ t = Mine /\ store'[k][t] = round
      /\ store'[me.kind][Mine] = round
  <2>1. store = [k \in Kinds |-> [t \in Stamp |-> store[k][t]]]
      BY DEF BackupInv, Shapes
  <2>2. me.kind \in Kinds /\ Mine \in Stamp
      BY MeIsARun DEF BackupInv
  <2> QED
      BY <2>1, <2>2
<1>2. me.t \in Nat /\ now \in Nat /\ me.t <= now /\ me.kind \in Kinds /\ Mine \in Stamp
    BY MeIsARun, Bounds DEF BackupInv
<1>3. Mine <= StampFor(me.kind, now) /\ Mine = StampFor(me.kind, me.t)
    BY <1>2, LaterStamp DEF Mine
<1>4. Mine <= StampFor(me.kind, me.t)
    BY <1>2, LaterStamp DEF Mine
<1>5. Past'
  <2> SUFFICES ASSUME NEW k \in Kinds, NEW t \in Stamp, store'[k][t] # NoRound
               PROVE  t <= StampFor(k, now)
      BY DEF Past, StampFor
  <2> QED
      BY <1>1, <1>3 DEF NewestInv, Past
<1>6. Recent'
  <2> SUFFICES ASSUME NEW k \in Kinds, NEW t \in Stamp, store'[k][t] # NoRound
               PROVE  t <= StampFor(k, me.t)
      BY DEF Recent, StampFor
  <2> QED
      BY <1>1, <1>4 DEF NewestInv, Recent
<1>7. Pruning'
  <2>1. Ours' = round
      BY <1>1 DEF Ours, Mine, StampFor
  <2> QED
      BY <2>1 DEF Pruning
<1>8. ASSUME NEW k \in Kinds
      PROVE  Newest(k)' >= Newest(k)
  <2> DEFINE T == {t \in Stamp : store'[k][t].manifest # {}}
  <2>1. Completed(k) \subseteq T
      BY <1>1 DEF Completed, Ours
  <2>2. Newest(k)' = Max({-1} \cup T)
      BY DEF Newest, Complete
  <2>3. Completed(k) \subseteq Stamp /\ T \subseteq Stamp
      BY DEF Completed
  <2> HIDE DEF T
  <2> QED
      BY <2>1, <2>2, <2>3, NewestGrows, NewestOf
<1> QED
    BY <1>5, <1>6, <1>7, <1>8 DEF NewestInv

\* A round is pruned: never the one that was just made, which is the newest.
LEMMA PruneStep ==
    ASSUME OneRunner, BackupInv, NewestInv, Prune("loop")
    PROVE  NewestInv' /\ \A k \in Kinds : Newest(k)' >= Newest(k)
<1> DEFINE S == Surplus(me.kind)
<1>1. me.at = "prune" /\ me' = me /\ now' = now
    BY DEF Prune, me
<1>2. me.kind \in Kinds /\ Mine \in Stamp /\ Ours.manifest # {}
      /\ store = [k \in Kinds |-> [t \in Stamp |-> store[k][t]]]
    BY <1>1, MeIsARun DEF BackupInv, Shapes, NewestInv, Pruning
<1>3. PICK u, left : Leaves(me.kind, u, left)
    BY <1>2, PruneLeaves DEF me, OneRunner
<1>4. /\ u \in S /\ u \in Stamp /\ u \in Nat
      /\ \A k \in Kinds, t \in Stamp :
          store'[k][t] = IF k = me.kind /\ t = u THEN left ELSE store[k][t]
    BY <1>3 DEF Leaves
<1>5. \A t \in ListStamps(me.kind) : t <= Mine /\ t \in Stamp
    BY <1>1, <1>2 DEF NewestInv, Recent, ListStamps, Mine
<1>6. u # Mine
  <2> SUFFICES ASSUME u = Mine
               PROVE  FALSE
      OBVIOUS
  <2> DEFINE L == {v \in ListStamps(me.kind) : v >= u}
  <2>1. Cardinality(L) > Keep[me.kind] /\ u \in L
    <3>1. Cardinality({v \in ListStamps(me.kind) : v >= u}) > Keep[me.kind]
          /\ u \in ListStamps(me.kind)
        BY <1>4 DEF Surplus
    <3> QED
        BY <1>4, <3>1
  <2>2. L \subseteq {Mine}
    <3> SUFFICES ASSUME NEW v \in L
                 PROVE  v = Mine
        OBVIOUS
    <3>1. v <= Mine /\ v \in Nat /\ Mine \in Nat
        BY <1>2, <1>5, Bounds DEF Stamp
    <3> QED
        BY <3>1
  <2>3. L = {Mine}
      BY <2>1, <2>2
  <2>4. Cardinality(L) = 1
      BY <2>3, FS_Singleton
  <2>5. Keep[me.kind] \in Nat /\ Keep[me.kind] > 0
      BY <1>2, BackupAssumption
  <2> QED
      BY <2>1, <2>4, <2>5
<1>7. u \in Stamp /\ store[me.kind][u] # NoRound
    BY <1>4 DEF Surplus, ListStamps
<1> HIDE DEF S
<1>8. Past' /\ Recent'
  <2>1. \A k \in Kinds, t \in Stamp : store'[k][t] # NoRound => store[k][t] # NoRound
      BY <1>4, <1>7
  <2> QED
      BY <1>1, <2>1 DEF NewestInv, Past, Recent, StampFor
<1>9. Pruning'
  <2>1. Ours' = Ours
      BY <1>1, <1>2, <1>6, <1>4 DEF Ours, Mine, StampFor
  <2> QED
      BY <1>2, <2>1 DEF Pruning
<1>10. ASSUME NEW k \in Kinds
      PROVE  Newest(k)' >= Newest(k)
  <2> DEFINE T == {t \in Stamp : store'[k][t].manifest # {}}
  <2>1. Newest(k)' = Max({-1} \cup T)
      BY DEF Newest, Complete
  <2>2. Completed(k) \subseteq Stamp /\ T \subseteq Stamp
      BY DEF Completed
  <2>3. Completed(k) \subseteq T \/ \E t \in T : \A v \in Completed(k) : v <= t
    <3>1. CASE k # me.kind
        BY <1>4, <3>1 DEF Completed
    <3>2. CASE k = me.kind
      <4>1. Mine \in T
          BY <1>2, <1>6, <1>4, <3>2 DEF Ours
      <4>2. \A t \in Completed(k) : t <= Mine
          BY <1>5, <3>2, NoRoundIsFine DEF Completed, ListStamps
      <4> QED
          BY <4>1, <4>2
    <3> QED
        BY <3>1, <3>2
  <2> HIDE DEF T
  <2> QED
      BY <2>1, <2>2, <2>3, NewestGrows, NewestOf
<1> QED
    BY <1>8, <1>9, <1>10 DEF NewestInv

LEMMA NextKindStep ==
    ASSUME OneRunner, BackupInv, NewestInv, NextKind("loop"), me.at # "idle",
           UNCHANGED <<now, world, store>>
    PROVE  NewestInv' /\ \A k \in Kinds : Newest(k)' >= Newest(k)
<1>1. me \in [at: {"idle", "check", "list", "pack", "manifest", "prune"}, kind: Kinds,
              t: 0..now, force: {FALSE}, items: SUBSET Tar]
    BY DEF BackupInv, Shapes, RunShape
<1>2. me'.at = "idle" \/ (me'.at = "check" /\ me'.t = me.t)
  <2>1. CASE me.kind = "weekly"
    <3> DEFINE m == [me EXCEPT !.kind = "monthly", !.at = "check", !.items = {}]
    <3>1. run' = [run EXCEPT !["loop"] = m]
        BY <1>1, <2>1 DEF NextKind, me
    <3>2. me' = m
        BY <3>1, OneRun DEF BackupInv
    <3> QED
        BY <1>1, <3>2
  <2>2. CASE me.kind # "weekly"
    <3>1. run' = [run EXCEPT !["loop"] = Idle]
        BY <2>2 DEF NextKind, me
    <3>2. me' = Idle
        BY <3>1, OneRun DEF BackupInv
    <3> QED
        BY <3>2 DEF Idle
  <2> QED
      BY <2>1, <2>2
<1>3. now \in 0..MaxNow /\ now \in Nat
    BY Bounds DEF BackupInv, Shapes
<1> QED
    BY <1>2, <1>3, QuietStep

LEMMA NewestStep ==
    ASSUME OneRunner, BackupInv, NewestInv, Step("loop")
    PROVE  NewestInv' /\ \A k \in Kinds : Newest(k)' >= Newest(k)
<1>1. now \in 0..MaxNow /\ now \in Nat
    BY Bounds DEF BackupInv, Shapes
<1>2. CASE Start("loop")
  <2> DEFINE m == [at |-> "check", kind |-> "weekly", t |-> now, force |-> FALSE, items |-> {}]
  <2>1. run' = [run EXCEPT !["loop"] = m]
      BY <1>2 DEF Start, Idle
  <2>2. me' = m
      BY <2>1, OneRun DEF BackupInv
  <2>3. UNCHANGED <<now, world, store>>
      BY <1>2 DEF Start
  <2> QED
      BY <1>1, <2>2, <2>3, QuietStep
<1>3. CASE Check("loop")
  <2>1. me.at = "check" /\ UNCHANGED <<now, world, store>>
        /\ (NextKind("loop") \/ run' = [run EXCEPT !["loop"].at = "list"])
      BY <1>3 DEF Check, Goes, me
  <2>2. CASE NextKind("loop")
      BY <2>1, <2>2, NextKindStep
  <2>3. CASE run' = [run EXCEPT !["loop"].at = "list"]
    <3>1. me'.at = "list" /\ me'.t = me.t
        BY <2>1, <2>3, SameRound
    <3> QED
        BY <1>1, <2>1, <3>1, QuietStep
  <2> QED
      BY <2>1, <2>2, <2>3
<1>4. CASE List("loop")
  <2>1. me.at = "list" /\ run' = [run EXCEPT !["loop"].at = "pack"] /\ UNCHANGED <<now, world, store>>
      BY <1>4 DEF List, Goes, me
  <2>2. me'.at = "pack" /\ me'.t = me.t
      BY <2>1, SameRound
  <2> QED
      BY <1>1, <2>1, <2>2, QuietStep
<1>5. Ours = [tars |-> [n \in Names |-> Ours.tars[n]], db |-> Ours.db, manifest |-> Ours.manifest]
    BY MeIsARun DEF BackupInv, Shapes, Ours
<1>6. ASSUME NEW s \in Spaces, Pack("loop", s)
      PROVE  NewestInv' /\ \A k \in Kinds : Newest(k)' >= Newest(k)
  <2>1. PICK tar : /\ store' = [store EXCEPT ![me.kind][Mine] =
                                    [Ours EXCEPT !.tars[NameOf[s]] = {tar}]]
                   /\ run' = [run EXCEPT !["loop"].items = me.items \cup {tar}]
      BY <1>6 DEF Pack, Put, Here, Ours, Mine, me
  <2> DEFINE m == [me EXCEPT !.items = me.items \cup {tar}]
             round == [Ours EXCEPT !.tars[NameOf[s]] = {tar}]
  <2>2. me.at = "pack" /\ UNCHANGED <<now, world>>
      BY <1>6 DEF Pack, me
  <2>3. me'.at = "pack" /\ me'.t = me.t /\ me'.kind = me.kind
    <3>1. me \in [at: {"idle", "check", "list", "pack", "manifest", "prune"}, kind: Kinds,
                  t: 0..now, force: {FALSE}, items: SUBSET Tar]
        BY DEF BackupInv, Shapes, RunShape
    <3>2. run' = [run EXCEPT !["loop"] = m]
        BY <2>1 DEF me
    <3>3. me' = m
        BY <3>2, OneRun DEF BackupInv
    <3> QED
        BY <2>2, <3>1, <3>3
  <2>4. RoundShape(round) /\ round.manifest = Ours.manifest
    <3>1. round = [tars |-> [[n \in Names |-> Ours.tars[n]] EXCEPT ![NameOf[s]] = {tar}],
                   db |-> Ours.db, manifest |-> Ours.manifest]
        BY <1>5
    <3>2. round.tars = [n \in Names |-> IF n = NameOf[s] THEN {tar} ELSE Ours.tars[n]]
          /\ round.db = Ours.db /\ round.manifest = Ours.manifest
        BY <3>1
    <3>3. round.tars = [n \in Names |-> round.tars[n]]
        BY <3>2
    <3> QED
        BY <3>1, <3>2, <3>3 DEF RoundShape
  <2>5. store' = [store EXCEPT ![me.kind][Mine] = round]
      BY <2>1
  <2> HIDE DEF round
  <2> QED
      BY <2>2, <2>3, <2>4, <2>5, StoringStep
<1>7. CASE SnapshotDb("loop")
  <2> DEFINE round == [Ours EXCEPT !.db = {world}]
  <2>1. /\ me.at = "pack" /\ UNCHANGED <<now, world>>
        /\ store' = [store EXCEPT ![me.kind][Mine] = round]
        /\ run' = [run EXCEPT !["loop"].at = "manifest"]
      BY <1>7 DEF SnapshotDb, Goes, Put, Here, Ours, Mine, me
  <2>2. me'.at = "manifest" /\ me'.kind = me.kind /\ me'.t = me.t
      BY <2>1, SameRound
  <2>3. RoundShape(round) /\ round.manifest = Ours.manifest
    <3>1. round = [tars |-> [n \in Names |-> Ours.tars[n]], db |-> {world},
                   manifest |-> Ours.manifest]
        BY <1>5
    <3>2. round.tars = [n \in Names |-> Ours.tars[n]] /\ round.db = {world}
          /\ round.manifest = Ours.manifest
        BY <3>1
    <3>3. round.tars = [n \in Names |-> round.tars[n]]
        BY <3>2
    <3> QED
        BY <3>1, <3>2, <3>3 DEF RoundShape
  <2> HIDE DEF round
  <2> QED
      BY <2>1, <2>2, <2>3, StoringStep
<1>8. CASE Manifest("loop")
  <2> DEFINE entry == [items |-> [s \in Spaces |-> CHOOSE i \in me.items : i.space = s], db |-> world]
             round == [Ours EXCEPT !.manifest = {entry}]
  <2>1. /\ me.at = "manifest" /\ UNCHANGED <<now, world>>
        /\ store' = [store EXCEPT ![me.kind][Mine] = round]
        /\ run' = [run EXCEPT !["loop"].at = "prune"]
      BY <1>8 DEF Manifest, Goes, Put, Here, Ours, Mine, me
  <2>2. me'.at = "prune" /\ me'.kind = me.kind /\ me'.t = me.t
      BY <2>1, SameRound
  <2> HIDE DEF entry
  <2>3. RoundShape(round) /\ round.manifest # {}
    <3>1. round = [tars |-> [n \in Names |-> Ours.tars[n]], db |-> Ours.db, manifest |-> {entry}]
        BY <1>5
    <3>2. round.tars = [n \in Names |-> Ours.tars[n]] /\ round.db = Ours.db
          /\ round.manifest = {entry}
        BY <3>1
    <3>3. round.tars = [n \in Names |-> round.tars[n]]
        BY <3>2
    <3> QED
        BY <3>1, <3>2, <3>3 DEF RoundShape
  <2> HIDE DEF round
  <2> QED
      BY <2>1, <2>2, <2>3, StoringStep
<1>9. CASE Pruned("loop")
  <2>1. me.at # "idle" /\ NextKind("loop") /\ UNCHANGED <<now, world, store>>
      BY <1>9 DEF Pruned, me
  <2> QED
      BY <2>1, NextKindStep
<1> QED
    BY <1>2, <1>3, <1>4, <1>6, <1>7, <1>8, <1>9, PruneStep DEF Step

LEMMA NewestNext ==
    ASSUME OneRunner, BackupInv, NewestInv, [Next]_vars
    PROVE  NewestInv' /\ \A k \in Kinds : Newest(k)' >= Newest(k)
<1>1. now \in 0..MaxNow /\ now \in Nat
    BY Bounds DEF BackupInv, Shapes
<1>2. CASE Week
  <2>1. me' = me /\ UNCHANGED store /\ now' = now + 1 /\ now < MaxNow
      BY <1>2 DEF Week, me
  <2>2. now' \in 0..MaxNow /\ now <= now'
      BY <1>1, <2>1, Bounds
  <2> QED
      BY <2>1, <2>2, QuietStep
<1>3. CASE UNCHANGED vars \/ \E s \in Spaces : Save(s)
  <2>1. me' = me /\ UNCHANGED <<store, now>>
      BY <1>3 DEF vars, Save, me
  <2> QED
      BY <1>1, <2>1, QuietStep
<1>4. CASE Die("loop")
  <2>1. run' = [run EXCEPT !["loop"] = Idle] /\ UNCHANGED <<now, world, store>>
      BY <1>4 DEF Die
  <2>2. me' = Idle
      BY <2>1, OneRun DEF BackupInv
  <2>3. me'.at = "idle"
      BY <2>2 DEF Idle
  <2> QED
      BY <1>1, <2>1, <2>3, QuietStep
<1> QED
    BY <1>2, <1>3, <1>4, NewestStep DEF Next, OneRunner

\* Neither a run that dies nor the pruning takes away the newest complete round of a kind
\* (backup.py:428 and prune): for any number of weeks and rounds to keep, and however many
\* incomplete rounds the pruning counts along, under the same two conditions.
THEOREM NewestStays == OneRunner /\ NamesDiffer => (Spec => NewestIsKept)
<1> SUFFICES ASSUME OneRunner, NamesDiffer
             PROVE  Spec => NewestIsKept
    OBVIOUS
<1>1. Init => BackupInv /\ NewestInv
  <2> SUFFICES ASSUME Init
               PROVE  BackupInv /\ NewestInv
      OBVIOUS
  <2>1. me.at = "idle"
      BY DEF OneRunner, Init, me, Idle
  <2> QED
      BY <2>1, InitBackupInv DEF Init, NewestInv, Past, Recent, Pruning
<1>2. BackupInv /\ NewestInv /\ [Next]_vars => (BackupInv /\ NewestInv)'
    BY BackupStep, NewestNext
<1>3. BackupInv /\ NewestInv /\ [Next]_vars
        => [\A k \in Kinds : Newest(k)' >= Newest(k)]_vars
    BY NewestNext
<1> QED
    BY <1>1, <1>2, <1>3, PTL DEF Spec, NewestIsKept

-----------------------------------------------------------------------------
\* Shapes and the lock, whoever makes rounds and whatever the spaces are called

AtMostOne(S) == {{}} \cup {{x} : x \in S}

Fits(round) ==
    /\ RoundShape(round)
    /\ \A n \in Names : round.tars[n] \in AtMostOne(Tar)
    /\ round.db \in AtMostOne([Spaces -> Version])

Run(n) == [at: {"idle", "check", "list", "pack", "manifest", "prune"}, kind: Kinds,
           t: 0..n, force: BOOLEAN, items: SUBSET Tar]

TypeInv ==
    /\ now \in 0..MaxNow
    /\ world \in [Spaces -> Version]
    /\ lock \in {"free"} \cup Runners
    /\ store = [k \in Kinds |-> [t \in Stamp |-> store[k][t]]]
    /\ \A k \in Kinds, t \in Stamp : Fits(store[k][t])
    /\ run \in [Runners -> Run(now)]

\* Who writes archives or a manifest has the write lock of the database.
LockInv == \A r \in Runners : run[r].at \in {"pack", "manifest"} => lock = r

OnePacks ==
    \A r, q \in Runners : run[r].at \in {"pack", "manifest"} /\ run[q].at \in {"pack", "manifest"}
                              => r = q

LEMMA OneOfASet ==
    ASSUME NEW S, NEW T \in AtMostOne(S)
    PROVE  T \subseteq S /\ Cardinality(T) <= 1
<1>1. CASE T = {}
    BY <1>1, FS_EmptySet
<1>2. ASSUME NEW x \in S, T = {x}
      PROVE  T \subseteq S /\ Cardinality(T) <= 1
    BY <1>2, FS_Singleton
<1> QED
    BY <1>1, <1>2 DEF AtMostOne

LEMMA NoRoundFits == Fits(NoRound)
    BY NoRoundIsFine DEF Fits, NoRound, AtMostOne

LEMMA LeftFits ==
    ASSUME NEW round, Fits(round), NEW left \in Left(round)
    PROVE  Fits(left)
<1>1. /\ RoundShape(left) /\ left.db \subseteq round.db
      /\ \A n \in Names : left.tars[n] \in {{}, round.tars[n]}
    BY LeftIsARound
<1>2. left.db \in AtMostOne([Spaces -> Version])
    BY <1>1 DEF Fits, AtMostOne
<1> QED
    BY <1>1, <1>2 DEF Fits, AtMostOne

LEMMA IdleIsARun ==
    ASSUME NEW n \in Nat
    PROVE  Idle \in Run(n)
    BY DEF Idle, Run, Kinds

LEMMA StartsSo ==
    ASSUME NEW n, NEW m \in Run(n), NEW k \in Kinds, NEW f \in BOOLEAN, NEW t \in 0..n
    PROVE  [m EXCEPT !.at = "check", !.t = t, !.kind = k, !.force = f] \in Run(n)
    BY DEF Run

LEMMA RunChanges ==
    ASSUME NEW n, NEW m \in Run(n)
    PROVE  /\ \A at \in {"list", "pack", "manifest", "prune"} : [m EXCEPT !.at = at] \in Run(n)
           /\ [m EXCEPT !.kind = "monthly", !.at = "check", !.items = {}] \in Run(n)
           /\ \A i \in Tar : [m EXCEPT !.items = m.items \cup {i}] \in Run(n)
<1>1. \A at \in {"list", "pack", "manifest", "prune"} : [m EXCEPT !.at = at] \in Run(n)
    BY DEF Run
<1>2. [m EXCEPT !.kind = "monthly", !.at = "check", !.items = {}] \in Run(n)
    BY DEF Run, Kinds
<1>3. ASSUME NEW i \in Tar
      PROVE  [m EXCEPT !.items = m.items \cup {i}] \in Run(n)
    BY DEF Run
<1> QED
    BY <1>1, <1>2, <1>3

LEMMA InitTypeInv == Init => TypeInv /\ LockInv
<1> SUFFICES ASSUME Init
             PROVE  TypeInv /\ LockInv
    OBVIOUS
<1>1. run \in [Runners -> Run(now)]
    BY IdleIsARun, Bounds DEF Init
<1>2. TypeInv
    BY <1>1, NoRoundFits, Bounds DEF TypeInv, Init, Version
<1> QED
    BY <1>2 DEF LockInv, Init, Idle

\* One run goes on; the rounds stay what they are, or fit.
LEMMA RunGoesOn ==
    ASSUME TypeInv, NEW r \in Runners, NEW m \in Run(now), run' = [run EXCEPT ![r] = m],
           UNCHANGED <<now, world>>, lock' \in {"free"} \cup Runners,
           store' = [k \in Kinds |-> [t \in Stamp |-> store'[k][t]]],
           \A k \in Kinds, t \in Stamp : Fits(store'[k][t])
    PROVE  TypeInv'
<1>1. run' \in [Runners -> Run(now)]
    BY DEF TypeInv
<1>2. \A k \in Kinds, t \in Stamp : Fits(store[k][t])'
    BY DEF Fits, RoundShape
<1> QED
    BY <1>1, <1>2 DEF TypeInv

LEMMA StoreStays ==
    ASSUME TypeInv, UNCHANGED store
    PROVE  /\ store' = [k \in Kinds |-> [t \in Stamp |-> store'[k][t]]]
           /\ \A k \in Kinds, t \in Stamp : Fits(store'[k][t])
    BY DEF TypeInv

LEMMA StorePuts ==
    ASSUME TypeInv, NEW k0, NEW t0, NEW round, Fits(round),
           store' = [store EXCEPT ![k0][t0] = round]
    PROVE  /\ store' = [k \in Kinds |-> [t \in Stamp |-> store'[k][t]]]
           /\ \A k \in Kinds, t \in Stamp : Fits(store'[k][t])
<1>1. store = [k \in Kinds |-> [t \in Stamp |-> store[k][t]]]
    BY DEF TypeInv
<1>2. store' = [k \in Kinds |-> [t \in Stamp |->
                   IF k = k0 /\ t = t0 THEN round ELSE store[k][t]]]
    BY <1>1
<1>3. \A k \in Kinds, t \in Stamp :
          store'[k][t] = IF k = k0 /\ t = t0 THEN round ELSE store[k][t]
    BY <1>2
<1> QED
    BY <1>2, <1>3 DEF TypeInv

LEMMA HereFits ==
    ASSUME TypeInv, NEW r \in Runners
    PROVE  Fits(Here(r)) /\ run[r] \in Run(now) /\ now \in Nat
<1>1. run[r] \in Run(now) /\ now \in 0..MaxNow
    BY DEF TypeInv
<1>2. run[r].kind \in Kinds /\ run[r].t \in 0..MaxNow
    BY <1>1, Bounds DEF Run
<1>3. StampFor(run[r].kind, run[r].t) \in Stamp
    BY <1>2, StampIsOne
<1> QED
    BY <1>1, <1>2, <1>3, Bounds DEF TypeInv, Here

LEMMA NextKindFits ==
    ASSUME TypeInv, NEW r \in Runners, NextKind(r), UNCHANGED <<now, world>>,
           store' = [k \in Kinds |-> [t \in Stamp |-> store'[k][t]]],
           \A k \in Kinds, t \in Stamp : Fits(store'[k][t])
    PROVE  TypeInv'
<1>1. run[r] \in Run(now) /\ now \in Nat
    BY HereFits
<1>2. lock' \in {"free"} \cup Runners
    BY DEF NextKind, Release, TypeInv
<1>3. PICK m \in {Idle, [run[r] EXCEPT !.kind = "monthly", !.at = "check", !.items = {}]} :
          run' = [run EXCEPT ![r] = m]
    BY DEF NextKind
<1>4. m \in Run(now)
  <2>1. [run[r] EXCEPT !.kind = "monthly", !.at = "check", !.items = {}] \in Run(now)
      BY <1>1, RunChanges
  <2>2. Idle \in Run(now)
      BY <1>1, IdleIsARun
  <2> QED
      BY <1>3, <2>1, <2>2
<1> QED
    BY <1>2, <1>3, <1>4, RunGoesOn

LEMMA StepFits ==
    ASSUME TypeInv, NEW r \in Runners, Step(r) \/ Die(r)
    PROVE  TypeInv'
<1>1. run[r] \in Run(now) /\ now \in Nat /\ Fits(Here(r))
    BY HereFits
<1>2. lock \in {"free"} \cup Runners
    BY DEF TypeInv
<1>3. CASE Start(r)
  <2>1. PICK k \in Kinds, f \in BOOLEAN :
            run' = [run EXCEPT ![r] = [Idle EXCEPT !.at = "check", !.t = now, !.kind = k,
                                                   !.force = f]]
      BY <1>3 DEF Start, Kinds
  <2>2. PICK m : m = [Idle EXCEPT !.at = "check", !.t = now, !.kind = k, !.force = f]
      OBVIOUS
  <2>3. m \in Run(now)
    <3>1. Idle \in Run(now) /\ now \in 0..now
        BY <1>1, IdleIsARun
    <3> QED
        BY <2>2, <3>1, StartsSo
  <2>4. run' = [run EXCEPT ![r] = m]
      BY <2>1, <2>2
  <2> QED
      BY <1>2, <1>3, <2>3, <2>4, RunGoesOn, StoreStays DEF Start
<1>4. ASSUME NEW at \in {"list", "pack", "manifest", "prune"}, Goes(r, at),
             UNCHANGED <<now, world>>, lock' \in {"free"} \cup Runners,
             store' = [k \in Kinds |-> [t \in Stamp |-> store'[k][t]]],
             \A k \in Kinds, t \in Stamp : Fits(store'[k][t])
      PROVE  TypeInv'
  <2>1. PICK m : m = [run[r] EXCEPT !.at = at]
      OBVIOUS
  <2>2. m \in Run(now) /\ run' = [run EXCEPT ![r] = m]
      BY <1>1, <1>4, <2>1, RunChanges DEF Goes
  <2> QED
      BY <1>4, <2>2, RunGoesOn
<1>5. CASE Check(r)
    BY <1>2, <1>4, <1>5, StoreStays, NextKindFits DEF Check
<1>6. CASE List(r)
    BY <1>4, <1>6, StoreStays DEF List
<1>7. CASE SnapshotDb(r)
  <2>1. PICK round : round = [Here(r) EXCEPT !.db = {world}]
      OBVIOUS
  <2>2. Fits(round)
    <3>1. Here(r) = [tars |-> [n \in Names |-> Here(r).tars[n]], db |-> Here(r).db,
                     manifest |-> Here(r).manifest]
        BY <1>1 DEF Fits, RoundShape
    <3>2. round = [tars |-> [n \in Names |-> Here(r).tars[n]], db |-> {world},
                   manifest |-> Here(r).manifest]
        BY <2>1, <3>1
    <3>3. {world} \in AtMostOne([Spaces -> Version])
        BY DEF AtMostOne, TypeInv
    <3> QED
        BY <1>1, <3>2, <3>3 DEF Fits, RoundShape
  <2>3. store' = [store EXCEPT ![run[r].kind][StampFor(run[r].kind, run[r].t)] = round]
      BY <1>7, <2>1 DEF SnapshotDb, Put
  <2> QED
      BY <1>2, <1>4, <1>7, <2>2, <2>3, StorePuts DEF SnapshotDb
<1>8. CASE Manifest(r)
  <2>1. PICK round, mf : /\ round = [Here(r) EXCEPT !.manifest = mf]
                         /\ store' = [store EXCEPT ![run[r].kind][StampFor(run[r].kind, run[r].t)] = round]
      BY <1>8 DEF Manifest, Put
  <2>2. Fits(round)
    <3>1. Here(r) = [tars |-> [n \in Names |-> Here(r).tars[n]], db |-> Here(r).db,
                     manifest |-> Here(r).manifest]
        BY <1>1 DEF Fits, RoundShape
    <3>2. round = [tars |-> [n \in Names |-> Here(r).tars[n]], db |-> Here(r).db,
                   manifest |-> mf]
        BY <2>1, <3>1
    <3> QED
        BY <1>1, <3>2 DEF Fits, RoundShape
  <2>3. /\ store' = [k \in Kinds |-> [t \in Stamp |-> store'[k][t]]]
        /\ \A k \in Kinds, t \in Stamp : Fits(store'[k][t])
      BY <2>1, <2>2, StorePuts
  <2> QED
      BY <1>2, <1>4, <1>8, <2>3, NextKindFits DEF Manifest
<1>9. CASE Prune(r)
  <2>1. run' = [run EXCEPT ![r] = run[r]]
      BY <1>9 DEF Prune, TypeInv
  <2>2. run[r].kind \in Kinds /\ store = [k \in Kinds |-> [t \in Stamp |-> store[k][t]]]
      BY <1>1 DEF Run, TypeInv
  <2>3. PICK u, left : Leaves(run[r].kind, u, left)
      BY <1>9, <2>2, PruneLeaves
  <2>4. /\ u \in Stamp /\ left \in Left(store[run[r].kind][u])
        /\ store' = [store EXCEPT ![run[r].kind][u] = left]
      BY <2>3 DEF Leaves
  <2>5. Fits(left)
      BY <2>2, <2>4, LeftFits DEF TypeInv
  <2>6. /\ store' = [k \in Kinds |-> [t \in Stamp |-> store'[k][t]]]
        /\ \A k \in Kinds, t \in Stamp : Fits(store'[k][t])
      BY <2>4, <2>5, StorePuts
  <2> QED
      BY <1>1, <1>2, <1>9, <2>1, <2>6, RunGoesOn DEF Prune
<1>10. CASE Pruned(r)
    BY <1>10, StoreStays, NextKindFits DEF Pruned
<1>11. ASSUME NEW s \in Spaces, Pack(r, s)
       PROVE  TypeInv'
  <2>1. PICK tar \in {[space |-> s, file |-> {}], [space |-> s, file |-> {world[s]}]} :
            /\ Put(r, [Here(r) EXCEPT !.tars[NameOf[s]] = {tar}])
            /\ run' = [run EXCEPT ![r].items = @ \cup {tar}]
      BY <1>11 DEF Pack
  <2>2. tar \in Tar
      BY <2>1 DEF Tar, TypeInv
  <2>3. PICK round : round = [Here(r) EXCEPT !.tars[NameOf[s]] = {tar}]
      OBVIOUS
  <2>4. Fits(round)
    <3>1. Here(r) = [tars |-> [n \in Names |-> Here(r).tars[n]], db |-> Here(r).db,
                     manifest |-> Here(r).manifest]
        BY <1>1 DEF Fits, RoundShape
    <3>2. round = [tars |-> [n \in Names |-> IF n = NameOf[s] THEN {tar} ELSE Here(r).tars[n]],
                   db |-> Here(r).db, manifest |-> Here(r).manifest]
        BY <2>3, <3>1, SMTT(40)
    <3>3. {tar} \in AtMostOne(Tar)
        BY <2>2 DEF AtMostOne
    <3> QED
        BY <1>1, <3>2, <3>3 DEF Fits, RoundShape
  <2>5. store' = [store EXCEPT ![run[r].kind][StampFor(run[r].kind, run[r].t)] = round]
      BY <2>1, <2>3 DEF Put
  <2>6. PICK m : m = [run[r] EXCEPT !.items = run[r].items \cup {tar}]
      OBVIOUS
  <2>7. m \in Run(now) /\ run' = [run EXCEPT ![r] = m]
      BY <1>1, <2>1, <2>2, <2>6, RunChanges
  <2> QED
      BY <1>2, <1>11, <2>4, <2>5, <2>7, StorePuts, RunGoesOn DEF Pack
<1>12. CASE Die(r)
  <2>1. lock' \in {"free"} \cup Runners
      BY <1>2, <1>12 DEF Die, Release
  <2> QED
      BY <1>1, <1>12, <2>1, IdleIsARun, RunGoesOn, StoreStays DEF Die
<1> QED
    BY <1>3, <1>5, <1>6, <1>7, <1>8, <1>9, <1>10, <1>11, <1>12 DEF Step

LEMMA WorldFits ==
    ASSUME TypeInv, Week \/ (\E s \in Spaces : Save(s)) \/ UNCHANGED vars
    PROVE  TypeInv'
<1>1. now' \in 0..MaxNow /\ now' >= now /\ UNCHANGED <<lock, store, run>>
    BY Bounds DEF Week, Save, vars, TypeInv
<1>2. world' \in [Spaces -> Version]
    BY Bounds DEF Week, Save, vars, TypeInv, Version
<1>3. Run(now) \subseteq Run(now')
    BY <1>1, Bounds DEF Run, TypeInv
<1>4. run' \in [Runners -> Run(now')]
    BY <1>1, <1>3 DEF TypeInv
<1>5. \A k \in Kinds, t \in Stamp : Fits(store[k][t])'
    BY <1>1 DEF TypeInv, Fits, RoundShape
<1> QED
    BY <1>1, <1>2, <1>4, <1>5 DEF TypeInv

\* Nobody takes the lock from one who has it, and who gives it back has stopped packing.
LEMMA LockStep == TypeInv /\ LockInv /\ [Next]_vars => LockInv'
<1> SUFFICES ASSUME TypeInv, LockInv, [Next]_vars
             PROVE  LockInv'
    OBVIOUS
<1>1. CASE UNCHANGED <<lock, run>>
    BY <1>1 DEF LockInv
<1>2. ASSUME NEW r \in Runners, NEW m, run' = [run EXCEPT ![r] = m],
             lock' \in {lock, "free", r}, lock' # lock => lock \in {r, "free"},
             m.at \in {"pack", "manifest"} => lock' = r
      PROVE  LockInv'
  <2> SUFFICES ASSUME NEW q \in Runners, run'[q].at \in {"pack", "manifest"}
               PROVE  lock' = q
      BY DEF LockInv
  <2>1. CASE q = r
      BY <1>2, <2>1 DEF TypeInv
  <2>2. CASE q # r
    <3>1. run'[q] = run[q]
        BY <1>2, <2>2 DEF TypeInv
    <3>2. lock = q /\ q # "free"
        BY <3>1, BackupAssumption DEF LockInv
    <3> QED
        BY <1>2, <2>2, <3>2
  <2> QED
      BY <2>1, <2>2
<1>3. ASSUME NEW r \in Runners, Step(r) \/ Die(r)
      PROVE  LockInv'
  <2>1. run[r] \in Run(now)
      BY HereFits
  <2>2. ASSUME NextKind(r)
        PROVE  LockInv'
    <3>1. PICK m \in {Idle, [run[r] EXCEPT !.kind = "monthly", !.at = "check", !.items = {}]} :
              run' = [run EXCEPT ![r] = m]
        BY <2>2 DEF NextKind
    <3>2. m.at \in {"idle", "check"}
      <4>1. CASE m = Idle
          BY <4>1 DEF Idle
      <4>2. CASE m = [run[r] EXCEPT !.kind = "monthly", !.at = "check", !.items = {}]
          BY <2>1, <4>2 DEF Run
      <4> QED
          BY <3>1, <4>1, <4>2
    <3>3. lock' \in {lock, "free"} /\ (lock' # lock => lock = r)
        BY <2>2 DEF NextKind, Release
    <3> QED
        BY <1>2, <3>1, <3>2, <3>3
  <2>3. ASSUME NEW at \in {"list", "pack", "manifest", "prune"}, Goes(r, at),
               lock' \in {lock, "free", r}, lock' # lock => lock \in {r, "free"},
               at \in {"pack", "manifest"} => lock' = r
        PROVE  LockInv'
    <3>1. PICK m : m = [run[r] EXCEPT !.at = at]
        OBVIOUS
    <3>2. m.at = at
        BY <2>1, <3>1 DEF Run
    <3> QED
        BY <1>2, <2>3, <3>1, <3>2 DEF Goes
  <2>4. CASE Start(r)
    <3>1. PICK k, f : run' = [run EXCEPT ![r] =
                                [Idle EXCEPT !.at = "check", !.t = now, !.kind = k, !.force = f]]
        BY <2>4 DEF Start
    <3>2. [Idle EXCEPT !.at = "check", !.t = now, !.kind = k, !.force = f].at = "check"
        BY DEF Idle
    <3> QED
        BY <1>2, <2>4, <3>1, <3>2 DEF Start
  <2>5. CASE Check(r)
      BY <2>2, <2>3, <2>5 DEF Check
  <2>6. CASE List(r)
      BY <2>3, <2>6 DEF List
  <2>7. CASE SnapshotDb(r)
      BY <2>3, <2>7 DEF SnapshotDb, LockInv
  <2>8. CASE Manifest(r)
      BY <2>2, <2>3, <2>8 DEF Manifest
  <2>9. CASE Prune(r)
      BY <1>1, <2>9 DEF Prune
  <2>10. CASE Pruned(r)
      BY <2>2, <2>10 DEF Pruned
  <2>11. ASSUME NEW s \in Spaces, Pack(r, s)
         PROVE  LockInv'
    <3>1. PICK tar : run' = [run EXCEPT ![r] = [run[r] EXCEPT !.items = @ \cup {tar}]]
        BY <2>11 DEF Pack
    <3>2. [run[r] EXCEPT !.items = @ \cup {tar}].at = "pack" /\ lock = r
        BY <2>1, <2>11 DEF Pack, Run, LockInv
    <3> QED
        BY <1>2, <2>11, <3>1, <3>2 DEF Pack
  <2>12. CASE Die(r)
    <3>1. Idle.at = "idle"
        BY DEF Idle
    <3> QED
        BY <1>2, <2>12, <3>1 DEF Die, Release
  <2> QED
      BY <1>3, <2>4, <2>5, <2>6, <2>7, <2>8, <2>9, <2>10, <2>11, <2>12 DEF Step
<1> QED
    BY <1>1, <1>3 DEF Next, Week, Save, vars

LEMMA TypeStep == TypeInv /\ [Next]_vars => TypeInv'
    BY StepFits, WorldFits DEF Next

\* Rounds, runs and the lock have their shape: however many processes make rounds and
\* whatever the spaces are called, an object of a round is written over, never added to.
THEOREM RoundsTyped == Spec => []BackupTypeOK
<1>1. TypeInv => BackupTypeOK
  <2> SUFFICES ASSUME TypeInv
               PROVE  BackupTypeOK
      OBVIOUS
  <2>1. ASSUME NEW k \in Kinds, NEW t \in Stamp
        PROVE  /\ \A n \in Names : /\ store[k][t].tars[n] \subseteq Tar
                                   /\ Cardinality(store[k][t].tars[n]) <= 1
               /\ store[k][t].db \subseteq [Spaces -> Version] /\ Cardinality(store[k][t].db) <= 1
      BY OneOfASet DEF TypeInv, Fits
  <2>2. ASSUME NEW r \in Runners
        PROVE  /\ run[r].at \in {"idle", "check", "list", "pack", "manifest", "prune"}
               /\ run[r].kind \in Kinds /\ run[r].t \in 0..now
      BY HereFits DEF Run
  <2> QED
      BY <2>1, <2>2 DEF BackupTypeOK, TypeInv
<1> QED
    BY <1>1, InitTypeInv, TypeStep, PTL DEF Spec

\* Two rounds are never packed at once (_run_backups and backup_now keep the write lock from
\* the query for the spaces to the end of the session), though both may be made, one after
\* the other (backup.py:342).
THEOREM PackingExcludes == Spec => []OnePacks
<1>1. LockInv => OnePacks
    BY DEF LockInv, OnePacks
<1> QED
    BY <1>1, InitTypeInv, TypeStep, LockStep, PTL DEF Spec
=============================================================================
