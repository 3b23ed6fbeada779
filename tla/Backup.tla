------------------------------- MODULE Backup -------------------------------
(***************************************************************************)
(* The weekly and monthly backup (services/backup.py), the loop that runs  *)
(* it (main.py), the script that runs it by hand (scripts/backup_now.py)   *)
(* and what scripts/restore_backup.py gets back from a round.              *)
(*                                                                         *)
(* Each space has one file, told by the version of its body.  Time is      *)
(* counted in weeks.  The first query of a run takes the only write lock   *)
(* (db.py, BEGIN IMMEDIATE) and keeps it until the session is closed, so   *)
(* nothing is saved while a round is being made.                           *)
(***************************************************************************)
EXTENDS Integers, FiniteSetsExt

CONSTANTS
    Spaces,
    NameOf,      \* safe_name(backup_space_name(space))
    Runners,     \* "loop", "script"
    Month,       \* weeks in a month
    Keep,        \* backup_keep_weekly, backup_keep_monthly
    MaxVersion, MaxNow, MaxFails  \* bounds: saves, weeks, runs that die and bodies that cannot be opened

Kinds == {"weekly", "monthly"}

ASSUME BackupAssumption ==
    /\ Runners \subseteq {"loop", "script"}
    /\ Month \in Nat \ {0}
    /\ Keep \in [Kinds -> Nat \ {0}]
    /\ {MaxVersion, MaxNow, MaxFails} \subseteq Nat

VARIABLES
    now,
    world,   \* the version of the file of each space
    lock,    \* who holds the write lock of the database
    store,   \* the objects under backup/, round by round
    run,     \* the runs that are under way
    fails

vars == <<now, world, lock, store, run, fails>>

Version == 0..MaxVersion
Names == {NameOf[s] : s \in Spaces}
Stamp == 0..MaxNow

\* stamp_for
StampFor(kind, t) == IF kind = "weekly" THEN t ELSE t \div Month

\* An archive of a space holds its file, unless that could not be opened.
Tar == [space : Spaces, file : SUBSET Version]

\* A round: each set is empty or holds one object.
Round == [tars : [Names -> SUBSET Tar], db : SUBSET [Spaces -> Version],
          manifest : SUBSET [items : [Spaces -> Tar], db : [Spaces -> Version]]]
NoRound == [tars |-> [n \in Names |-> {}], db |-> {}, manifest |-> {}]

Complete(kind, stamp) == store[kind][stamp].manifest # {}
ListStamps(kind) == {t \in Stamp : store[kind][t] # NoRound}

Idle == [at |-> "idle", kind |-> "weekly", t |-> 0, force |-> FALSE, items |-> {}]

Init ==
    /\ now = 0
    /\ world = [s \in Spaces |-> 0]
    /\ lock = "free"
    /\ store = [k \in Kinds |-> [t \in Stamp |-> NoRound]]
    /\ run = [r \in Runners |-> Idle]
    /\ fails = 0

Goes(r, at) == run' = [run EXCEPT ![r].at = at]
Put(r, round) == store' = [store EXCEPT ![run[r].kind][StampFor(run[r].kind, run[r].t)] = round]
Here(r) == store[run[r].kind][StampFor(run[r].kind, run[r].t)]

----------------------------------------------------------------------------
(* The world *)

Save(s) ==
    /\ lock = "free" /\ world[s] < MaxVersion
    /\ world' = [world EXCEPT ![s] = @ + 1]
    /\ UNCHANGED <<now, lock, store, run, fails>>

Week ==
    /\ now < MaxNow
    /\ now' = now + 1
    /\ UNCHANGED <<world, lock, store, run, fails>>

----------------------------------------------------------------------------
(* A run *)

\* _run_backups and backup_now: the loop takes both kinds, one after the other.
Start(r) ==
    /\ run[r].at = "idle"
    /\ \E kind \in (IF r = "loop" THEN {"weekly"} ELSE Kinds),
          force \in (IF r = "loop" THEN {FALSE} ELSE BOOLEAN) :
         run' = [run EXCEPT ![r] = [Idle EXCEPT !.at = "check", !.t = now,
                                                !.kind = kind, !.force = force]]
    /\ UNCHANGED <<now, world, lock, store, fails>>

Release(r) == lock' = IF lock = r THEN "free" ELSE lock

\* The next kind, or the end of the session.
NextKind(r) ==
    IF r = "loop" /\ run[r].kind = "weekly"
      THEN /\ run' = [run EXCEPT ![r].kind = "monthly", ![r].at = "check", ![r].items = {}]
           /\ UNCHANGED lock
      ELSE run' = [run EXCEPT ![r] = Idle] /\ Release(r)

\* Mutant: a round that was begun counts as made
IsMadeMutant(r) == Here(r) # NoRound

IsMade(r) == Here(r).manifest # {}

Check(r) ==
    /\ run[r].at = "check"
    /\ IF ~run[r].force /\ IsMade(r) THEN NextKind(r)
                                     ELSE Goes(r, "list") /\ UNCHANGED lock
    /\ UNCHANGED <<now, world, store, fails>>

\* Mutant: a transaction that only reads takes no lock
ListMutant(r) ==
    /\ run[r].at = "list" /\ lock \in {"free", r}
    /\ Goes(r, "pack")
    /\ UNCHANGED <<now, world, lock, store, fails>>

\* The query for the spaces waits for the write lock.
List(r) ==
    /\ run[r].at = "list" /\ lock \in {"free", r}
    /\ lock' = r
    /\ Goes(r, "pack")
    /\ UNCHANGED <<now, world, store, fails>>

Packed(r) == {i.space : i \in run[r].items}

\* _write_space_tar
Pack(r, s) ==
    /\ run[r].at = "pack" /\ s \notin Packed(r)
    /\ \E unreadable \in {0, 1} :
         LET tar == [space |-> s, file |-> IF unreadable = 1 THEN {} ELSE {world[s]}]
         IN  /\ fails + unreadable <= MaxFails
             /\ fails' = fails + unreadable
             /\ Put(r, [Here(r) EXCEPT !.tars[NameOf[s]] = {tar}])
             /\ run' = [run EXCEPT ![r].items = @ \cup {tar}]
    /\ UNCHANGED <<now, world, lock>>

\* _snapshot_db
SnapshotDb(r) ==
    /\ run[r].at = "pack" /\ Packed(r) = Spaces
    /\ Put(r, [Here(r) EXCEPT !.db = {world}])
    /\ Goes(r, "manifest")
    /\ UNCHANGED <<now, world, lock, fails>>

\* The manifest comes last.
Manifest(r) ==
    /\ run[r].at = "manifest"
    /\ LET item(s) == CHOOSE i \in run[r].items : i.space = s
       IN  Put(r, [Here(r) EXCEPT !.manifest =
                    {[items |-> [s \in Spaces |-> item(s)], db |-> world]}])
    /\ IF r = "loop" THEN Goes(r, "prune") /\ UNCHANGED lock ELSE NextKind(r)
    /\ UNCHANGED <<now, world, fails>>

\* Mutant: the wrong end of the list is dropped
SurplusMutant(kind) ==
    {t \in ListStamps(kind) : Cardinality({u \in ListStamps(kind) : u <= t}) > Keep[kind]}

\* The rounds beyond the newest keep, complete or not.
Surplus(kind) ==
    {t \in ListStamps(kind) : Cardinality({u \in ListStamps(kind) : u >= t}) > Keep[kind]}

\* What is left of a round while its objects go, one by one or page by page.
Left(round) ==
    {[tars |-> [n \in Names |-> IF n \in names THEN {} ELSE round.tars[n]],
      db |-> db, manifest |-> manifest] :
       names \in SUBSET Names, db \in SUBSET round.db, manifest \in SUBSET round.manifest}

\* delete_stamp, one round after the other, the oldest first.
Prune(r) ==
    LET kind == run[r].kind
        t == Min(Surplus(kind))
    IN  /\ run[r].at = "prune" /\ Surplus(kind) # {}
        /\ \E round \in Left(store[kind][t]) \ {store[kind][t]} :
              store' = [store EXCEPT ![kind][t] = round]
        /\ UNCHANGED <<now, world, lock, run, fails>>

Pruned(r) ==
    /\ run[r].at = "prune" /\ Surplus(run[r].kind) = {}
    /\ NextKind(r)
    /\ UNCHANGED <<now, world, store, fails>>

\* A call fails and ends the run, or the process is killed.
Die(r) ==
    /\ run[r].at # "idle" /\ fails < MaxFails
    /\ fails' = fails + 1
    /\ run' = [run EXCEPT ![r] = Idle]
    /\ Release(r)
    /\ UNCHANGED <<now, world, store>>

Step(r) ==
    \/ Start(r) \/ Check(r) \/ List(r) \/ SnapshotDb(r) \/ Manifest(r)
    \/ Prune(r) \/ Pruned(r) \/ \E s \in Spaces : Pack(r, s)

Next ==
    \/ Week
    \/ \E s \in Spaces : Save(s)
    \/ \E r \in Runners : Step(r) \/ Die(r)

Spec == Init /\ [][Next]_vars

\* The loop ticks every hour, and after every start of the server.
FairSpec == Spec /\ WF_vars(Step("loop"))

----------------------------------------------------------------------------
(* Restoring *)

\* The checksums of the manifest are those of the objects.
Intact(round) ==
    \A m \in round.manifest :
        /\ round.db = {m.db}
        /\ \A s \in Spaces : round.tars[NameOf[s]] = {m.items[s]}

\* place_blobs: the file of a space is put under the key that the restored
\* database names.
Placed(round, s) ==
    \E m \in round.manifest : m.items[s] \in round.tars[NameOf[s]] /\ m.items[s].file = {m.db[s]}

----------------------------------------------------------------------------
(* Properties *)

\* Every variable has its type.
BackupTypeOK ==
    /\ now \in 0..MaxNow
    /\ world \in [Spaces -> Version]
    /\ lock \in {"free"} \cup Runners
    /\ \A k \in Kinds, t \in Stamp :
          /\ \A n \in Names : store[k][t].tars[n] \subseteq Tar /\ Cardinality(store[k][t].tars[n]) <= 1
          /\ store[k][t].db \subseteq [Spaces -> Version] /\ Cardinality(store[k][t].db) <= 1
    /\ \A r \in Runners :
          /\ run[r].at \in {"idle", "check", "list", "pack", "manifest", "prune"}
          /\ run[r].kind \in Kinds /\ run[r].t \in 0..now

\* A round with a manifest is what the manifest says, and gives back every
\* file that could be read when it was made, as the database of the same
\* round knows it (backup.py:356, RESTORE.md).  Only a round that is to be
\* deleted may be less: a run that dies in delete_stamp leaves part of it.
CompleteIsRestorable ==
    \A k \in Kinds : \A t \in Stamp \ Surplus(k) :
        LET round == store[k][t]
        IN  /\ Intact(round)
            /\ \A m \in round.manifest, s \in Spaces : m.items[s].file # {} => Placed(round, s)

\* Neither a run that dies nor the pruning takes away the newest complete
\* round of a kind.
Newest(kind) == Max({-1} \cup {t \in Stamp : Complete(kind, t)})
NewestIsKept == [][\A k \in Kinds : Newest(k)' >= Newest(k)]_vars

\* Runs die, but the round of the period that lasts is completed in the end
\* (main.py:96, SPEC.md:327).
RoundIsMade == \A k \in Kinds : []<>Complete(k, StampFor(k, now))
=============================================================================
