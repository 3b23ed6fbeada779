-------------------------- MODULE BlobStoreProofs --------------------------
(***************************************************************************)
(* What holds of tables and bodies for any number of files, keys and        *)
(* requests.                                                                *)
(***************************************************************************)
EXTENDS BlobStore, TLAPS

WriteJob == [op: Ops \ {"read"}, gone: SUBSET File, doomed: SUBSET Key]
ReadJob == [op: {"read"}, key: Key, was: Content]

Writer(r) == job[r] # Null /\ job[r].op # "read"

-----------------------------------------------------------------------------
\* The invariant

\* A request that has something to write, and not the lock, is past the commit of
\* a purge or a sweep.
OnlyErasersWait == \A r \in Req : Writer(r) /\ holder # r => job[r].op = "erase"

\* What the holder of the lock has done to the table so far.
DraftFollowsRows ==
    holder # Null =>
        LET j == job[holder]
        IN  /\ j.gone \subseteq DOMAIN rows
            /\ \A f \in DOMAIN rows \ j.gone : f \in DOMAIN draft /\ draft[f] = rows[f]
            /\ j.op \in {"upload", "copy"} => j.gone = {}
            /\ j.op \notin {"upload", "copy"} => DOMAIN draft \subseteq DOMAIN rows
            /\ j.op = "save" => j.gone \subseteq DOMAIN draft /\ \A f, g \in j.gone : f = g
            /\ j.op = "erase" => DOMAIN draft \cap j.gone = {}
            /\ j.op = "team" =>
                  draft = rows \/ (j.doomed = {} /\ DOMAIN draft \cap j.gone = {})

RowKeysDistinct == \A f, g \in DOMAIN rows : f # g => rows[f].key # rows[g].key

\* The bodies the holder of the lock means to delete are those its files had.
DoomedWereTheirs ==
    holder # Null =>
        LET j == job[holder]
        IN  /\ \A k \in j.doomed : \E f \in j.gone : rows[f].key = k
            /\ j.op \in {"save", "erase"} =>
                  \A k \in j.doomed : \A f \in DOMAIN draft : draft[f].key # k
            /\ j.op \in {"save", "team"} =>
                  \A f \in j.gone : rows[f].key \in j.doomed \/ rows[f].key \notin DOMAIN body

\* After its commit, nothing names the bodies that a purge still has to delete.
DoomedAreNobodys ==
    \A r \in Req : Writer(r) /\ holder # r =>
        \A k \in job[r].doomed :
            /\ \A f \in DOMAIN rows : rows[f].key # k
            /\ \A f \in DOMAIN draft : draft[f].key # k

Linked ==
    /\ BTypeOK /\ OnlyErasersWait /\ DraftFollowsRows
    /\ KeysDistinct /\ RowKeysDistinct
    /\ DoomedWereTheirs /\ DoomedAreNobodys

\* No row is without a body but those whose bodies are being deleted right now.
BodiesAreThere ==
    /\ \A f \in DOMAIN rows :
          rows[f].key \in DOMAIN body
          \/ (holder # Null /\ job[holder].op \in {"save", "team"} /\ f \in job[holder].gone)
    /\ \A f \in DOMAIN draft :
          draft[f].key \in DOMAIN body
          \/ (holder # Null /\ job[holder].op = "team" /\ f \in job[holder].gone)
    /\ holder # Null /\ job[holder].op = "team" =>
          \A f \in job[holder].gone \cap DOMAIN draft : draft[f].refs \subseteq TeamRef

\* Nothing goes wrong while a save or the deletion of a team is under way, and
\* nothing but share links points to the files of a team that is deleted.
Careful == Interrupted \cap {"save", "team"} = {} /\ TeamRef \subseteq {"share"}

Orderly == calm \/ Careful

\* Nothing lies about while nothing has gone wrong.
AllAreNamed ==
    calm => \A k \in DOMAIN body :
        \/ \E f \in DOMAIN draft : draft[f].key = k
        \/ \E r \in Req : Writer(r) /\ k \in job[r].doomed

-----------------------------------------------------------------------------
\* Tables, bodies, requests

LEMMA TableIn ==
    ASSUME NEW t
    PROVE  t \in Table <=> DOMAIN t \in SUBSET File /\ t \in [DOMAIN t -> Entry]
PROOF BY DEF Table

LEMMA AddFacts ==
    ASSUME draft \in Table, NEW f \in File \ DOMAIN draft, NEW k \in Key
    PROVE  /\ Add(f, k) \in Table
           /\ DOMAIN Add(f, k) = DOMAIN draft \cup {f}
           /\ Add(f, k)[f].key = k /\ Add(f, k)[f].refs = {}
           /\ \A g \in DOMAIN draft : Add(f, k)[g] = draft[g]
PROOF
<1>1. DOMAIN Add(f, k) = DOMAIN draft \cup {f}
  BY DEF Add
<1>2. Add(f, k)[f] = [key |-> k, refs |-> {}]
  BY DEF Add
<1>3. \A g \in DOMAIN draft : Add(f, k)[g] = draft[g]
  BY DEF Add
<1>4. DOMAIN draft \in SUBSET File /\ \A g \in DOMAIN draft : draft[g] \in Entry
  BY TableIn
<1>5. [key |-> k, refs |-> {}] \in Entry
  BY DEF Entry
<1>6. Add(f, k) \in [DOMAIN Add(f, k) -> Entry]
  <2>1. \A g \in DOMAIN Add(f, k) : Add(f, k)[g] \in Entry
      BY <1>1, <1>2, <1>3, <1>4, <1>5
  <2>2. Add(f, k) = [g \in DOMAIN Add(f, k) |-> Add(f, k)[g]]
      BY DEF Add
  <2> QED BY <2>1, <2>2
<1>7. Add(f, k) \in Table
  BY <1>1, <1>4, <1>6, TableIn
<1> QED BY <1>1, <1>2, <1>3, <1>7

LEMMA WithoutFacts ==
    ASSUME NEW t, NEW gone
    PROVE  /\ DOMAIN Without(t, gone) = DOMAIN t \ gone
           /\ \A x \in DOMAIN t \ gone : Without(t, gone)[x] = t[x]
           /\ t \in Table => Without(t, gone) \in Table
PROOF
<1>1. DOMAIN Without(t, gone) = DOMAIN t \ gone
      /\ \A x \in DOMAIN t \ gone : Without(t, gone)[x] = t[x]
  BY DEF Without
<1>2. ASSUME t \in Table PROVE Without(t, gone) \in Table
  <2>1. DOMAIN t \in SUBSET File /\ \A x \in DOMAIN t : t[x] \in Entry
      BY <1>2, TableIn
  <2>2. Without(t, gone) \in [DOMAIN Without(t, gone) -> Entry]
      BY <2>1 DEF Without
  <2> QED BY <1>1, <2>1, <2>2, TableIn
<1> QED BY <1>1, <1>2

LEMMA RekeyFacts ==
    ASSUME NEW t \in Table, NEW f \in DOMAIN t, NEW k \in Key
    PROVE  LET u == [t EXCEPT ![f].key = k]
           IN  /\ u \in Table /\ DOMAIN u = DOMAIN t
               /\ u[f].key = k /\ u[f].refs = t[f].refs
               /\ \A g \in DOMAIN t : g # f => u[g] = t[g]
PROOF
<1> DEFINE e == [key |-> k, refs |-> t[f].refs]
<1>1. DOMAIN t \in SUBSET File /\ t \in [DOMAIN t -> Entry]
  BY TableIn
<1>2. \A d \in Entry : [d EXCEPT !.key = k] = [key |-> k, refs |-> d.refs]
  BY DEF Entry
<1>3. e \in Entry
  BY <1>1 DEF Entry
<1>4. [t EXCEPT ![f].key = k] = [t EXCEPT ![f] = e]
  BY <1>1, <1>2, Zenon
<1> HIDE DEF e
<1>5. /\ [t EXCEPT ![f] = e] \in [DOMAIN t -> Entry]
      /\ [t EXCEPT ![f] = e][f] = e
      /\ \A g \in DOMAIN t : g # f => [t EXCEPT ![f] = e][g] = t[g]
  BY <1>1, <1>3
<1> QED BY <1>1, <1>4, <1>5, TableIn DEF e

LEMMA ReferFacts ==
    ASSUME NEW t \in Table, NEW f \in DOMAIN t, NEW ref \in Ref
    PROVE  LET u == [t EXCEPT ![f].refs = @ \cup {ref}]
           IN  /\ u \in Table /\ DOMAIN u = DOMAIN t
               /\ \A g \in DOMAIN t : u[g].key = t[g].key
PROOF
<1> DEFINE e == [key |-> t[f].key, refs |-> t[f].refs \cup {ref}]
<1>1. DOMAIN t \in SUBSET File /\ t \in [DOMAIN t -> Entry]
  BY TableIn
<1>2. \A d \in Entry : [d EXCEPT !.refs = @ \cup {ref}] = [key |-> d.key, refs |-> d.refs \cup {ref}]
  BY DEF Entry
<1>3. e \in Entry
  BY <1>1 DEF Entry
<1>4. [t EXCEPT ![f].refs = @ \cup {ref}] = [t EXCEPT ![f] = e]
  BY <1>1, <1>2, Zenon
<1>5. e.key = t[f].key
  OBVIOUS
<1> HIDE DEF e
<1>6. [t EXCEPT ![f] = e] \in [DOMAIN t -> Entry]
  BY <1>1, <1>3
<1>7. \A g \in DOMAIN t : [t EXCEPT ![f] = e][g].key = t[g].key
  BY <1>1, <1>5
<1>8. [t EXCEPT ![f] = e] \in Table
  BY <1>1, <1>6, TableIn
<1> QED BY <1>1, <1>4, <1>6, <1>7, <1>8

BodyOK(b) == DOMAIN b \subseteq Key /\ b \in [DOMAIN b -> Content]

LEMMA PutFacts ==
    ASSUME BodyOK(body), NEW k \in Key, NEW c \in Content
    PROVE  /\ DOMAIN Put(k, c) = DOMAIN body \cup {k}
           /\ Put(k, c)[k] = c
           /\ \A j \in DOMAIN body \ {k} : Put(k, c)[j] = body[j]
           /\ BodyOK(Put(k, c))
PROOF BY DEF Put, BodyOK

LEMMA BodyWithout ==
    ASSUME BodyOK(body), NEW gone
    PROVE  BodyOK(Without(body, gone))
PROOF BY WithoutFacts DEF BodyOK, Without

LEMMA JobShapes ==
    ASSUME BTypeOK, NEW r \in Req
    PROVE  /\ Writer(r) => job[r] \in WriteJob
           /\ job[r] # Null /\ ~ Writer(r) => job[r] \in ReadJob
           /\ holder = r => Writer(r)
PROOF BY BlobStoreAssumption DEF BTypeOK, Jobs, WriteJob, ReadJob, Writer

LEMMA WriteShape ==
    ASSUME NEW op \in Ops \ {"read"}
    PROVE  Write(op) \in WriteJob /\ Write(op) \in Jobs /\ Write(op) # Null
PROOF BY BlobStoreAssumption DEF Write, WriteJob, Jobs

JobsTyped(j) == j \in [Req -> Jobs \cup {Null}]

LEMMA SetJob ==
    ASSUME JobsTyped(job), NEW r \in Req, NEW v \in Jobs \cup {Null},
           job' = [job EXCEPT ![r] = v]
    PROVE  /\ JobsTyped(job') /\ job'[r] = v
           /\ \A q \in Req : q # r => job'[q] = job[q]
PROOF BY DEF JobsTyped

\* The fields of a job, replaced.
LEMMA JobFields ==
    ASSUME NEW j \in WriteJob, NEW gone, NEW doomed
    PROVE  /\ [j EXCEPT !.gone = gone] = [op |-> j.op, gone |-> gone, doomed |-> j.doomed]
           /\ [j EXCEPT !.doomed = doomed] = [op |-> j.op, gone |-> j.gone, doomed |-> doomed]
PROOF BY DEF WriteJob

\* A request turns to the files it takes bodies from.
Aim(r, gone, doomed) == [job EXCEPT ![r].gone = gone, ![r].doomed = doomed]

LEMMA AimFacts ==
    ASSUME JobsTyped(job), NEW r \in Req, job[r] \in WriteJob,
           NEW gone \in SUBSET File, NEW doomed \in SUBSET Key
    PROVE  /\ JobsTyped(Aim(r, gone, doomed))
           /\ Aim(r, gone, doomed)[r] = [op |-> job[r].op, gone |-> gone, doomed |-> doomed]
           /\ \A q \in Req : q # r => Aim(r, gone, doomed)[q] = job[q]
PROOF
<1> DEFINE u == [op |-> job[r].op, gone |-> gone, doomed |-> job[r].doomed]
           v == [op |-> job[r].op, gone |-> gone, doomed |-> doomed]
           half == [job EXCEPT ![r] = u]
<1>1. u \in WriteJob /\ v \in WriteJob /\ u \in Jobs /\ v \in Jobs
  BY DEF WriteJob, Jobs
<1>2. [job[r] EXCEPT !.gone = gone] = u
  BY JobFields
<1>3. [u EXCEPT !.doomed = doomed] = v
  BY <1>1, JobFields
<1>4. Aim(r, gone, doomed) = [half EXCEPT ![r].doomed = doomed]
  BY <1>2, Zenon DEF Aim
<1> HIDE DEF u, v
<1>5. half[r] = u /\ half \in [Req -> Jobs \cup {Null}]
  BY <1>1 DEF JobsTyped
<1>6. [half EXCEPT ![r].doomed = doomed] = [half EXCEPT ![r] = v]
  BY <1>3, <1>5, Zenon
<1>7. /\ Aim(r, gone, doomed) \in [Req -> Jobs \cup {Null}]
      /\ Aim(r, gone, doomed)[r] = v
      /\ \A q \in Req : q # r => Aim(r, gone, doomed)[q] = job[q]
  BY <1>1, <1>4, <1>5, <1>6 DEF JobsTyped
<1> QED BY <1>7 DEF JobsTyped, v

LEMMA WriteJobsAreJobs ==
    \A j \in WriteJob : j \in Jobs /\ j # Null /\ j.op # "read" /\ j.op \in Ops
PROOF BY BlobStoreAssumption DEF WriteJob, Jobs

LEMMA AimTypes ==
    ASSUME JobsTyped(job), NEW r \in Req, job[r] \in WriteJob,
           NEW gone \in SUBSET File, NEW doomed \in SUBSET Key, job' = Aim(r, gone, doomed)
    PROVE  JobsTyped(job') /\ job'[r] # Null /\ job'[r].op # "read"
PROOF
<1>1. [op |-> job[r].op, gone |-> gone, doomed |-> doomed] \in WriteJob
  BY DEF WriteJob
<1> QED BY <1>1, AimFacts, WriteJobsAreJobs

\* One body less to delete.
Pared(r, k) == [job EXCEPT ![r].doomed = @ \ {k}]

LEMMA ParedFacts ==
    ASSUME JobsTyped(job), NEW r \in Req, job[r] \in WriteJob, NEW k
    PROVE  /\ JobsTyped(Pared(r, k))
           /\ Pared(r, k)[r] \in WriteJob
           /\ Pared(r, k)[r].op = job[r].op /\ Pared(r, k)[r].gone = job[r].gone
           /\ Pared(r, k)[r].doomed = job[r].doomed \ {k}
           /\ \A q \in Req : q # r => Pared(r, k)[q] = job[q]
PROOF
<1> DEFINE v == [op |-> job[r].op, gone |-> job[r].gone, doomed |-> job[r].doomed \ {k}]
<1>1. v \in Jobs /\ v \in WriteJob
  BY DEF WriteJob, Jobs
<1>2. [job[r] EXCEPT !.doomed = job[r].doomed \ {k}] = v
  BY JobFields
<1>3. Pared(r, k) = [job EXCEPT ![r] = v]
  BY <1>2 DEF Pared, JobsTyped
<1> HIDE DEF v
<1>4. JobsTyped(Pared(r, k)) /\ Pared(r, k)[r] = v /\ \A q \in Req : q # r => Pared(r, k)[q] = job[q]
  BY <1>1, <1>3 DEF JobsTyped
<1> QED BY <1>1, <1>4 DEF v

-----------------------------------------------------------------------------
\* The shapes

TypeParts(t, d, b, h, j, c) ==
    /\ t \in Table /\ d \in Table /\ BodyOK(b) /\ JobsTyped(j)
    /\ h \in Req \cup {Null} /\ c \in BOOLEAN
    /\ h = Null => d = t
    /\ h # Null => j[h] # Null /\ j[h].op # "read"

LEMMA TypeIs ==
    /\ BTypeOK <=> TypeParts(rows, draft, body, holder, job, calm)
    /\ BTypeOK' <=> TypeParts(rows', draft', body', holder', job', calm')
PROOF BY DEF BTypeOK, TypeParts, BodyOK, JobsTyped

LEMMA FreshIsKey == Fresh \subseteq Key
PROOF BY DEF Fresh

LEMMA RollbackTypes ==
    ASSUME BTypeOK, NEW r \in Req, Rollback(r), calm' \in BOOLEAN
    PROVE  BTypeOK'
PROOF
<1>1. JobsTyped(job')
  BY TypeIs, SetJob DEF TypeParts, Rollback
<1> QED BY <1>1, TypeIs DEF TypeParts, Rollback

LEMMA StepTypes ==
    ASSUME BTypeOK, NEW r \in Req, Step(r)
    PROVE  BTypeOK'
PROOF
<1> USE BlobStoreAssumption
<1>0. TypeParts(rows, draft, body, holder, job, calm)
  BY TypeIs
<1>1. ASSUME NEW op \in Ops \ {"read"}, Begin(r, op) PROVE BTypeOK'
  <2>1. JobsTyped(job') /\ job'[r] = Write(op)
      BY <1>0, <1>1, WriteShape, SetJob DEF Begin, TypeParts
  <2>2. job'[r] # Null /\ job'[r].op # "read"
      BY <2>1, WriteShape DEF Write
  <2> QED BY <1>0, <1>1, <2>1, <2>2, TypeIs DEF Begin, TypeParts
<1>2. CASE UploadOne(r)
  <2>1. PICK f \in File \ DOMAIN draft, k \in Key, c \in Content :
            draft' = Add(f, k) /\ body' = Put(k, c)
      BY <1>2, FreshIsKey DEF UploadOne
  <2>2. draft' \in Table /\ BodyOK(body')
      BY <1>0, <2>1, AddFacts, PutFacts DEF TypeParts
  <2> QED BY <1>0, <1>2, <2>2, TypeIs DEF UploadOne, Writing, TypeParts
<1>3. CASE CopyOne(r)
  <2>1. PICK f \in {f \in DOMAIN rows : rows[f].key \in DOMAIN body},
             g \in File \ DOMAIN draft, k \in Key :
            draft' = Add(g, k) /\ body' = Put(k, body[rows[f].key])
      BY <1>3, FreshIsKey DEF CopyOne
  <2>2. draft' \in Table /\ BodyOK(body')
      BY <1>0, <2>1, AddFacts, PutFacts, ZenonT(60) DEF TypeParts, BodyOK
  <2> QED BY <1>0, <1>3, <2>2, TypeIs DEF CopyOne, Writing, TypeParts
<1>4. CASE SaveFile(r)
  <2>1. PICK f \in DOMAIN draft, k \in Key, c \in Content :
            /\ body' = Put(k, c)
            /\ draft' = [draft EXCEPT ![f].key = k]
            /\ job' = Aim(r, {f}, {draft[f].key})
      BY <1>4, FreshIsKey DEF SaveFile, Aim
  <2>2. draft' \in Table
      BY <1>0, <2>1, RekeyFacts DEF TypeParts
  <2>3. f \in File /\ draft[f].key \in Key
      BY <1>0, TableIn DEF TypeParts, Entry
  <2>4. JobsTyped(job') /\ job'[r] # Null /\ job'[r].op # "read"
    <3>1. job[r] \in WriteJob
        BY <1>4, JobShapes DEF SaveFile, Writing
    <3> HIDE DEF Aim
    <3> QED BY <1>0, <2>1, <2>3, <3>1, AimTypes DEF TypeParts
  <2>5. BodyOK(body')
      BY <1>0, <2>1, PutFacts DEF TypeParts
  <2> QED BY <1>0, <1>4, <2>2, <2>4, <2>5, TypeIs DEF SaveFile, Writing, TypeParts
<1>5. CASE EraseRows(r)
  <2>1. CASE Rollback(r) /\ calm' = calm
      BY <1>0, <2>1, RollbackTypes DEF TypeParts
  <2>2. CASE \E gone \in SUBSET DOMAIN draft :
                /\ draft' = Without(draft, gone)
                /\ job' = Aim(r, gone, {draft[f].key : f \in gone})
                /\ UNCHANGED <<rows, body, holder, calm>>
    <3>1. PICK gone \in SUBSET DOMAIN draft :
                /\ draft' = Without(draft, gone)
                /\ job' = Aim(r, gone, {draft[f].key : f \in gone})
                /\ UNCHANGED <<rows, body, holder, calm>>
        BY <2>2
    <3>2. gone \in SUBSET File /\ {draft[f].key : f \in gone} \in SUBSET Key
        BY <1>0, TableIn DEF TypeParts, Entry
    <3>3. draft' \in Table
        BY <1>0, <3>1, WithoutFacts DEF TypeParts
    <3>4. JobsTyped(job') /\ job'[r] # Null /\ job'[r].op # "read"
        BY <1>0, <1>5, <3>1, <3>2, AimTypes, JobShapes DEF EraseRows, Writing, TypeParts
    <3> QED BY <1>0, <1>5, <3>1, <3>3, <3>4, TypeIs DEF EraseRows, Writing, TypeParts
  <2> QED BY <1>5, <2>1, <2>2 DEF EraseRows, Aim
<1>6. CASE StartTeam(r)
  <2>1. PICK gone \in SUBSET DOMAIN draft :
            job' = Aim(r, gone, {draft[f].key : f \in gone})
      BY <1>6 DEF StartTeam, Aim
  <2>2. gone \in SUBSET File /\ {draft[f].key : f \in gone} \in SUBSET Key
      BY <1>0, TableIn DEF TypeParts, Entry
  <2>3. JobsTyped(job') /\ job'[r] # Null /\ job'[r].op # "read"
      BY <1>0, <1>6, <2>1, <2>2, AimTypes, JobShapes DEF StartTeam, Writing, TypeParts
  <2> QED BY <1>0, <1>6, <2>3, TypeIs DEF StartTeam, Writing, TypeParts
<1>7. CASE TeamRows(r)
  <2>1. CASE Rollback(r) /\ calm' = FALSE
      BY <2>1, RollbackTypes
  <2>2. CASE draft' = Without(draft, job[r].gone) /\ UNCHANGED <<rows, body, holder, job, calm>>
    <3>1. draft' \in Table
        BY <1>0, <2>2, WithoutFacts DEF TypeParts
    <3> QED BY <1>0, <1>7, <2>2, <3>1, TypeIs DEF TypeParts, TeamRows, Writing
  <2> QED BY <1>7, <2>1, <2>2 DEF TeamRows
<1>8. CASE DeleteBody(r)
  <2>1. PICK k \in job[r].doomed :
            /\ body' = Without(body, {k}) \/ body' = body
            /\ \/ holder # r /\ job' = [job EXCEPT ![r] = Null]
               \/ job' = [job EXCEPT ![r].doomed = @ \ {k}]
            /\ calm' \in BOOLEAN
      BY <1>0, <1>8 DEF DeleteBody, TypeParts
  <2>2. job[r] \in WriteJob
      BY <1>8, JobShapes DEF DeleteBody, MayDelete, Writer
  <2> DEFINE Fine == JobsTyped(job') /\ (holder # Null => job'[holder] # Null /\ job'[holder].op # "read")
  <2>3. ASSUME holder # r /\ job' = [job EXCEPT ![r] = Null] PROVE Fine
    <3>1. JobsTyped(job') /\ \A q \in Req : q # r => job'[q] = job[q]
        BY <1>0, <2>3, SetJob DEF TypeParts
    <3> QED BY <1>0, <2>3, <3>1 DEF TypeParts
  <2>4. ASSUME job' = [job EXCEPT ![r].doomed = @ \ {k}] PROVE Fine
    <3>1. job' = Pared(r, k)
        BY <2>4 DEF Pared
    <3>2. /\ JobsTyped(job') /\ \A q \in Req : q # r => job'[q] = job[q]
          /\ job'[r] # Null /\ job'[r].op # "read"
        BY <1>0, <2>2, <3>1, ParedFacts, WriteJobsAreJobs DEF TypeParts
    <3> QED BY <1>0, <3>2 DEF TypeParts
  <2>5. BodyOK(body')
      BY <1>0, <2>1, BodyWithout DEF TypeParts
  <2>6. Fine
      BY <2>1, <2>3, <2>4
  <2> QED BY <1>0, <1>8, <2>1, <2>5, <2>6, TypeIs DEF DeleteBody, TypeParts
<1>9. CASE Commit(r)
  <2>1. JobsTyped(job')
      BY <1>0, <1>9, SetJob DEF Commit, TypeParts, JobsTyped
  <2> QED BY <1>0, <1>9, <2>1, TypeIs DEF Commit, TypeParts
<1>10. CASE Fail(r)
  BY <1>10, RollbackTypes DEF Fail
<1>11. CASE Lookup(r)
  <2>1. JobsTyped(job')
    <3>1. PICK f \in DOMAIN rows :
              /\ rows[f].key \in DOMAIN body
              /\ job' = [job EXCEPT ![r] = [op |-> "read", key |-> rows[f].key,
                                            was |-> body[rows[f].key]]]
        BY <1>11 DEF Lookup
    <3>2. [op |-> "read", key |-> rows[f].key, was |-> body[rows[f].key]] \in Jobs
        BY <1>0, <3>1, TableIn DEF Jobs, TypeParts, BodyOK, Entry
    <3> QED BY <1>0, <3>1, <3>2, SetJob DEF TypeParts
  <2> QED BY <1>0, <1>11, <2>1, TypeIs DEF Lookup, TypeParts
<1>12. CASE Serve(r)
  <2>1. JobsTyped(job') /\ \A q \in Req : q # r => job'[q] = job[q]
      BY <1>0, <1>12, SetJob DEF Serve, TypeParts
  <2>2. holder # r
      BY <1>0, <1>12 DEF Serve, TypeParts
  <2> QED BY <1>0, <1>12, <2>1, <2>2, TypeIs DEF Serve, TypeParts
<1> QED
  BY <1>1, <1>2, <1>3, <1>4, <1>5, <1>6, <1>7, <1>8, <1>9, <1>10, <1>11, <1>12 DEF Step

LEMMA Shapes ==
    ASSUME BTypeOK, [Next]_vars
    PROVE  BTypeOK'
PROOF
<1>0. TypeParts(rows, draft, body, holder, job, calm)
  BY TypeIs
<1>1. CASE UNCHANGED vars
  BY <1>0, <1>1, TypeIs DEF vars
<1>2. CASE Crash
  BY <1>0, <1>2, TypeIs DEF Crash, TypeParts, JobsTyped
<1>3. CASE Refer
  <2>1. PICK f \in DOMAIN rows, ref \in Ref : rows' = [rows EXCEPT ![f].refs = @ \cup {ref}]
      BY <1>3 DEF Refer
  <2>2. rows' \in Table
      BY <1>0, <2>1, ReferFacts DEF TypeParts
  <2> QED BY <1>0, <1>3, <2>2, TypeIs DEF Refer, TypeParts
<1>4. CASE \E r \in Req : Step(r)
  BY <1>4, StepTypes
<1> QED BY <1>1, <1>2, <1>3, <1>4 DEF Next

LEMMA StartShapes == Init => BTypeOK
PROOF
<1> SUFFICES ASSUME Init PROVE BTypeOK
  OBVIOUS
<1>1. rows \in Table
  BY TableIn DEF Init
<1>2. BodyOK(body) /\ JobsTyped(job)
  BY DEF Init, BodyOK, JobsTyped
<1> QED BY <1>1, <1>2, TypeIs DEF Init, TypeParts

\* What each request holds, and that the others keep it.
JobsAre(r) == \A q \in Req : q # r => job'[q] = job[q]

LEMMA SetFrame ==
    ASSUME BTypeOK, NEW r \in Req, NEW v, job' = [job EXCEPT ![r] = v]
    PROVE  job'[r] = v /\ JobsAre(r)
PROOF BY DEF BTypeOK, JobsAre

LEMMA ParedFrame ==
    ASSUME BTypeOK, NEW r \in Req, Writer(r),
           NEW k, job' = Pared(r, k)
    PROVE  /\ job'[r].op = job[r].op /\ job'[r].gone = job[r].gone
           /\ job'[r].doomed = job[r].doomed \ {k}
           /\ job'[r] \in WriteJob /\ JobsAre(r)
PROOF
<1>1. JobsTyped(job) /\ job[r] \in WriteJob
  BY JobShapes DEF BTypeOK, JobsTyped
<1>2. \A q \in Req : q # r => job'[q] = job[q]
  BY <1>1, ParedFacts
<1>3. /\ job'[r] \in WriteJob
      /\ job'[r].op = job[r].op /\ job'[r].gone = job[r].gone
      /\ job'[r].doomed = job[r].doomed \ {k}
  BY <1>1, ParedFacts
<1> QED BY <1>2, <1>3 DEF JobsAre

LEMMA AimFrame ==
    ASSUME BTypeOK, NEW r \in Req, Writer(r),
           NEW gone \in SUBSET File, NEW doomed \in SUBSET Key, job' = Aim(r, gone, doomed)
    PROVE  /\ job'[r].op = job[r].op /\ job'[r].gone = gone /\ job'[r].doomed = doomed
           /\ JobsAre(r)
PROOF
<1>1. JobsTyped(job) /\ job[r] \in WriteJob
  BY JobShapes DEF BTypeOK, JobsTyped
<1>2. /\ job'[r] = [op |-> job[r].op, gone |-> gone, doomed |-> doomed]
      /\ \A q \in Req : q # r => job'[q] = job[q]
  BY <1>1, AimFacts
<1> QED BY <1>2 DEF JobsAre

-----------------------------------------------------------------------------
\* Tables, bodies and requests fit together

\* What there is besides the shapes.
Fit ==
    /\ OnlyErasersWait /\ DraftFollowsRows
    /\ KeysDistinct /\ RowKeysDistinct
    /\ DoomedWereTheirs /\ DoomedAreNobodys

LEMMA FitWhenIdle ==
    ASSUME Linked, rows' = rows, draft' = draft, holder' = holder,
           DOMAIN body' \subseteq DOMAIN body,
           \A q \in Req : Writer(q)' => Writer(q) /\ job'[q] = job[q],
           holder # Null => job'[holder] = job[holder]
    PROVE  Fit'
PROOF
<1>1. OnlyErasersWait'
  BY DEF Linked, OnlyErasersWait
<1>2. DraftFollowsRows'
  BY DEF Linked, DraftFollowsRows
<1>3. KeysDistinct' /\ RowKeysDistinct'
  BY DEF Linked, KeysDistinct, RowKeysDistinct
<1>4. DoomedWereTheirs'
  BY DEF Linked, DoomedWereTheirs
<1>5. DoomedAreNobodys'
  BY DEF Linked, DoomedAreNobodys
<1> QED BY <1>1, <1>2, <1>3, <1>4, <1>5 DEF Fit

\* A rollback, a restart, a new reference to a file.
LEMMA FitWithoutHolder ==
    ASSUME Linked, draft' = rows', holder' = Null,
           DOMAIN rows' = DOMAIN rows, \A f \in DOMAIN rows : rows'[f].key = rows[f].key,
           \A q \in Req : Writer(q)' => Writer(q) /\ holder # q /\ job'[q] = job[q]
    PROVE  Fit'
PROOF
<1>1. OnlyErasersWait'
  BY DEF Linked, OnlyErasersWait
<1>2. DraftFollowsRows' /\ DoomedWereTheirs'
  BY DEF DraftFollowsRows, DoomedWereTheirs
<1>3. KeysDistinct' /\ RowKeysDistinct'
  BY DEF Linked, KeysDistinct, RowKeysDistinct
<1>4. DoomedAreNobodys'
  BY DEF Linked, DoomedAreNobodys
<1> QED BY <1>1, <1>2, <1>3, <1>4 DEF Fit

LEMMA FitAfterRollback ==
    ASSUME Linked, NEW r \in Req, holder = r, Rollback(r)
    PROVE  Fit'
PROOF
<1>1. BTypeOK
  BY DEF Linked
<1>2. job'[r] = Null /\ JobsAre(r)
  BY <1>1, SetFrame DEF Rollback
<1>3. \A q \in Req : Writer(q)' => Writer(q) /\ holder # q /\ job'[q] = job[q]
  BY <1>2 DEF Writer, JobsAre
<1> QED BY <1>3, FitWithoutHolder DEF Rollback

LEMMA FitAfterBegin ==
    ASSUME Linked, NEW r \in Req, NEW op \in Ops \ {"read"}, Begin(r, op)
    PROVE  Fit'
PROOF
<1>0. BTypeOK
  BY DEF Linked
<1>1. /\ job'[r] = Write(op) /\ JobsAre(r) /\ holder = Null /\ holder' = r
      /\ rows' = rows /\ draft' = draft /\ draft = rows
  BY <1>0, SetFrame DEF Begin, BTypeOK
<1>2. job'[r].op = op /\ job'[r].gone = {} /\ job'[r].doomed = {}
  BY <1>1 DEF Write
<1>3. \A q \in Req : q # r => job'[q] = job[q] /\ (Writer(q)' <=> Writer(q))
  BY <1>1 DEF JobsAre, Writer
<1>4. \A q \in Req : q # Null
  BY BlobStoreAssumption
<1>5. OnlyErasersWait'
  BY <1>1, <1>3, <1>4 DEF Linked, OnlyErasersWait
<1>6. DraftFollowsRows'
  BY <1>1, <1>2, <1>4 DEF DraftFollowsRows
<1>7. KeysDistinct' /\ RowKeysDistinct'
  BY <1>1 DEF Linked, KeysDistinct, RowKeysDistinct
<1>8. DoomedWereTheirs'
  BY <1>1, <1>2 DEF DoomedWereTheirs
<1>9. DoomedAreNobodys'
  BY <1>1, <1>3, <1>4 DEF Linked, DoomedAreNobodys
<1> QED BY <1>5, <1>6, <1>7, <1>8, <1>9 DEF Fit

\* A file more, under a key that nobody knows.
LEMMA FitAfterAdding ==
    ASSUME Linked, NEW r \in Req, holder = r, job[r].op \in {"upload", "copy"},
           NEW f \in File \ DOMAIN draft, NEW k \in Fresh, draft' = Add(f, k),
           UNCHANGED <<rows, holder, job>>
    PROVE  Fit'
PROOF
<1>1. draft \in Table /\ k \in Key /\ r # Null
  BY FreshIsKey, BlobStoreAssumption DEF Linked, BTypeOK
<1>2. /\ DOMAIN draft' = DOMAIN draft \cup {f} /\ draft'[f].key = k
      /\ \A g \in DOMAIN draft : draft'[g] = draft[g]
  <2>1. DOMAIN Add(f, k) = DOMAIN draft \cup {f} /\ Add(f, k)[f].key = k
      BY <1>1, AddFacts
  <2>2. \A g \in DOMAIN draft : Add(f, k)[g] = draft[g]
      BY DEF Add
  <2> QED BY <2>1, <2>2
<1>3. /\ \A g \in DOMAIN rows : rows[g].key # k
      /\ \A g \in DOMAIN draft : draft[g].key # k
      /\ \A q \in Req : Writer(q) => k \notin job[q].doomed
  BY DEF Fresh, KeysOf, Writer
<1>4. \A q \in Req : Writer(q)' <=> Writer(q)
  BY DEF Writer
<1>5. OnlyErasersWait'
  BY <1>4 DEF Linked, OnlyErasersWait
<1>6. DraftFollowsRows'
  BY <1>1, <1>2 DEF Linked, DraftFollowsRows
<1>7. KeysDistinct' /\ RowKeysDistinct'
  BY <1>2, <1>3 DEF Linked, KeysDistinct, RowKeysDistinct
<1>8. DoomedWereTheirs'
  BY DEF Linked, DoomedWereTheirs
<1>9. DoomedAreNobodys'
  BY <1>2, <1>3, <1>4 DEF Linked, DoomedAreNobodys
<1> QED BY <1>5, <1>6, <1>7, <1>8, <1>9 DEF Fit

\* While a writing request has done nothing, the draft is the table.
LEMMA NothingDoneYet ==
    ASSUME Linked, NEW r \in Req, holder = r, job[r].gone = {}, job[r].op \notin {"upload", "copy"}
    PROVE  draft = rows /\ job[r].doomed = {}
PROOF
<1>1. r # Null /\ draft \in Table /\ rows \in Table
  BY BlobStoreAssumption DEF Linked, BTypeOK
<1>2. DOMAIN draft = DOMAIN rows /\ \A f \in DOMAIN rows : draft[f] = rows[f]
  BY <1>1 DEF Linked, DraftFollowsRows
<1>3. draft = rows
  BY <1>1, <1>2, TableIn
<1>4. job[r].doomed = {}
  BY <1>1 DEF Linked, DoomedWereTheirs
<1> QED BY <1>3, <1>4

LEMMA FitAfterSave ==
    ASSUME Linked, NEW r \in Req, SaveFile(r)
    PROVE  Fit'
PROOF
<1>0. BTypeOK /\ holder = r /\ r # Null /\ Writer(r) /\ job[r].op = "save" /\ job[r].gone = {}
  BY JobShapes, BlobStoreAssumption DEF Linked, SaveFile, Writing
<1>1. PICK f \in DOMAIN draft, k \in Fresh :
            /\ draft' = [draft EXCEPT ![f].key = k]
            /\ job' = Aim(r, {f}, {draft[f].key})
            /\ UNCHANGED <<rows, holder>>
  BY DEF SaveFile, Aim
<1>2. draft \in Table /\ f \in File /\ k \in Key /\ draft[f].key \in Key
  BY <1>0, FreshIsKey, TableIn DEF BTypeOK, Entry
<1>3. /\ job'[r].op = "save" /\ job'[r].gone = {f} /\ job'[r].doomed = {draft[f].key}
      /\ JobsAre(r)
  <2>1. {f} \in SUBSET File /\ {draft[f].key} \in SUBSET Key
      BY <1>2
  <2> DEFINE gone == {f}
             doomed == {draft[f].key}
  <2>2. gone \in SUBSET File /\ doomed \in SUBSET Key /\ job' = Aim(r, gone, doomed)
      BY <1>1, <2>1
  <2> HIDE DEF gone, doomed
  <2>3. /\ job'[r].op = job[r].op /\ job'[r].gone = gone /\ job'[r].doomed = doomed
        /\ JobsAre(r)
      BY <1>0, <2>2, AimFrame
  <2> QED BY <1>0, <2>3 DEF gone, doomed
<1>4. /\ DOMAIN draft' = DOMAIN draft /\ draft'[f].key = k
      /\ \A g \in DOMAIN draft : g # f => draft'[g] = draft[g]
  BY <1>1, <1>2, RekeyFacts
<1>5. /\ \A g \in DOMAIN draft : draft[g].key # k
      /\ \A q \in Req : Writer(q) => k \notin job[q].doomed
  BY DEF Fresh, KeysOf, Writer
<1>6. draft = rows
  BY <1>0, NothingDoneYet
<1>7. \A q \in Req : q # r => job'[q] = job[q] /\ (Writer(q)' <=> Writer(q))
  BY <1>3 DEF JobsAre, Writer
<1>8. OnlyErasersWait'
  BY <1>0, <1>1, <1>7 DEF Linked, OnlyErasersWait
<1>9. DraftFollowsRows'
  BY <1>0, <1>1, <1>3, <1>4, <1>6, ZenonT(60) DEF DraftFollowsRows
<1>10. KeysDistinct' /\ RowKeysDistinct'
  BY <1>1, <1>4, <1>5 DEF Linked, KeysDistinct, RowKeysDistinct
<1>11. DoomedWereTheirs'
  <2>1. \A g \in DOMAIN draft' : draft'[g].key # draft[f].key
      BY <1>2, <1>4, <1>5 DEF Linked, KeysDistinct
  <2>2. holder' = r /\ rows'[f].key = draft[f].key
      BY <1>0, <1>1, <1>6
  <2>3. \A d \in job'[r].doomed : \E g \in job'[r].gone : rows'[g].key = d
      BY <1>3, <2>2
  <2>4. \A d \in job'[r].doomed : \A g \in DOMAIN draft' : draft'[g].key # d
      BY <1>3, <2>1
  <2>5. \A g \in job'[r].gone : rows'[g].key \in job'[r].doomed
      BY <1>3, <2>2
  <2> QED BY <2>2, <2>3, <2>4, <2>5 DEF DoomedWereTheirs
<1>12. DoomedAreNobodys'
  <2> SUFFICES ASSUME NEW q \in Req, Writer(q)', holder' # q, NEW d \in job'[q].doomed
               PROVE  /\ \A g \in DOMAIN rows' : rows'[g].key # d
                      /\ \A g \in DOMAIN draft' : draft'[g].key # d
      BY DEF DoomedAreNobodys
  <2>1. Writer(q) /\ holder # q /\ d \in job[q].doomed
      BY <1>0, <1>1, <1>7
  <2>2. /\ \A g \in DOMAIN rows : rows[g].key # d
        /\ \A g \in DOMAIN draft : draft[g].key # d
      BY <2>1 DEF Linked, DoomedAreNobodys
  <2> QED BY <1>1, <1>4, <1>5, <2>1, <2>2
<1> QED BY <1>8, <1>9, <1>10, <1>11, <1>12 DEF Fit

LEMMA FitAfterErase ==
    ASSUME Linked, NEW r \in Req, EraseRows(r)
    PROVE  Fit'
PROOF
<1>0. BTypeOK /\ holder = r /\ r # Null /\ Writer(r) /\ job[r].op = "erase" /\ job[r].gone = {}
  BY JobShapes, BlobStoreAssumption DEF Linked, EraseRows, Writing
<1>1. CASE Rollback(r)
  BY <1>0, <1>1, FitAfterRollback
<1>2. ASSUME NEW gone \in SUBSET DOMAIN draft,
             draft' = Without(draft, gone),
             job' = Aim(r, gone, {draft[f].key : f \in gone}),
             UNCHANGED <<rows, holder>>
      PROVE  Fit'
  <2> DEFINE doomed == {draft[f].key : f \in gone}
  <2>1. draft \in Table /\ gone \in SUBSET File /\ doomed \in SUBSET Key /\ job' = Aim(r, gone, doomed)
      BY <1>0, <1>2, TableIn DEF BTypeOK, Entry
  <2>2. \A k \in doomed : \E f \in gone : draft[f].key = k
      OBVIOUS
  <2>3. \A f \in gone : draft[f].key \in doomed
      OBVIOUS
  <2> HIDE DEF doomed
  <2>4. /\ job'[r].op = job[r].op /\ job'[r].gone = gone /\ job'[r].doomed = doomed
        /\ JobsAre(r)
      BY <1>0, <2>1, AimFrame
  <2>5. /\ DOMAIN draft' = DOMAIN draft \ gone
        /\ \A f \in DOMAIN draft \ gone : draft'[f] = draft[f]
      BY <1>2, WithoutFacts
  <2>6. draft = rows
      BY <1>0, NothingDoneYet
  <2>7. \A q \in Req : q # r => job'[q] = job[q] /\ (Writer(q)' <=> Writer(q))
      BY <2>4 DEF JobsAre, Writer
  <2>8. OnlyErasersWait'
      BY <1>0, <1>2, <2>7 DEF Linked, OnlyErasersWait
  <2>9. DraftFollowsRows'
      BY <1>0, <1>2, <2>4, <2>5, <2>6 DEF DraftFollowsRows
  <2>10. KeysDistinct' /\ RowKeysDistinct'
      BY <1>2, <2>5 DEF Linked, KeysDistinct, RowKeysDistinct
  <2>11. DoomedWereTheirs'
    <3>1. \A k \in doomed : \A f \in DOMAIN draft' : draft'[f].key # k
        BY <2>2, <2>5 DEF Linked, KeysDistinct
    <3> QED BY <1>0, <1>2, <2>2, <2>4, <2>6, <3>1 DEF DoomedWereTheirs
  <2>12. DoomedAreNobodys'
    <3> SUFFICES ASSUME NEW q \in Req, Writer(q)', holder' # q, NEW d \in job'[q].doomed
                 PROVE  /\ \A g \in DOMAIN rows' : rows'[g].key # d
                        /\ \A g \in DOMAIN draft' : draft'[g].key # d
        BY DEF DoomedAreNobodys
    <3>1. Writer(q) /\ holder # q /\ d \in job[q].doomed
        BY <1>0, <1>2, <2>7
    <3>2. /\ \A g \in DOMAIN rows : rows[g].key # d
          /\ \A g \in DOMAIN draft : draft[g].key # d
        BY <3>1 DEF Linked, DoomedAreNobodys
    <3> QED BY <1>2, <2>5, <3>2
  <2> QED BY <2>8, <2>9, <2>10, <2>11, <2>12 DEF Fit
<1> QED BY <1>1, <1>2 DEF EraseRows, Aim

LEMMA FitAfterStart ==
    ASSUME Linked, NEW r \in Req, StartTeam(r)
    PROVE  Fit'
PROOF
<1>0. BTypeOK /\ holder = r /\ r # Null /\ Writer(r) /\ job[r].op = "team" /\ job[r].gone = {}
  BY JobShapes, BlobStoreAssumption DEF Linked, StartTeam, Writing
<1>1. PICK gone \in SUBSET DOMAIN draft :
            /\ job' = Aim(r, gone, {draft[f].key : f \in gone})
            /\ UNCHANGED <<rows, draft, body, holder>>
  BY DEF StartTeam, Aim
<1> DEFINE doomed == {draft[f].key : f \in gone}
<1>2. draft \in Table /\ gone \in SUBSET File /\ doomed \in SUBSET Key /\ job' = Aim(r, gone, doomed)
  BY <1>0, <1>1, TableIn DEF BTypeOK, Entry
<1>3. \A k \in doomed : \E f \in gone : draft[f].key = k
  OBVIOUS
<1>4. \A f \in gone : draft[f].key \in doomed
  OBVIOUS
<1> HIDE DEF doomed
<1>5. /\ job'[r].op = job[r].op /\ job'[r].gone = gone /\ job'[r].doomed = doomed
      /\ JobsAre(r)
  BY <1>0, <1>2, AimFrame
<1>6. draft = rows
  BY <1>0, NothingDoneYet
<1>7. \A q \in Req : q # r => job'[q] = job[q] /\ (Writer(q)' <=> Writer(q))
  BY <1>5 DEF JobsAre, Writer
<1>8. OnlyErasersWait'
  BY <1>0, <1>1, <1>7 DEF Linked, OnlyErasersWait
<1>9. DraftFollowsRows'
  BY <1>0, <1>1, <1>5, <1>6 DEF DraftFollowsRows
<1>10. KeysDistinct' /\ RowKeysDistinct'
  BY <1>1 DEF Linked, KeysDistinct, RowKeysDistinct
<1>11. DoomedWereTheirs'
  BY <1>0, <1>1, <1>3, <1>4, <1>5, <1>6 DEF DoomedWereTheirs
<1>12. DoomedAreNobodys'
  BY <1>0, <1>1, <1>7 DEF Linked, DoomedAreNobodys
<1> QED BY <1>8, <1>9, <1>10, <1>11, <1>12 DEF Fit

LEMMA FitAfterTeamRows ==
    ASSUME Linked, NEW r \in Req, TeamRows(r)
    PROVE  Fit'
PROOF
<1>0. BTypeOK /\ holder = r /\ r # Null /\ job[r].op = "team"
  BY BlobStoreAssumption DEF Linked, TeamRows, Writing
<1>1. CASE Rollback(r)
  BY <1>0, <1>1, FitAfterRollback
<1>2. CASE draft' = Without(draft, job[r].gone) /\ UNCHANGED <<rows, body, holder, job>>
  <2>1. draft = rows /\ job[r].doomed = {}
      BY <1>0 DEF Linked, DraftFollowsRows, TeamRows
  <2>2. /\ DOMAIN draft' = DOMAIN draft \ job[r].gone
        /\ \A f \in DOMAIN draft \ job[r].gone : draft'[f] = draft[f]
      BY <1>2, WithoutFacts
  <2>3. \A q \in Req : Writer(q)' <=> Writer(q)
      BY <1>2 DEF Writer
  <2>4. OnlyErasersWait'
      BY <1>2, <2>3 DEF Linked, OnlyErasersWait
  <2>5. DraftFollowsRows'
      BY <1>0, <1>2, <2>1, <2>2 DEF Linked, DraftFollowsRows
  <2>6. KeysDistinct' /\ RowKeysDistinct'
      BY <1>2, <2>2 DEF Linked, KeysDistinct, RowKeysDistinct
  <2>7. DoomedWereTheirs'
      BY <1>0, <1>2 DEF Linked, DoomedWereTheirs
  <2>8. DoomedAreNobodys'
      BY <1>2, <2>2, <2>3 DEF Linked, DoomedAreNobodys
  <2> QED BY <2>4, <2>5, <2>6, <2>7, <2>8 DEF Fit
<1> QED BY <1>1, <1>2 DEF TeamRows

LEMMA FitAfterDelete ==
    ASSUME Linked, NEW r \in Req, DeleteBody(r)
    PROVE  Fit'
PROOF
<1>0. BTypeOK /\ Writer(r) /\ r # Null
  BY BlobStoreAssumption DEF Linked, DeleteBody, MayDelete, Writer
<1>1. PICK k \in job[r].doomed :
            /\ body' = Without(body, {k}) \/ (job[r].op = "erase" /\ body' = body)
            /\ \/ holder # r /\ job' = [job EXCEPT ![r] = Null]
               \/ job' = Pared(r, k)
            /\ UNCHANGED <<rows, draft, holder>>
  BY DEF DeleteBody, Pared
<1>2. DOMAIN Without(body, {k}) = DOMAIN body \ {k}
  BY DEF Without
<1>3. DOMAIN body' \subseteq DOMAIN body
  BY <1>1, <1>2
<1>4. CASE job' = [job EXCEPT ![r] = Null] /\ holder # r
  <2>1. job'[r] = Null /\ JobsAre(r)
      BY <1>0, <1>4, SetFrame
  <2>2. \A q \in Req : Writer(q)' => Writer(q) /\ job'[q] = job[q]
      BY <2>1 DEF JobsAre, Writer
  <2>3. holder # Null => job'[holder] = job[holder]
      BY <1>0, <1>4, <2>1 DEF JobsAre, BTypeOK
  <2> QED BY <1>1, <1>3, <2>2, <2>3, FitWhenIdle
<1>5. CASE job' = Pared(r, k)
  <2>1. /\ job'[r].op = job[r].op /\ job'[r].gone = job[r].gone
        /\ job'[r].doomed = job[r].doomed \ {k}
        /\ JobsAre(r)
      BY <1>0, <1>5, ParedFrame
  <2>2. \A q \in Req : q # r => job'[q] = job[q] /\ (Writer(q)' <=> Writer(q))
      BY <2>1 DEF JobsAre, Writer
  <2>3. OnlyErasersWait'
      BY <1>0, <1>1, <2>1, <2>2 DEF Linked, OnlyErasersWait
  <2>4. KeysDistinct' /\ RowKeysDistinct'
      BY <1>1 DEF Linked, KeysDistinct, RowKeysDistinct
  <2>5. DoomedAreNobodys'
    <3> SUFFICES ASSUME NEW q \in Req, Writer(q)', holder' # q, NEW d \in job'[q].doomed
                 PROVE  /\ \A g \in DOMAIN rows' : rows'[g].key # d
                        /\ \A g \in DOMAIN draft' : draft'[g].key # d
        BY DEF DoomedAreNobodys
    <3>1. Writer(q) /\ holder # q /\ d \in job[q].doomed
        BY <1>0, <1>1, <2>1, <2>2
    <3> QED BY <1>1, <3>1 DEF Linked, DoomedAreNobodys
  <2>6. CASE holder = r
    <3>1. DraftFollowsRows'
        BY <1>0, <1>1, <2>1, <2>6 DEF Linked, DraftFollowsRows
    <3>2. job[r].op \in {"save", "team"} => body' = Without(body, {k})
        BY <1>1
    <3>3. job[r].op \in {"save", "team"} => k \notin DOMAIN body'
        BY <1>2, <3>2
    <3>4. DoomedWereTheirs'
        BY <1>0, <1>1, <1>3, <2>1, <2>6, <3>3 DEF Linked, DoomedWereTheirs
    <3> QED BY <2>3, <2>4, <2>5, <3>1, <3>4 DEF Fit
  <2>7. CASE holder # r
    <3>1. holder # Null => job'[holder] = job[holder]
        BY <1>0, <2>2, <2>7 DEF BTypeOK
    <3>2. DraftFollowsRows'
        BY <1>1, <3>1 DEF Linked, DraftFollowsRows
    <3>3. DoomedWereTheirs'
        BY <1>1, <1>3, <3>1 DEF Linked, DoomedWereTheirs
    <3> QED BY <2>3, <2>4, <2>5, <3>2, <3>3 DEF Fit
  <2> QED BY <2>6, <2>7
<1> QED BY <1>1, <1>4, <1>5

LEMMA FitAfterCommit ==
    ASSUME Linked, NEW r \in Req, Commit(r)
    PROVE  Fit'
PROOF
<1>0. BTypeOK /\ Writer(r) /\ r # Null /\ holder = r
  BY JobShapes, BlobStoreAssumption DEF Linked, Commit
<1>1. /\ rows' = draft /\ draft' = draft /\ holder' = Null
      /\ job'[r] = IF job[r].doomed = {} THEN Null ELSE job[r]
      /\ JobsAre(r)
  BY <1>0, SetFrame DEF Commit
<1>2. \A q \in Req : q # r => job'[q] = job[q] /\ (Writer(q)' <=> Writer(q))
  BY <1>1 DEF JobsAre, Writer
<1>3. Writer(r)' => job'[r] = job[r] /\ job[r].op = "erase"
  BY <1>1 DEF Writer, Commit
<1>4. OnlyErasersWait'
  BY <1>0, <1>2, <1>3 DEF Linked, OnlyErasersWait
<1>5. DraftFollowsRows' /\ DoomedWereTheirs'
  BY <1>1 DEF DraftFollowsRows, DoomedWereTheirs
<1>6. KeysDistinct' /\ RowKeysDistinct'
  BY <1>1 DEF Linked, KeysDistinct, RowKeysDistinct
<1>7. DoomedAreNobodys'
  <2> SUFFICES ASSUME NEW q \in Req, Writer(q)', NEW d \in job'[q].doomed
               PROVE  \A g \in DOMAIN draft : draft[g].key # d
      BY <1>1 DEF DoomedAreNobodys
  <2>1. CASE q = r
      BY <1>0, <1>3, <2>1 DEF Linked, DoomedWereTheirs
  <2>2. CASE q # r
      BY <1>0, <1>2, <2>2 DEF Linked, DoomedAreNobodys
  <2> QED BY <2>1, <2>2
<1> QED BY <1>4, <1>5, <1>6, <1>7 DEF Fit

LEMMA Fits ==
    ASSUME Linked, [Next]_vars
    PROVE  Linked'
PROOF
<1>0. BTypeOK /\ BTypeOK'
  BY Shapes DEF Linked
<1> SUFFICES Fit'
  BY <1>0 DEF Linked, Fit
<1>1. CASE UNCHANGED vars
  BY <1>1, FitWhenIdle DEF vars, Writer
<1>2. CASE Crash
  <2>1. \A q \in Req : ~ Writer(q)'
      BY <1>2 DEF Crash, Writer
  <2> QED BY <1>2, <2>1, FitWithoutHolder DEF Crash
<1>3. CASE Refer
  <2>1. PICK f \in DOMAIN rows, ref \in Ref : rows' = [rows EXCEPT ![f].refs = @ \cup {ref}]
      BY <1>3 DEF Refer
  <2>2. DOMAIN rows' = DOMAIN rows /\ \A g \in DOMAIN rows : rows'[g].key = rows[g].key
      BY <1>0, <2>1, ReferFacts DEF BTypeOK
  <2>3. \A q \in Req : Writer(q)' => Writer(q) /\ holder # q /\ job'[q] = job[q]
      BY <1>3, BlobStoreAssumption DEF Refer, Writer
  <2> QED BY <1>3, <2>2, <2>3, FitWithoutHolder DEF Refer
<1>4. ASSUME NEW r \in Req, Step(r) PROVE Fit'
  <2>1. ASSUME NEW op \in Ops \ {"read"}, Begin(r, op) PROVE Fit'
      BY <2>1, FitAfterBegin
  <2>2. CASE UploadOne(r)
    <3>1. PICK f \in File \ DOMAIN draft, k \in Fresh : draft' = Add(f, k)
        BY <2>2 DEF UploadOne
    <3> QED BY <2>2, <3>1, FitAfterAdding DEF UploadOne, Writing
  <2>3. CASE CopyOne(r)
    <3>1. PICK f \in File \ DOMAIN draft, k \in Fresh : draft' = Add(f, k)
        BY <2>3 DEF CopyOne
    <3> QED BY <2>3, <3>1, FitAfterAdding DEF CopyOne, Writing
  <2>4. CASE Fail(r)
      BY <2>4, FitAfterRollback DEF Fail
  <2>5. CASE Lookup(r)
    <3>1. PICK f \in DOMAIN rows :
              job' = [job EXCEPT ![r] = [op |-> "read", key |-> rows[f].key,
                                         was |-> body[rows[f].key]]]
        BY <2>5 DEF Lookup
    <3> DEFINE v == [op |-> "read", key |-> rows[f].key, was |-> body[rows[f].key]]
    <3>2. v.op = "read" /\ job' = [job EXCEPT ![r] = v]
        BY <3>1
    <3> HIDE DEF v
    <3>4. job'[r].op = "read" /\ JobsAre(r)
        BY <1>0, <3>2, SetFrame
    <3>3. \A q \in Req : Writer(q)' => Writer(q) /\ job'[q] = job[q]
        BY <3>4 DEF Writer, JobsAre
    <3> QED BY <2>5, <3>3, FitWhenIdle DEF Lookup
  <2>6. CASE Serve(r)
    <3>1. job'[r] = Null /\ JobsAre(r)
        BY <1>0, <2>6, SetFrame DEF Serve
    <3>2. \A q \in Req : Writer(q)' => Writer(q) /\ job'[q] = job[q]
        BY <3>1 DEF Writer, JobsAre
    <3>3. holder # Null => job'[holder] = job[holder]
        BY <1>0, <2>6, <3>1 DEF BTypeOK, Serve, JobsAre
    <3> QED BY <2>6, <3>2, <3>3, FitWhenIdle DEF Serve
  <2> QED
      BY <1>4, <2>1, <2>2, <2>3, <2>4, <2>5, <2>6, FitAfterSave, FitAfterErase,
         FitAfterStart, FitAfterTeamRows, FitAfterDelete, FitAfterCommit DEF Step
<1> QED BY <1>1, <1>2, <1>3, <1>4 DEF Next

LEMMA StartFits == Init => Linked
PROOF
<1> SUFFICES ASSUME Init PROVE Linked
  OBVIOUS
<1>1. BTypeOK
  BY StartShapes
<1>2. OnlyErasersWait /\ DoomedAreNobodys
  BY DEF Init, OnlyErasersWait, DoomedAreNobodys, Writer
<1>3. DraftFollowsRows /\ DoomedWereTheirs
  BY DEF Init, DraftFollowsRows, DoomedWereTheirs
<1>4. KeysDistinct /\ RowKeysDistinct
  BY DEF Init, KeysDistinct, RowKeysDistinct
<1> QED BY <1>1, <1>2, <1>3, <1>4 DEF Linked

\* Tables, store and requests keep their shapes, and nobody has a draft without
\* the lock, whatever fails and whenever the process is killed.
THEOREM TablesHaveTheirShape == Spec => []BTypeOK
PROOF
<1>1. Init => BTypeOK
  BY StartShapes
<1>2. BTypeOK /\ [Next]_vars => BTypeOK'
  BY Shapes
<1> QED BY <1>1, <1>2, PTL DEF Spec

LEMMA AlwaysLinked == Spec => []Linked
PROOF
<1>1. Init => Linked
  BY StartFits
<1>2. Linked /\ [Next]_vars => Linked'
  BY Fits
<1> QED BY <1>1, <1>2, PTL DEF Spec

\* No two files ever share a body, not even within a transaction, so that
\* deleting the body of one leaves every other file whole.
THEOREM BodiesAreNotShared == Spec => []KeysDistinct
PROOF
<1>1. Linked => KeysDistinct
  BY DEF Linked
<1> QED BY <1>1, AlwaysLinked, PTL

-----------------------------------------------------------------------------
\* Downloads

\* What the store may do in a step: take in bodies under fresh keys, and lose some.
StoreGrows ==
    \A k \in DOMAIN body' :
        \/ k \in DOMAIN body /\ body'[k] = body[k]
        \/ k \in Fresh

LEMMA BodiesStay ==
    ASSUME [Next]_vars
    PROVE  StoreGrows
PROOF
<1>1. ASSUME NEW k \in Fresh, NEW c, body' = Put(k, c) PROVE StoreGrows
  <2>1. DOMAIN body' = DOMAIN body \cup {k} /\ \A i \in DOMAIN body \ {k} : body'[i] = body[i]
      BY <1>1 DEF Put
  <2> QED BY <2>1 DEF StoreGrows
<1>2. ASSUME NEW gone, body' = Without(body, gone) PROVE StoreGrows
  <2>1. DOMAIN body' = DOMAIN body \ gone /\ \A i \in DOMAIN body' : body'[i] = body[i]
      BY <1>2 DEF Without
  <2> QED BY <2>1 DEF StoreGrows
<1>3. ASSUME body' = body PROVE StoreGrows
  BY <1>3 DEF StoreGrows
<1>4. ASSUME NEW r \in Req, Step(r) PROVE StoreGrows
  <2>1. CASE UploadOne(r) \/ CopyOne(r) \/ SaveFile(r)
      BY <1>1, <2>1 DEF UploadOne, CopyOne, SaveFile
  <2>2. CASE DeleteBody(r)
      BY <1>2, <1>3, <2>2 DEF DeleteBody
  <2>3. CASE (\E op \in Ops \ {"read"} : Begin(r, op)) \/ StartTeam(r) \/ Commit(r)
      BY <1>3, <2>3 DEF Begin, StartTeam, Commit
  <2>4. CASE EraseRows(r) \/ TeamRows(r) \/ Fail(r)
      BY <1>3, <2>4 DEF EraseRows, TeamRows, Fail, Rollback
  <2>5. CASE Lookup(r) \/ Serve(r)
      BY <1>3, <2>5 DEF Lookup, Serve
  <2> QED BY <1>4, <2>1, <2>2, <2>3, <2>4, <2>5 DEF Step
<1> QED BY <1>3, <1>4 DEF Next, Crash, Refer, vars

\* A request that sends a body either was sending it before or has just read the
\* row and the body.
LEMMA ReadersStart ==
    ASSUME BTypeOK, [Next]_vars, NEW q \in Req, job'[q] # Null, job'[q].op = "read"
    PROVE  \/ job'[q] = job[q]
           \/ /\ body' = body /\ job'[q].key \in DOMAIN body
              /\ job'[q].was = body[job'[q].key]
PROOF
<1> DEFINE Fine == \/ job'[q] = job[q]
                   \/ /\ body' = body /\ job'[q].key \in DOMAIN body
                      /\ job'[q].was = body[job'[q].key]
<1>1. ASSUME NEW r \in Req, NEW v, v = Null \/ v.op # "read", job' = [job EXCEPT ![r] = v]
      PROVE  Fine
  BY <1>1, SetFrame DEF JobsAre
<1>2. ASSUME NEW r \in Req, Writer(r), NEW k, job' = Pared(r, k) PROVE Fine
  <2>1. job'[r].op = job[r].op /\ JobsAre(r)
      BY <1>2, ParedFrame
  <2> QED BY <1>2, <2>1 DEF JobsAre, Writer
<1>3. ASSUME NEW r \in Req, Writer(r), NEW gone \in SUBSET DOMAIN draft,
             job' = Aim(r, gone, {draft[f].key : f \in gone})
      PROVE  Fine
  <2> DEFINE doomed == {draft[f].key : f \in gone}
  <2>1. gone \in SUBSET File /\ doomed \in SUBSET Key /\ job' = Aim(r, gone, doomed)
      BY <1>3, TableIn DEF BTypeOK, Entry
  <2> HIDE DEF doomed
  <2>2. job'[r].op = job[r].op /\ JobsAre(r)
      BY <1>3, <2>1, AimFrame
  <2> QED BY <1>3, <2>2 DEF JobsAre, Writer
<1>4. ASSUME job' = job PROVE Fine
  BY <1>4
<1>5. ASSUME NEW r \in Req, Rollback(r) PROVE Fine
  BY <1>1, <1>5 DEF Rollback
<1>6. ASSUME NEW r \in Req, Step(r) PROVE Fine
  <2>1. ASSUME NEW op \in Ops \ {"read"}, Begin(r, op) PROVE Fine
      BY <1>1, <2>1 DEF Begin, Write
  <2>2. CASE UploadOne(r) \/ CopyOne(r)
      BY <1>4, <2>2 DEF UploadOne, CopyOne
  <2>3. CASE SaveFile(r)
    <3>1. Writer(r)
        BY <2>3, JobShapes DEF SaveFile, Writing
    <3>2. PICK f \in DOMAIN draft : job' = Aim(r, {f}, {draft[f].key})
        BY <2>3 DEF SaveFile, Aim
    <3>3. {f} \in SUBSET DOMAIN draft /\ {draft[g].key : g \in {f}} = {draft[f].key}
        OBVIOUS
    <3> QED BY <1>3, <3>1, <3>2, <3>3
  <2>4. CASE EraseRows(r)
    <3>1. Writer(r)
        BY <2>4, JobShapes DEF EraseRows, Writing
    <3>2. Rollback(r) \/ \E gone \in SUBSET DOMAIN draft :
                             job' = Aim(r, gone, {draft[f].key : f \in gone})
        BY <2>4 DEF EraseRows, Aim
    <3> QED BY <1>3, <1>5, <3>1, <3>2
  <2>5. CASE StartTeam(r)
    <3>1. Writer(r)
        BY <2>5, JobShapes DEF StartTeam, Writing
    <3>2. \E gone \in SUBSET DOMAIN draft : job' = Aim(r, gone, {draft[f].key : f \in gone})
        BY <2>5 DEF StartTeam, Aim
    <3> QED BY <1>3, <3>1, <3>2
  <2>6. CASE TeamRows(r) \/ Fail(r)
      BY <1>4, <1>5, <2>6 DEF TeamRows, Fail
  <2>7. CASE DeleteBody(r)
    <3>1. Writer(r)
        BY <2>7 DEF DeleteBody, MayDelete, Writer
    <3>2. job' = [job EXCEPT ![r] = Null] \/ \E k : job' = Pared(r, k)
        BY <2>7 DEF DeleteBody, Pared
    <3> QED BY <1>1, <1>2, <3>1, <3>2
  <2>8. CASE Commit(r)
    <3>1. Writer(r)
        BY <2>8, JobShapes DEF Commit
    <3>2. job' = [job EXCEPT ![r] = IF job[r].doomed = {} THEN Null ELSE job[r]]
        BY <2>8 DEF Commit
    <3> QED BY <1>1, <3>1, <3>2 DEF Writer
  <2>9. CASE Lookup(r)
    <3>1. PICK f \in DOMAIN rows :
              /\ rows[f].key \in DOMAIN body /\ body' = body
              /\ job' = [job EXCEPT ![r] = [op |-> "read", key |-> rows[f].key,
                                            was |-> body[rows[f].key]]]
        BY <2>9 DEF Lookup
    <3> DEFINE v == [op |-> "read", key |-> rows[f].key, was |-> body[rows[f].key]]
    <3>2. v.key = rows[f].key /\ v.was = body[rows[f].key] /\ job' = [job EXCEPT ![r] = v]
        BY <3>1
    <3> HIDE DEF v
    <3>3. job'[r] = v /\ JobsAre(r)
        BY <3>2, SetFrame
    <3> QED BY <3>1, <3>2, <3>3 DEF JobsAre
  <2>10. CASE Serve(r)
      BY <1>1, <2>10 DEF Serve
  <2> QED
      BY <1>6, <2>1, <2>2, <2>3, <2>4, <2>5, <2>6, <2>7, <2>8, <2>9, <2>10 DEF Step
<1>7. CASE Crash
  BY <1>7 DEF Crash
<1>8. CASE Refer \/ UNCHANGED vars
  BY <1>4, <1>8 DEF Refer, vars
<1> QED BY <1>6, <1>7, <1>8 DEF Next

\* A download never sends a mixture or another version than it announced: the
\* body under the key that it read is what it was, or it is gone.
THEOREM DownloadsAreWhole == Spec => []ReaderSeesOneVersion
PROOF
<1>1. Init => ReaderSeesOneVersion
  BY DEF Init, ReaderSeesOneVersion
<1>2. ASSUME BTypeOK, ReaderSeesOneVersion, [Next]_vars PROVE ReaderSeesOneVersion'
  <2> SUFFICES ASSUME NEW q \in Req, job'[q] # Null, job'[q].op = "read",
                      job'[q].key \in DOMAIN body'
               PROVE  body'[job'[q].key] = job'[q].was
      BY DEF ReaderSeesOneVersion
  <2>1. CASE job'[q] = job[q]
    <3>1. job'[q].key \notin Fresh
        BY <2>1 DEF Fresh
    <3>2. job'[q].key \in DOMAIN body /\ body'[job'[q].key] = body[job'[q].key]
        BY <1>2, <3>1, BodiesStay DEF StoreGrows
    <3> QED BY <1>2, <2>1, <3>2 DEF ReaderSeesOneVersion
  <2>2. CASE job'[q] # job[q]
      BY <1>2, <2>2, ReadersStart
  <2> QED BY <2>1, <2>2
<1> QED BY <1>1, <1>2, TablesHaveTheirShape, PTL DEF Spec

-----------------------------------------------------------------------------
\* Rows have their bodies, bodies have their rows

\* The bodies that a step takes away.
LEMMA DeletedBodies ==
    ASSUME NEW k
    PROVE  DOMAIN Without(body, {k}) = DOMAIN body \ {k}
PROOF BY DEF Without

LEMMA Calmer == ASSUME [Next]_vars, Orderly' PROVE Orderly
PROOF
<1>1. ASSUME calm' PROVE calm
  <2>1. ASSUME NEW r \in Req, Step(r) PROVE calm
      BY <1>1, <2>1 DEF Step, Begin, UploadOne, CopyOne, SaveFile, EraseRows, StartTeam,
                        TeamRows, DeleteBody, Commit, Fail, Lookup, Serve
  <2> QED BY <1>1, <2>1 DEF Next, Crash, Refer, vars
<1> QED BY <1>1 DEF Orderly

\* A request that is neither a save nor a team deletion finds all bodies there.
LEMMA AllThere ==
    ASSUME BodiesAreThere, holder = Null \/ job[holder].op \notin {"save", "team"}
    PROVE  /\ \A f \in DOMAIN rows : rows[f].key \in DOMAIN body
           /\ \A f \in DOMAIN draft : draft[f].key \in DOMAIN body
PROOF BY DEF BodiesAreThere

\* The same when its save or its deletion has not begun.
LEMMA AllThereAtFirst ==
    ASSUME BodiesAreThere, holder # Null, job[holder].gone = {}
    PROVE  /\ \A f \in DOMAIN rows : rows[f].key \in DOMAIN body
           /\ \A f \in DOMAIN draft : draft[f].key \in DOMAIN body
PROOF BY DEF BodiesAreThere

LEMMA ThereWithoutHolder ==
    ASSUME \A f \in DOMAIN rows : rows[f].key \in DOMAIN body,
           DOMAIN rows' = DOMAIN rows, \A f \in DOMAIN rows : rows'[f].key = rows[f].key,
           draft' = rows', body' = body, holder' = Null
    PROVE  BodiesAreThere'
PROOF BY DEF BodiesAreThere

\* An upload and a copy, a save: what they add.
LEMMA GrowthFacts ==
    ASSUME NEW r \in Req, UploadOne(r) \/ CopyOne(r)
    PROVE  \E f \in File \ DOMAIN draft, k \in Fresh :
               draft' = Add(f, k) /\ DOMAIN body' = DOMAIN body \cup {k}
PROOF
<1>1. CASE UploadOne(r)
  <2>1. PICK f \in File \ DOMAIN draft, k \in Fresh, c \in Content :
            draft' = Add(f, k) /\ body' = Put(k, c)
      BY <1>1 DEF UploadOne
  <2>2. DOMAIN body' = DOMAIN body \cup {k}
      BY <2>1 DEF Put
  <2> QED BY <2>1, <2>2
<1>2. CASE CopyOne(r)
  <2>1. PICK f \in DOMAIN rows, g \in File \ DOMAIN draft, k \in Fresh :
            draft' = Add(g, k) /\ body' = Put(k, body[rows[f].key])
      BY <1>2 DEF CopyOne
  <2>2. DOMAIN body' = DOMAIN body \cup {k}
      BY <2>1 DEF Put
  <2> QED BY <2>1, <2>2
<1> QED BY <1>1, <1>2

LEMMA SaveFacts ==
    ASSUME NEW r \in Req, SaveFile(r)
    PROVE  \E f \in DOMAIN draft, k \in Fresh :
               /\ DOMAIN body' = DOMAIN body \cup {k}
               /\ draft' = [draft EXCEPT ![f].key = k]
               /\ job' = Aim(r, {f}, {draft[f].key})
               /\ UNCHANGED <<rows, holder>>
PROOF
<1>1. PICK f \in DOMAIN draft, k \in Fresh, c \in Content :
          /\ body' = Put(k, c)
          /\ draft' = [draft EXCEPT ![f].key = k]
          /\ job' = Aim(r, {f}, {draft[f].key})
          /\ UNCHANGED <<rows, holder>>
  BY DEF SaveFile, Aim
<1>2. DOMAIN body' = DOMAIN body \cup {k}
  BY <1>1 DEF Put
<1> QED BY <1>1, <1>2

LEMMA ThereAfterGrowth ==
    ASSUME Linked, BodiesAreThere, NEW r \in Req, UploadOne(r) \/ CopyOne(r)
    PROVE  BodiesAreThere'
PROOF
<1>1. PICK f \in File \ DOMAIN draft, k \in Fresh :
          draft' = Add(f, k) /\ DOMAIN body' = DOMAIN body \cup {k}
  BY GrowthFacts
<1>2. DOMAIN Add(f, k) = DOMAIN draft \cup {f} /\ Add(f, k)[f].key = k
  BY DEF Add
<1>3. \A g \in DOMAIN draft : Add(f, k)[g] = draft[g]
  BY DEF Add
<1>4. /\ holder = r /\ r # Null /\ job[r].op \in {"upload", "copy"}
      /\ UNCHANGED <<rows, holder, job>>
  BY BlobStoreAssumption DEF UploadOne, CopyOne, Writing
<1>5. /\ \A g \in DOMAIN rows : rows[g].key \in DOMAIN body
      /\ \A g \in DOMAIN draft : draft[g].key \in DOMAIN body
  BY <1>4, AllThere
<1> QED BY <1>1, <1>2, <1>3, <1>4, <1>5 DEF BodiesAreThere

LEMMA ThereAfterSave ==
    ASSUME Linked, BodiesAreThere, NEW r \in Req, SaveFile(r)
    PROVE  BodiesAreThere'
PROOF
<1>0. BTypeOK /\ holder = r /\ r # Null /\ Writer(r) /\ job[r].op = "save" /\ job[r].gone = {}
  BY JobShapes, BlobStoreAssumption DEF Linked, SaveFile, Writing
<1>1. PICK f \in DOMAIN draft, k \in Fresh :
            /\ DOMAIN body' = DOMAIN body \cup {k}
            /\ draft' = [draft EXCEPT ![f].key = k]
            /\ job' = Aim(r, {f}, {draft[f].key})
            /\ UNCHANGED <<rows, holder>>
  BY SaveFacts
<1>2. draft \in Table /\ {f} \in SUBSET File /\ k \in Key /\ {draft[f].key} \in SUBSET Key
  BY <1>0, FreshIsKey, TableIn DEF BTypeOK, Entry
<1>3. job'[r].op = "save"
  <2> DEFINE gone == {f}
             doomed == {draft[f].key}
  <2>1. gone \in SUBSET File /\ doomed \in SUBSET Key /\ job' = Aim(r, gone, doomed)
      BY <1>1, <1>2
  <2> HIDE DEF gone, doomed
  <2> QED BY <1>0, <2>1, AimFrame
<1>4. /\ DOMAIN draft' = DOMAIN draft /\ draft'[f].key = k
      /\ \A g \in DOMAIN draft : g # f => draft'[g] = draft[g]
  BY <1>1, <1>2, RekeyFacts
<1>5. /\ \A g \in DOMAIN rows : rows[g].key \in DOMAIN body
      /\ \A g \in DOMAIN draft : draft[g].key \in DOMAIN body
  BY <1>0, AllThereAtFirst
<1> QED BY <1>0, <1>1, <1>3, <1>4, <1>5 DEF BodiesAreThere

LEMMA ThereAfterErase ==
    ASSUME Linked, BodiesAreThere, NEW r \in Req, EraseRows(r)
    PROVE  BodiesAreThere'
PROOF
<1>0. BTypeOK /\ holder = r /\ r # Null /\ Writer(r) /\ job[r].op = "erase"
  BY JobShapes, BlobStoreAssumption DEF Linked, EraseRows, Writing
<1>1. /\ \A g \in DOMAIN rows : rows[g].key \in DOMAIN body
      /\ \A g \in DOMAIN draft : draft[g].key \in DOMAIN body
  BY <1>0, AllThere
<1>2. CASE Rollback(r)
  BY <1>1, <1>2, ThereWithoutHolder DEF Rollback
<1>3. ASSUME NEW gone \in SUBSET DOMAIN draft,
             draft' = Without(draft, gone),
             job' = Aim(r, gone, {draft[f].key : f \in gone}),
             UNCHANGED <<rows, body, holder>>
      PROVE  BodiesAreThere'
  <2> DEFINE doomed == {draft[f].key : f \in gone}
  <2>1. gone \in SUBSET File /\ doomed \in SUBSET Key /\ job' = Aim(r, gone, doomed)
      BY <1>0, <1>3, TableIn DEF BTypeOK, Entry
  <2> HIDE DEF doomed
  <2>2. job'[r].op = "erase"
      BY <1>0, <2>1, AimFrame
  <2>3. /\ DOMAIN draft' = DOMAIN draft \ gone
        /\ \A f \in DOMAIN draft \ gone : draft'[f] = draft[f]
      BY <1>3, WithoutFacts
  <2> QED BY <1>0, <1>1, <1>3, <2>2, <2>3 DEF BodiesAreThere
<1> QED BY <1>2, <1>3 DEF EraseRows, Aim

LEMMA ThereAfterStart ==
    ASSUME Linked, BodiesAreThere, NEW r \in Req, StartTeam(r)
    PROVE  BodiesAreThere'
PROOF
<1>0. BTypeOK /\ holder = r /\ r # Null /\ Writer(r) /\ job[r].op = "team" /\ job[r].gone = {}
  BY JobShapes, BlobStoreAssumption DEF Linked, StartTeam, Writing
<1>1. PICK gone \in SUBSET DOMAIN draft :
            /\ \A f \in gone : draft[f].refs \subseteq TeamRef
            /\ job' = Aim(r, gone, {draft[f].key : f \in gone})
            /\ UNCHANGED <<rows, draft, body, holder>>
  BY DEF StartTeam, Aim
<1> DEFINE doomed == {draft[f].key : f \in gone}
<1>2. gone \in SUBSET File /\ doomed \in SUBSET Key /\ job' = Aim(r, gone, doomed)
  BY <1>0, <1>1, TableIn DEF BTypeOK, Entry
<1> HIDE DEF doomed
<1>3. job'[r].op = "team" /\ job'[r].gone = gone
  BY <1>0, <1>2, AimFrame
<1>4. /\ \A g \in DOMAIN rows : rows[g].key \in DOMAIN body
      /\ \A g \in DOMAIN draft : draft[g].key \in DOMAIN body
  BY <1>0, AllThereAtFirst
<1> QED BY <1>0, <1>1, <1>3, <1>4 DEF BodiesAreThere

LEMMA ThereAfterTeamRows ==
    ASSUME Linked, BodiesAreThere, Orderly', NEW r \in Req, TeamRows(r)
    PROVE  BodiesAreThere'
PROOF
<1>0. holder = r /\ r # Null /\ job[r].op = "team"
  BY BlobStoreAssumption DEF TeamRows, Writing
<1>1. CASE draft' = Without(draft, job[r].gone) /\ UNCHANGED <<rows, body, holder, job>>
  <2>1. /\ DOMAIN draft' = DOMAIN draft \ job[r].gone
        /\ \A f \in DOMAIN draft \ job[r].gone : draft'[f] = draft[f]
      BY <1>1, WithoutFacts
  <2> QED BY <1>0, <1>1, <2>1 DEF BodiesAreThere
<1>2. CASE /\ ~ \A f \in job[r].gone : draft[f].refs \subseteq {"share"}
           /\ calm' = FALSE
  <2>1. TeamRef \subseteq {"share"}
      BY <1>2 DEF Orderly, Careful
  <2>2. \A f \in job[r].gone : draft[f].refs \subseteq TeamRef
      BY <1>0 DEF BodiesAreThere, TeamRows
  <2> QED BY <1>2, <2>1, <2>2
<1> QED BY <1>1, <1>2 DEF TeamRows

LEMMA ThereAfterDelete ==
    ASSUME Linked, BodiesAreThere, NEW r \in Req, DeleteBody(r)
    PROVE  BodiesAreThere'
PROOF
<1>0. BTypeOK /\ Writer(r) /\ r # Null
  BY BlobStoreAssumption DEF Linked, DeleteBody, MayDelete, Writer
<1>1. PICK k \in job[r].doomed :
            /\ DOMAIN body \ {k} \subseteq DOMAIN body'
            /\ (job' = [job EXCEPT ![r] = Null] /\ holder # r) \/ job' = Pared(r, k)
            /\ UNCHANGED <<rows, draft, holder>>
  <2>1. PICK k \in job[r].doomed :
            /\ body' = Without(body, {k}) \/ body' = body
            /\ (job' = [job EXCEPT ![r] = Null] /\ holder # r) \/ job' = Pared(r, k)
            /\ UNCHANGED <<rows, draft, holder>>
      BY DEF DeleteBody, Pared
  <2>2. DOMAIN body \ {k} \subseteq DOMAIN body'
      BY <2>1, DeletedBodies
  <2> QED BY <2>1, <2>2
<1>2. /\ holder = r => job'[r].op = job[r].op /\ job'[r].gone = job[r].gone
      /\ JobsAre(r)
  <2>1. CASE job' = [job EXCEPT ![r] = Null] /\ holder # r
      BY <1>0, <2>1, SetFrame
  <2>2. CASE job' = Pared(r, k)
      BY <1>0, <2>2, ParedFrame
  <2> QED BY <1>1, <2>1, <2>2
<1>3. holder # Null => job'[holder].op = job[holder].op /\ job'[holder].gone = job[holder].gone
  BY <1>0, <1>2 DEF JobsAre, BTypeOK
<1>4. \A f \in DOMAIN rows : rows[f].key = k => holder = r /\ f \in job[r].gone
  BY <1>0, <1>1 DEF Linked, DoomedWereTheirs, DoomedAreNobodys, RowKeysDistinct, DraftFollowsRows
<1>5. holder = r => job[r].op \in {"save", "team"}
  BY DEF DeleteBody, MayDelete
<1>6. \A f \in DOMAIN draft : draft[f].key = k =>
          holder = r /\ job[r].op = "team" /\ f \in job[r].gone
  <2>1. CASE holder # r
      BY <1>0, <1>1, <2>1 DEF Linked, DoomedAreNobodys
  <2>2. CASE holder = r /\ job[r].op = "save"
      BY <1>0, <1>1, <2>2 DEF Linked, DoomedWereTheirs
  <2>3. CASE holder = r /\ job[r].op = "team"
    <3>1. draft = rows
        BY <1>0, <1>1, <2>3 DEF Linked, DraftFollowsRows
    <3> QED BY <1>4, <2>3, <3>1
  <2> QED BY <1>5, <2>1, <2>2, <2>3
<1>7. \A f \in DOMAIN rows :
          rows[f].key \in DOMAIN body'
          \/ (holder # Null /\ job[holder].op \in {"save", "team"} /\ f \in job[holder].gone)
  BY <1>0, <1>1, <1>4, <1>5 DEF BodiesAreThere
<1>8. \A f \in DOMAIN draft :
          draft[f].key \in DOMAIN body'
          \/ (holder # Null /\ job[holder].op = "team" /\ f \in job[holder].gone)
  BY <1>0, <1>1, <1>6 DEF BodiesAreThere
<1> QED BY <1>1, <1>3, <1>7, <1>8 DEF BodiesAreThere

LEMMA ThereAfterCommit ==
    ASSUME BodiesAreThere, NEW r \in Req, Commit(r)
    PROVE  BodiesAreThere'
PROOF
<1>1. \A f \in DOMAIN draft : draft[f].key \in DOMAIN body
  BY DEF Commit, BodiesAreThere
<1> QED BY <1>1 DEF Commit, BodiesAreThere

LEMMA ThereAfterNothing ==
    ASSUME BodiesAreThere, UNCHANGED <<rows, draft, body, holder>>,
           holder # Null => job'[holder] = job[holder]
    PROVE  BodiesAreThere'
PROOF BY DEF BodiesAreThere

LEMMA TheyAreThere ==
    ASSUME Linked, Orderly => BodiesAreThere, [Next]_vars
    PROVE  Orderly' => BodiesAreThere'
PROOF
<1> SUFFICES ASSUME Orderly' PROVE BodiesAreThere'
  OBVIOUS
<1>0. BTypeOK /\ BodiesAreThere
  BY Calmer DEF Linked
<1>1. CASE UNCHANGED vars
  BY <1>0, <1>1, ThereAfterNothing DEF vars
<1>2. CASE Crash
  <2>1. Careful
      BY <1>2 DEF Crash, Orderly
  <2>2. holder = Null \/ job[holder].op \notin {"save", "team"}
      BY <1>0, <1>2, <2>1 DEF Crash, Careful, BTypeOK
  <2> QED BY <1>0, <1>2, <2>2, AllThere, ThereWithoutHolder DEF Crash
<1>3. CASE Refer
  <2>1. PICK f \in DOMAIN rows, ref \in Ref : rows' = [rows EXCEPT ![f].refs = @ \cup {ref}]
      BY <1>3 DEF Refer
  <2>2. DOMAIN rows' = DOMAIN rows /\ \A g \in DOMAIN rows : rows'[g].key = rows[g].key
      BY <1>0, <2>1, ReferFacts DEF BTypeOK
  <2> QED BY <1>0, <1>3, <2>2, AllThere, ThereWithoutHolder DEF Refer
<1>4. ASSUME NEW r \in Req, Step(r) PROVE BodiesAreThere'
  <2>1. ASSUME NEW op \in Ops \ {"read"}, Begin(r, op) PROVE BodiesAreThere'
    <3>1. job'[r] = Write(op)
        BY <1>0, <2>1, SetFrame DEF Begin
    <3>2. job'[r].gone = {} /\ holder = Null /\ holder' = r /\ UNCHANGED <<rows, draft, body>>
        BY <2>1, <3>1 DEF Begin, Write
    <3> QED BY <1>0, <3>2, AllThere DEF BodiesAreThere
  <2>2. CASE Fail(r)
    <3>1. Careful
        BY <2>2 DEF Fail, Orderly
    <3>2. job[holder].op \notin {"save", "team"}
        BY <2>2, <3>1 DEF Fail, Careful
    <3> QED BY <1>0, <2>2, <3>2, AllThere, ThereWithoutHolder DEF Fail, Rollback
  <2>3. CASE Lookup(r)
      BY <1>0, <2>3, ThereAfterNothing DEF Lookup
  <2>4. CASE Serve(r)
    <3>1. job'[r] = Null /\ JobsAre(r)
        BY <1>0, <2>4, SetFrame DEF Serve
    <3>2. holder # Null => job'[holder] = job[holder]
        BY <1>0, <2>4, <3>1 DEF BTypeOK, Serve, JobsAre
    <3> QED BY <1>0, <2>4, <3>2, ThereAfterNothing DEF Serve
  <2> QED
      BY <1>0, <1>4, <2>1, <2>2, <2>3, <2>4, ThereAfterGrowth, ThereAfterSave, ThereAfterErase,
         ThereAfterStart, ThereAfterTeamRows, ThereAfterDelete, ThereAfterCommit DEF Step
<1> QED BY <1>1, <1>2, <1>3, <1>4 DEF Next

LEMMA AlwaysThere == Spec => [](Linked /\ (Orderly => BodiesAreThere))
PROOF
<1>1. Init => Linked /\ (Orderly => BodiesAreThere)
  BY StartFits DEF Init, BodiesAreThere
<1>2. Linked /\ (Orderly => BodiesAreThere) /\ [Next]_vars
          => Linked' /\ (Orderly => BodiesAreThere)'
  BY Fits, TheyAreThere
<1> QED BY <1>1, <1>2, PTL DEF Spec

\* As long as no save and no deletion of a team is interrupted, and nothing but
\* share links points to the files of such a team, every committed file has its
\* body: uploads, copies, purges and the sweep may fail, or the process be killed,
\* at any point of theirs.
THEOREM NoBodyIsLost == ASSUME Careful PROVE Spec => []NoMissingBody
PROOF
<1>1. Linked /\ (Orderly => BodiesAreThere) => NoMissingBody
  BY DEF Orderly, BodiesAreThere, NoMissingBody
<1> QED BY <1>1, AlwaysThere, PTL

\* A body is named by a row or on the list of a request that is going to delete it.
IsNamed(k) ==
    \/ \E f \in DOMAIN draft : draft[f].key = k
    \/ \E r \in Req : Writer(r) /\ k \in job[r].doomed

LEMMA NamedStays ==
    ASSUME AllAreNamed, calm' => calm, DOMAIN body' \subseteq DOMAIN body,
           \A f \in DOMAIN draft : \E g \in DOMAIN draft' : draft'[g].key = draft[f].key,
           \A q \in Req : Writer(q) =>
               (\A k \in job[q].doomed : k \in DOMAIN body' => Writer(q)' /\ k \in job'[q].doomed)
    PROVE  AllAreNamed'
PROOF
<1> SUFFICES ASSUME calm', NEW k \in DOMAIN body'
             PROVE  \/ \E f \in DOMAIN draft' : draft'[f].key = k
                    \/ \E q \in Req : Writer(q)' /\ k \in job'[q].doomed
  BY DEF AllAreNamed
<1>1. \/ \E f \in DOMAIN draft : draft[f].key = k
      \/ \E q \in Req : Writer(q) /\ k \in job[q].doomed
  BY DEF AllAreNamed
<1> QED BY <1>1

\* Only a failure or a restart can lose sight of a body.
LEMMA NamedWhenCalm ==
    ASSUME Linked, AllAreNamed, [Next]_vars
    PROVE  AllAreNamed'
PROOF
<1>0. BTypeOK
  BY DEF Linked
<1>1. ASSUME NEW r \in Req, holder = r, job[r].gone = {}, job[r].op = "erase", Rollback(r), calm' = calm
      PROVE  AllAreNamed'
  <2>1. draft = rows /\ job[r].doomed = {}
      BY <1>1, NothingDoneYet
  <2>2. JobsAre(r)
      BY <1>0, <1>1, SetFrame DEF Rollback
  <2> QED BY <1>1, <2>1, <2>2, NamedStays DEF Rollback, JobsAre, Writer
<1>2. ASSUME UNCHANGED <<draft, body, calm>>,
             \A q \in Req : Writer(q) /\ job[q].doomed # {} => job'[q] = job[q]
      PROVE  AllAreNamed'
  BY <1>2, NamedStays DEF Writer
<1>3. ASSUME NEW r \in Req, UploadOne(r) \/ CopyOne(r) PROVE AllAreNamed'
  <2>1. PICK f \in File \ DOMAIN draft, k \in Fresh :
            draft' = Add(f, k) /\ DOMAIN body' = DOMAIN body \cup {k}
      BY <1>3, GrowthFacts
  <2>2. DOMAIN draft' = DOMAIN draft \cup {f} /\ draft'[f].key = k
      BY <2>1 DEF Add
  <2>3. \A g \in DOMAIN draft : draft'[g] = draft[g]
      BY <2>1 DEF Add
  <2>4. job' = job /\ calm' = calm
      BY <1>3 DEF UploadOne, CopyOne
  <2> QED BY <2>1, <2>2, <2>3, <2>4 DEF AllAreNamed, Writer
<1>4. ASSUME NEW r \in Req, SaveFile(r) PROVE AllAreNamed'
  <2>0. holder = r /\ Writer(r) /\ job[r].gone = {} /\ job[r].op = "save" /\ calm' = calm
      BY <1>0, <1>4, JobShapes DEF SaveFile, Writing
  <2>1. PICK f \in DOMAIN draft, k \in Fresh :
            /\ DOMAIN body' = DOMAIN body \cup {k}
            /\ draft' = [draft EXCEPT ![f].key = k]
            /\ job' = Aim(r, {f}, {draft[f].key})
      BY <1>4, SaveFacts
  <2> DEFINE gone == {f}
             doomed == {draft[f].key}
  <2>2. draft \in Table /\ k \in Key /\ gone \in SUBSET File /\ doomed \in SUBSET Key
        /\ job' = Aim(r, gone, doomed) /\ draft[f].key \in doomed
      BY <1>0, <2>1, FreshIsKey, TableIn DEF BTypeOK, Entry
  <2> HIDE DEF gone, doomed
  <2>3. job'[r].op = "save" /\ job'[r].doomed = doomed /\ JobsAre(r) /\ job'[r] # Null
      BY <1>0, <2>0, <2>2, AimFrame, AimFacts, AimTypes, JobShapes DEF BTypeOK, JobsTyped
  <2>4. /\ DOMAIN draft' = DOMAIN draft /\ draft'[f].key = k
        /\ \A g \in DOMAIN draft : g # f => draft'[g] = draft[g]
      BY <2>1, <2>2, RekeyFacts
  <2>6. job[r].doomed = {}
      BY <2>0, NothingDoneYet
  <2> SUFFICES ASSUME calm', NEW b \in DOMAIN body'
               PROVE  \/ \E g \in DOMAIN draft' : draft'[g].key = b
                      \/ \E q \in Req : Writer(q)' /\ b \in job'[q].doomed
      BY DEF AllAreNamed
  <2>7. CASE b = k
      BY <2>4, <2>7
  <2>8. ASSUME NEW g \in DOMAIN draft, draft[g].key = b
        PROVE  \/ \E h \in DOMAIN draft' : draft'[h].key = b
               \/ \E q \in Req : Writer(q)' /\ b \in job'[q].doomed
      BY <2>2, <2>3, <2>4, <2>8 DEF Writer
  <2>9. ASSUME NEW q \in Req, Writer(q), b \in job[q].doomed
        PROVE  Writer(q)' /\ b \in job'[q].doomed
      BY <2>3, <2>6, <2>9 DEF Writer, JobsAre
  <2> QED BY <2>0, <2>1, <2>7, <2>8, <2>9 DEF AllAreNamed
<1>5. ASSUME NEW r \in Req, EraseRows(r) PROVE AllAreNamed'
  <2>0. holder = r /\ Writer(r) /\ job[r].gone = {} /\ job[r].op = "erase" /\ calm' = calm
      BY <1>0, <1>5, JobShapes DEF EraseRows, Writing
  <2>1. CASE Rollback(r)
      BY <1>1, <2>0, <2>1
  <2>2. ASSUME NEW gone \in SUBSET DOMAIN draft,
               draft' = Without(draft, gone), body' = body,
               job' = Aim(r, gone, {draft[f].key : f \in gone})
        PROVE  AllAreNamed'
    <3> DEFINE doomed == {draft[f].key : f \in gone}
    <3>1. gone \in SUBSET File /\ doomed \in SUBSET Key /\ job' = Aim(r, gone, doomed)
        BY <1>0, <2>2, TableIn DEF BTypeOK, Entry
    <3>2. \A f \in gone : draft[f].key \in doomed
        OBVIOUS
    <3> HIDE DEF doomed
    <3>3. job'[r].op = "erase" /\ job'[r].doomed = doomed /\ JobsAre(r) /\ job'[r] # Null
        BY <1>0, <2>0, <3>1, AimFrame, AimTypes, JobShapes DEF BTypeOK, JobsTyped
    <3>4. /\ DOMAIN draft' = DOMAIN draft \ gone
          /\ \A f \in DOMAIN draft \ gone : draft'[f] = draft[f]
        BY <2>2, WithoutFacts
    <3>5. job[r].doomed = {}
        BY <2>0, NothingDoneYet
    <3> SUFFICES ASSUME calm', NEW b \in DOMAIN body
                 PROVE  \/ \E g \in DOMAIN draft' : draft'[g].key = b
                        \/ \E q \in Req : Writer(q)' /\ b \in job'[q].doomed
        BY <2>2 DEF AllAreNamed
    <3>6. ASSUME NEW g \in DOMAIN draft, draft[g].key = b
          PROVE  \/ \E h \in DOMAIN draft' : draft'[h].key = b
                 \/ \E q \in Req : Writer(q)' /\ b \in job'[q].doomed
        BY <3>2, <3>3, <3>4, <3>6 DEF Writer
    <3>7. ASSUME NEW q \in Req, Writer(q), b \in job[q].doomed
          PROVE  Writer(q)' /\ b \in job'[q].doomed
        BY <3>3, <3>5, <3>7 DEF Writer, JobsAre
    <3> QED BY <2>0, <3>6, <3>7 DEF AllAreNamed
  <2> QED BY <1>5, <2>1, <2>2 DEF EraseRows, Aim
<1>6. ASSUME NEW r \in Req, StartTeam(r) PROVE AllAreNamed'
  <2>0. holder = r /\ Writer(r) /\ job[r].gone = {} /\ job[r].op = "team"
      BY <1>0, <1>6, JobShapes DEF StartTeam, Writing
  <2>1. PICK gone \in SUBSET DOMAIN draft : job' = Aim(r, gone, {draft[f].key : f \in gone})
      BY <1>6 DEF StartTeam, Aim
  <2> DEFINE doomed == {draft[f].key : f \in gone}
  <2>2. gone \in SUBSET File /\ doomed \in SUBSET Key /\ job' = Aim(r, gone, doomed)
      BY <1>0, <2>1, TableIn DEF BTypeOK, Entry
  <2> HIDE DEF doomed
  <2>3. JobsAre(r)
      BY <1>0, <2>0, <2>2, AimFrame
  <2>4. job[r].doomed = {}
      BY <2>0, NothingDoneYet
  <2> QED BY <1>2, <1>6, <2>3, <2>4 DEF StartTeam, JobsAre
<1>7. ASSUME NEW r \in Req, TeamRows(r) PROVE AllAreNamed'
  <2>0. holder = r /\ r # Null /\ Writer(r) /\ job[r].op = "team" /\ job[r].doomed = {}
      BY <1>0, <1>7, JobShapes, BlobStoreAssumption DEF TeamRows, Writing
  <2>1. CASE calm' = FALSE
      BY <2>1 DEF AllAreNamed
  <2>2. CASE draft' = Without(draft, job[r].gone) /\ UNCHANGED <<rows, body, holder, job, calm>>
    <3>1. draft = rows
        BY <1>7, <2>0 DEF Linked, DraftFollowsRows, TeamRows
    <3>2. \A f \in job[r].gone : draft[f].key \notin DOMAIN body
        BY <2>0, <3>1 DEF Linked, DoomedWereTheirs
    <3>3. /\ DOMAIN draft' = DOMAIN draft \ job[r].gone
          /\ \A f \in DOMAIN draft \ job[r].gone : draft'[f] = draft[f]
        BY <2>2, WithoutFacts
    <3> QED BY <2>2, <3>2, <3>3 DEF AllAreNamed, Writer
  <2> QED BY <1>7, <2>1, <2>2 DEF TeamRows
<1>8. ASSUME NEW r \in Req, DeleteBody(r) PROVE AllAreNamed'
  <2>0. Writer(r)
      BY <1>8 DEF DeleteBody, MayDelete, Writer
  <2>1. PICK k \in job[r].doomed :
            /\ (body' = Without(body, {k}) /\ calm' = calm) \/ calm' = FALSE
            /\ (job' = [job EXCEPT ![r] = Null] /\ job[r].doomed = {k}) \/ job' = Pared(r, k)
            /\ UNCHANGED <<rows, draft, holder>>
      BY <1>8 DEF DeleteBody, Pared
  <2>2. JobsAre(r) /\ (job[r].doomed = {k} \/ (Writer(r)' /\ job'[r].doomed = job[r].doomed \ {k}))
    <3>1. CASE job' = [job EXCEPT ![r] = Null] /\ job[r].doomed = {k}
        BY <1>0, <3>1, SetFrame
    <3>2. CASE job' = Pared(r, k)
      <4>1. job'[r] \in WriteJob /\ job'[r].doomed = job[r].doomed \ {k} /\ JobsAre(r)
          BY <1>0, <2>0, <3>2, ParedFrame
      <4>2. Writer(r)'
          BY <4>1, WriteJobsAreJobs DEF Writer
      <4> QED BY <4>1, <4>2
    <3> QED BY <2>1, <3>1, <3>2
  <2>3. CASE calm' = FALSE
      BY <2>3 DEF AllAreNamed
  <2>4. CASE body' = Without(body, {k}) /\ calm' = calm
    <3>1. DOMAIN body' = DOMAIN body \ {k}
        BY <2>4, DeletedBodies
    <3>2. ASSUME NEW q \in Req, Writer(q), NEW b \in job[q].doomed, b \in DOMAIN body'
          PROVE  Writer(q)' /\ b \in job'[q].doomed
        BY <2>2, <3>1, <3>2 DEF Writer, JobsAre
    <3> QED BY <2>1, <2>4, <3>1, <3>2, NamedStays
  <2> QED BY <2>1, <2>3, <2>4
<1>9. ASSUME NEW r \in Req, Commit(r) PROVE AllAreNamed'
  <2>1. job'[r] = IF job[r].doomed = {} THEN Null ELSE job[r]
      BY <1>0, <1>9, SetFrame DEF Commit
  <2>2. JobsAre(r)
      BY <1>0, <1>9, SetFrame DEF Commit
  <2> QED BY <1>2, <1>9, <2>1, <2>2 DEF Commit, JobsAre
<1>10. ASSUME NEW r \in Req, NEW op \in Ops \ {"read"}, Begin(r, op) PROVE AllAreNamed'
  <2>1. JobsAre(r)
      BY <1>0, <1>10, SetFrame DEF Begin
  <2> QED BY <1>2, <1>10, <2>1 DEF Begin, JobsAre, Writer
<1>11. ASSUME NEW r \in Req, Lookup(r) PROVE AllAreNamed'
  <2>1. PICK v : job' = [job EXCEPT ![r] = v]
      BY <1>11 DEF Lookup
  <2>2. JobsAre(r)
      BY <1>0, <2>1, SetFrame
  <2> QED BY <1>2, <1>11, <2>2 DEF Lookup, JobsAre, Writer
<1>12. ASSUME NEW r \in Req, Serve(r) PROVE AllAreNamed'
  <2>1. JobsAre(r)
      BY <1>0, <1>12, SetFrame DEF Serve
  <2> QED BY <1>2, <1>12, <2>1 DEF Serve, JobsAre, Writer
<1>13. CASE Refer
  <2>1. PICK f \in DOMAIN rows, ref \in Ref : rows' = [rows EXCEPT ![f].refs = @ \cup {ref}]
      BY <1>13 DEF Refer
  <2>2. DOMAIN rows' = DOMAIN rows /\ \A g \in DOMAIN rows : rows'[g].key = rows[g].key
      BY <1>0, <2>1, ReferFacts DEF BTypeOK
  <2>3. draft = rows /\ draft' = rows'
      BY <1>0, <1>13 DEF Refer, BTypeOK
  <2> QED BY <1>13, <2>2, <2>3, NamedStays DEF Refer, Writer
<1>14. CASE Crash
  BY <1>14 DEF Crash, AllAreNamed
<1>15. CASE UNCHANGED vars
  BY <1>2, <1>15 DEF vars
<1>16. ASSUME NEW r \in Req, Fail(r) PROVE AllAreNamed'
  BY <1>16 DEF Fail, AllAreNamed
<1> QED
  BY <1>3, <1>4, <1>5, <1>6, <1>7, <1>8, <1>9, <1>10, <1>11, <1>12, <1>13, <1>14, <1>15, <1>16
     DEF Next, Step

\* Whatever was uploaded, copied, saved over and purged, in whatever order and by
\* however many requests at once: once they are all through and nothing has gone
\* wrong, the store holds exactly the bodies that the table names.
THEOREM NoBodyIsLeftOver == Spec => []NothingIsLeftBehind
PROOF
<1>1. Init => AllAreNamed
  BY DEF Init, AllAreNamed
<1>2. Linked /\ AllAreNamed /\ [Next]_vars => AllAreNamed'
  BY NamedWhenCalm
<1>3. Linked /\ (Orderly => BodiesAreThere) /\ AllAreNamed => NothingIsLeftBehind
  <2> SUFFICES ASSUME Linked, Orderly => BodiesAreThere, AllAreNamed,
                      calm, \A r \in Req : job[r] = Null
               PROVE  DOMAIN body = KeysOf(rows)
      BY DEF NothingIsLeftBehind
  <2>1. holder = Null /\ draft = rows
      BY DEF Linked, BTypeOK
  <2>2. \A f \in DOMAIN rows : rows[f].key \in DOMAIN body
      BY <2>1, AllThere DEF Orderly
  <2>3. \A k \in DOMAIN body : \E f \in DOMAIN rows : rows[f].key = k
      BY <2>1 DEF AllAreNamed, Writer
  <2> QED BY <2>2, <2>3 DEF KeysOf
<1> QED BY <1>1, <1>2, <1>3, AlwaysThere, PTL DEF Spec

-----------------------------------------------------------------------------
\* The promise of FileStore

\* The holder of the lock has begun to delete bodies of committed files.
Torn == holder # Null /\ \E f \in DOMAIN rows : rows[f].key \notin DOMAIN body

\* What a table and a store give its files.
Shown(t, b) == [f \in DOMAIN t |-> IF t[f].key \in DOMAIN b THEN b[t[f].key] ELSE Null]

Ready == Linked /\ BodiesAreThere

LEMMA ContentsAre ==
    /\ Contents = Shown(Settled, body) /\ Contents' = Shown(Settled', body')
    /\ ~ Torn => Settled = rows
    /\ ~ Torn' => Settled' = rows'
    /\ Torn /\ job[holder].op = "team" => Settled = Without(rows, job[holder].gone)
    /\ Torn' /\ job'[holder'].op = "team" => Settled' = Without(rows', job'[holder'].gone)
    /\ Torn /\ job[holder].op # "team" => Settled = draft
    /\ Torn' /\ job'[holder'].op # "team" => Settled' = draft'
PROOF BY DEF Contents, Shown, Settled, Torn

LEMMA SameShown ==
    ASSUME NEW t, NEW u, NEW b, NEW c, DOMAIN t = DOMAIN u,
           \A f \in DOMAIN t :
               /\ t[f].key = u[f].key
               /\ t[f].key \in DOMAIN b <=> t[f].key \in DOMAIN c
               /\ t[f].key \in DOMAIN b => b[t[f].key] = c[t[f].key]
    PROVE  Shown(t, b) = Shown(u, c)
PROOF BY DEF Shown

LEMMA TornBySaveOrTeam ==
    ASSUME Ready, Torn
    PROVE  job[holder].op \in {"save", "team"} /\ job[holder].gone # {}
PROOF BY DEF Ready, BodiesAreThere, Torn

\* Same committed table, nothing torn before and after, no body touched that it names.
LEMMA QuietStep ==
    ASSUME ~ Torn, ~ Torn', DOMAIN rows' = DOMAIN rows,
           \A f \in DOMAIN rows :
               /\ rows'[f].key = rows[f].key
               /\ rows[f].key \in DOMAIN body <=> rows[f].key \in DOMAIN body'
               /\ rows[f].key \in DOMAIN body => body[rows[f].key] = body'[rows[f].key]
    PROVE  Contents' = Contents
PROOF
<1>1. Settled = rows /\ Settled' = rows' /\ Contents = Shown(rows, body) /\ Contents' = Shown(rows', body')
  BY ContentsAre
<1>2. Shown(rows, body) = Shown(rows', body')
  BY SameShown
<1> QED BY <1>1, <1>2

\* A rollback shows nothing of what it undoes.
LEMMA QuietRollback ==
    ASSUME Ready, holder = Null \/ job[holder].op \notin {"save", "team"},
           UNCHANGED <<rows, body>>, holder' = Null
    PROVE  Contents' = Contents
PROOF
<1>1. ~ Torn /\ ~ Torn'
  BY TornBySaveOrTeam DEF Torn
<1> QED BY <1>1, QuietStep

LEMMA QuietWork ==
    ASSUME Ready, NEW r \in Req,
           UploadOne(r) \/ CopyOne(r) \/ SaveFile(r) \/ EraseRows(r) \/ StartTeam(r)
    PROVE  Contents' = Contents
PROOF
<1>1. /\ rows' = rows
      /\ holder = r /\ (job[r].op \in {"upload", "copy", "erase"} \/ job[r].gone = {})
  BY DEF UploadOne, CopyOne, SaveFile, EraseRows, StartTeam, Rollback, Writing
<1>2. \A f \in DOMAIN rows : rows[f].key \in DOMAIN body
  BY <1>1, BlobStoreAssumption DEF Ready, BodiesAreThere
<1>3. \A f \in DOMAIN rows : rows[f].key \in DOMAIN body' /\ body'[rows[f].key] = body[rows[f].key]
  <2>1. CASE body' = body
      BY <1>2, <2>1
  <2>2. ASSUME NEW k \in Fresh, NEW c, body' = Put(k, c)
        PROVE  \A f \in DOMAIN rows :
                   rows[f].key \in DOMAIN body' /\ body'[rows[f].key] = body[rows[f].key]
    <3>1. \A f \in DOMAIN rows : rows[f].key # k
        BY DEF Fresh, KeysOf
    <3> QED BY <1>2, <2>2, <3>1 DEF Put
  <2> QED BY <2>1, <2>2 DEF UploadOne, CopyOne, SaveFile, EraseRows, StartTeam, Rollback
<1>4. ~ Torn /\ ~ Torn'
  BY <1>1, <1>2, <1>3 DEF Torn
<1> QED BY <1>1, <1>2, <1>3, <1>4, QuietStep

LEMMA QuietTeamRows ==
    ASSUME Ready, Careful, NEW r \in Req, TeamRows(r)
    PROVE  Contents' = Contents
PROOF
<1>1. holder = r /\ r # Null /\ job[r].op = "team"
  BY BlobStoreAssumption DEF TeamRows, Writing
<1>2. \A f \in job[r].gone : draft[f].refs \subseteq {"share"}
  BY <1>1 DEF Ready, BodiesAreThere, TeamRows, Careful
<1>3. UNCHANGED <<rows, body, holder, job>>
  BY <1>2 DEF TeamRows
<1>4. Settled' = Settled
  BY <1>1, <1>3 DEF Settled
<1> QED BY <1>3, <1>4, ContentsAre

\* One deletion, apart from whether it fails.
LEMMA DeleteFacts ==
    ASSUME BTypeOK, NEW r \in Req, DeleteBody(r)
    PROVE  /\ UNCHANGED <<rows, draft, holder>> /\ Writer(r) /\ r # Null
           /\ holder = r => job[r].op \in {"save", "team"}
           /\ holder # Null => /\ job'[holder].op = job[holder].op
                               /\ job'[holder].gone = job[holder].gone
           /\ \E k \in job[r].doomed :
                /\ body' = body \/ DOMAIN body' = DOMAIN body \ {k}
                /\ holder = r => DOMAIN body' = DOMAIN body \ {k}
                /\ \A i \in DOMAIN body' : i \in DOMAIN body /\ body'[i] = body[i]
PROOF
<1>0. Writer(r) /\ r # Null
  BY BlobStoreAssumption DEF DeleteBody, MayDelete, Writer
<1>1. UNCHANGED <<rows, draft, holder>> /\ (holder = r => job[r].op \in {"save", "team"})
  BY DEF DeleteBody, MayDelete
<1>2. PICK k \in job[r].doomed :
            /\ body' = Without(body, {k}) \/ (job[r].op = "erase" /\ body' = body)
            /\ (job' = [job EXCEPT ![r] = Null] /\ holder # r) \/ job' = Pared(r, k)
  BY DEF DeleteBody, Pared
<1>3. JobsAre(r) /\ (holder = r => job'[r].op = job[r].op /\ job'[r].gone = job[r].gone)
  <2>1. CASE job' = [job EXCEPT ![r] = Null] /\ holder # r
      BY <2>1, SetFrame
  <2>2. CASE job' = Pared(r, k)
      BY <1>0, <2>2, ParedFrame
  <2> QED BY <1>2, <2>1, <2>2
<1>4. holder # Null => job'[holder].op = job[holder].op /\ job'[holder].gone = job[holder].gone
  BY <1>3 DEF JobsAre, BTypeOK
<1>5. /\ DOMAIN Without(body, {k}) = DOMAIN body \ {k}
      /\ \A i \in DOMAIN body \ {k} : Without(body, {k})[i] = body[i]
  BY DEF Without
<1>6. /\ body' = body \/ DOMAIN body' = DOMAIN body \ {k}
      /\ holder = r => DOMAIN body' = DOMAIN body \ {k}
  BY <1>1, <1>2, <1>5
<1>7. \A i \in DOMAIN body' : i \in DOMAIN body /\ body'[i] = body[i]
  BY <1>2, <1>5
<1> QED BY <1>0, <1>1, <1>4, <1>6, <1>7

\* A purge or a sweep takes bodies that nobody sees any more.
LEMMA QuietCleaning ==
    ASSUME Ready, NEW r \in Req, DeleteBody(r), holder # r
    PROVE  Contents' = Contents
PROOF
<1>0. BTypeOK
  BY DEF Ready, Linked
<1>1. PICK k \in job[r].doomed :
            /\ body' = body \/ DOMAIN body' = DOMAIN body \ {k}
            /\ \A i \in DOMAIN body' : i \in DOMAIN body /\ body'[i] = body[i]
  BY <1>0, DeleteFacts
<1>2. /\ UNCHANGED <<rows, draft, holder>> /\ Writer(r)
      /\ holder # Null => /\ job'[holder].op = job[holder].op
                          /\ job'[holder].gone = job[holder].gone
  BY <1>0, DeleteFacts
<1>3. /\ \A f \in DOMAIN rows : rows[f].key # k
      /\ \A f \in DOMAIN draft : draft[f].key # k
  BY <1>2 DEF Ready, Linked, DoomedAreNobodys
<1>4. \A i : i # k => (i \in DOMAIN body <=> i \in DOMAIN body')
  BY <1>1
<1>5. Settled' = Settled
  BY <1>2, <1>3, <1>4 DEF Settled
<1>6. \A f \in DOMAIN Settled : Settled[f].key # k
  <2>1. \A gone : \A f \in DOMAIN Without(rows, gone) : Without(rows, gone)[f].key # k
      BY <1>3 DEF Without
  <2> QED BY <1>3, <2>1 DEF Settled
<1>7. Shown(Settled, body) = Shown(Settled, body')
  BY <1>1, <1>4, <1>6, SameShown
<1> QED BY <1>5, <1>7, ContentsAre

\* The save is there with the deletion of the body it replaces.
LEMMA SaveReplaces ==
    ASSUME Ready, Ready', NEW r \in Req, DeleteBody(r), holder = r, job[r].op = "save"
    PROVE  Contents' = Contents \/ Promise!Replace
PROOF
<1>0. BTypeOK
  BY DEF Ready, Linked
<1>1. PICK k \in job[r].doomed :
            /\ DOMAIN body' = DOMAIN body \ {k}
            /\ \A i \in DOMAIN body' : body'[i] = body[i]
  BY <1>0, DeleteFacts
<1>2. /\ UNCHANGED <<rows, draft, holder>> /\ r # Null
      /\ job'[r].op = "save" /\ job'[r].gone = job[r].gone
  BY <1>0, DeleteFacts
<1>3. PICK f \in job[r].gone : rows[f].key = k
  BY <1>2 DEF Ready, Linked, DoomedWereTheirs
<1>4. /\ f \in DOMAIN rows /\ f \in DOMAIN draft /\ \A g \in job[r].gone : g = f
      /\ DOMAIN draft = DOMAIN rows
      /\ \A g \in DOMAIN rows : g # f => draft[g] = rows[g]
  BY <1>2, <1>3 DEF Ready, Linked, DraftFollowsRows
<1>5. \A g \in DOMAIN draft : draft[g].key # k /\ draft[g].key \in DOMAIN body
  BY <1>1, <1>2 DEF Ready, Linked, DoomedWereTheirs, BodiesAreThere
<1>6. Torn'
  BY <1>1, <1>2, <1>3, <1>4 DEF Torn
<1>7. Contents' = Shown(draft, body')
  BY <1>2, <1>6, ContentsAre
<1>8. Shown(draft, body') = Shown(draft, body)
  BY <1>1, <1>5, SameShown
<1>9. CASE Torn
  <2>1. Contents = Shown(draft, body)
      BY <1>9, ContentsAre
  <2> QED BY <1>7, <1>8, <2>1
<1>10. CASE ~ Torn
  <2>1. Contents = Shown(rows, body)
      BY <1>10, ContentsAre
  <2> DEFINE c == body[draft[f].key]
  <2>2. c \in Content
      BY <1>0, <1>4, <1>5 DEF BTypeOK
  <2>3. Shown(draft, body) = [Shown(rows, body) EXCEPT ![f] = c]
      BY <1>4, <1>5 DEF Shown
  <2>4. f \in DOMAIN Contents
      BY <1>4, <2>1 DEF Shown
  <2> QED BY <1>7, <1>8, <2>1, <2>2, <2>3, <2>4 DEF Promise!Replace
<1> QED BY <1>9, <1>10

\* The files of a team are gone with the first of their bodies.
LEMMA TeamErases ==
    ASSUME Ready, NEW r \in Req, DeleteBody(r), holder = r, job[r].op = "team"
    PROVE  Contents' = Contents \/ Promise!Erase
PROOF
<1>0. BTypeOK
  BY DEF Ready, Linked
<1>1. PICK k \in job[r].doomed :
            /\ DOMAIN body' = DOMAIN body \ {k}
            /\ \A i \in DOMAIN body' : body'[i] = body[i]
  BY <1>0, DeleteFacts
<1>2. /\ UNCHANGED <<rows, draft, holder>> /\ r # Null
      /\ job'[r].op = "team" /\ job'[r].gone = job[r].gone
  BY <1>0, DeleteFacts
<1> DEFINE gone == job[r].gone
           left == Without(rows, gone)
<1>3. PICK f \in gone : rows[f].key = k
  BY <1>2 DEF Ready, Linked, DoomedWereTheirs
<1>4. gone \in SUBSET DOMAIN rows
  BY <1>2 DEF Ready, Linked, DraftFollowsRows
<1>5. Torn'
  BY <1>1, <1>2, <1>3, <1>4 DEF Torn
<1>6. Contents' = Shown(left, body')
  BY <1>2, <1>5, ContentsAre
<1>7. DOMAIN left = DOMAIN rows \ gone /\ \A g \in DOMAIN left : left[g] = rows[g]
  BY DEF Without
<1>8. \A g \in DOMAIN left : left[g].key # k
  BY <1>3, <1>4, <1>7 DEF Ready, Linked, RowKeysDistinct
<1> HIDE DEF left
<1>9. Shown(left, body') = Shown(left, body)
  BY <1>1, <1>8, SameShown
<1>10. CASE Torn
  <2>1. Contents = Shown(left, body)
      BY <1>10, ContentsAre DEF left
  <2> QED BY <1>6, <1>9, <2>1
<1>11. CASE ~ Torn
  <2>1. Contents = Shown(rows, body)
      BY <1>11, ContentsAre
  <2>2. DOMAIN Contents = DOMAIN rows
      BY <2>1 DEF Shown
  <2>3. Shown(left, body) = [g \in DOMAIN Contents \ gone |-> Contents[g]]
      BY <1>7, <2>1, <2>2 DEF Shown
  <2>4. gone \in (SUBSET DOMAIN Contents) \ {{}}
      BY <1>3, <1>4, <2>2
  <2> QED BY <1>6, <1>9, <2>3, <2>4 DEF Promise!Erase
<1> QED BY <1>10, <1>11

\* Two tables with the same files and the same rows.
LEMMA SameTable ==
    ASSUME NEW t \in Table, NEW u \in Table, DOMAIN t = DOMAIN u,
           \A f \in DOMAIN t : t[f] = u[f]
    PROVE  t = u
PROOF BY TableIn

LEMMA CommitShows ==
    ASSUME Ready, NEW r \in Req, Commit(r)
    PROVE  /\ holder = r /\ r # Null /\ body' = body /\ rows' = draft
           /\ Contents' = Shown(draft, body)
           /\ \A f \in DOMAIN draft : draft[f].key \in DOMAIN body
           /\ ~ Torn => Contents = Shown(rows, body)
PROOF
<1>1. holder = r /\ r # Null /\ body' = body /\ rows' = draft /\ holder' = Null
  BY BlobStoreAssumption DEF Commit
<1>2. ~ Torn'
  BY <1>1 DEF Torn
<1>3. \A f \in DOMAIN draft : draft[f].key \in DOMAIN body
  BY <1>1 DEF Ready, BodiesAreThere, Commit
<1> QED BY <1>1, <1>2, <1>3, ContentsAre

LEMMA CommitAdds ==
    ASSUME Ready, NEW r \in Req, Commit(r), job[r].op \in {"upload", "copy"}
    PROVE  Contents' = Contents \/ Promise!Add
PROOF
<1>0. BTypeOK
  BY DEF Ready, Linked
<1>1. /\ holder = r /\ r # Null /\ body' = body
      /\ Contents' = Shown(draft, body)
      /\ \A f \in DOMAIN draft : draft[f].key \in DOMAIN body
  BY CommitShows
<1>2. ~ Torn
  BY <1>1, TornBySaveOrTeam
<1>3. Contents = Shown(rows, body)
  BY <1>2, CommitShows
<1>4. DOMAIN rows \subseteq DOMAIN draft /\ \A f \in DOMAIN rows : draft[f] = rows[f]
  BY <1>1 DEF Ready, Linked, DraftFollowsRows
<1> DEFINE new == DOMAIN draft \ DOMAIN rows
           given == [f \in new |-> body[draft[f].key]]
<1>5. DOMAIN Contents = DOMAIN rows /\ DOMAIN Contents' = DOMAIN draft
  BY <1>1, <1>3 DEF Shown
<1>6. new \in SUBSET (File \ DOMAIN Contents) /\ given \in [new -> Content]
  BY <1>0, <1>1, <1>5, TableIn DEF BTypeOK
<1>7. Contents' = [f \in DOMAIN Contents \cup new |-> IF f \in new THEN given[f] ELSE Contents[f]]
  BY <1>1, <1>3, <1>4, <1>5 DEF Shown
<1>8. CASE new = {}
  <2>1. DOMAIN draft = DOMAIN rows
      BY <1>4, <1>8
  <2>2. draft = rows
      BY <1>0, <1>4, <2>1, SameTable DEF BTypeOK
  <2> QED BY <1>1, <1>3, <2>2
<1>9. CASE new # {}
  <2> HIDE DEF new, given
  <2> QED BY <1>6, <1>7, <1>9 DEF Promise!Add
<1> QED BY <1>8, <1>9

LEMMA CommitErases ==
    ASSUME Ready, NEW r \in Req, Commit(r), job[r].op = "erase"
    PROVE  Contents' = Contents \/ Promise!Erase
PROOF
<1>0. BTypeOK
  BY DEF Ready, Linked
<1>1. holder = r /\ r # Null /\ Contents' = Shown(draft, body)
  BY CommitShows
<1>2. ~ Torn
  BY <1>1, TornBySaveOrTeam
<1>3. Contents = Shown(rows, body)
  BY <1>2, CommitShows
<1> DEFINE gone == job[r].gone
<1>4. /\ gone \subseteq DOMAIN rows /\ DOMAIN draft = DOMAIN rows \ gone
      /\ \A f \in DOMAIN draft : draft[f] = rows[f]
  BY <1>1 DEF Ready, Linked, DraftFollowsRows
<1>5. DOMAIN Contents = DOMAIN rows
  BY <1>3 DEF Shown
<1>6. Contents' = [f \in DOMAIN Contents \ gone |-> Contents[f]]
  BY <1>1, <1>3, <1>4, <1>5 DEF Shown
<1>7. CASE gone = {}
  <2>1. draft = rows
      BY <1>0, <1>4, <1>7, SameTable DEF BTypeOK
  <2> QED BY <1>1, <1>3, <2>1
<1>8. CASE gone # {}
  <2>1. gone \in (SUBSET DOMAIN Contents) \ {{}}
      BY <1>4, <1>5, <1>8
  <2> QED BY <1>6, <2>1 DEF Promise!Erase
<1> QED BY <1>7, <1>8

\* What a save or a team deletion commits could be seen before.
LEMMA CommitConfirms ==
    ASSUME Ready, NEW r \in Req, Commit(r), job[r].op \in {"save", "team"}
    PROVE  Contents' = Contents
PROOF
<1>0. BTypeOK
  BY DEF Ready, Linked
<1>1. holder = r /\ r # Null /\ Contents' = Shown(draft, body) /\ job[r].doomed = {}
  BY CommitShows DEF Commit
<1>2. CASE job[r].gone = {}
  <2>1. draft = rows
      BY <1>1, <1>2, NothingDoneYet DEF Ready
  <2>2. ~ Torn
      BY <1>1, <1>2, TornBySaveOrTeam
  <2> QED BY <1>1, <2>1, <2>2, CommitShows
<1>3. CASE job[r].gone # {}
  <2>1. \A f \in job[r].gone : f \in DOMAIN rows /\ rows[f].key \notin DOMAIN body
      BY <1>1 DEF Ready, Linked, DoomedWereTheirs, DraftFollowsRows
  <2>2. Torn
      BY <1>1, <1>3, <2>1 DEF Torn
  <2>3. CASE job[r].op = "save"
      BY <1>1, <2>2, <2>3, ContentsAre
  <2>4. CASE job[r].op = "team"
    <3>1. job[r].gone \cap DOMAIN draft = {}
        BY <2>4 DEF Commit
    <3>2. /\ DOMAIN draft = DOMAIN rows \ job[r].gone
          /\ \A f \in DOMAIN draft : draft[f] = rows[f]
        BY <1>1, <2>4, <3>1 DEF Ready, Linked, DraftFollowsRows
    <3>3. /\ DOMAIN Without(rows, job[r].gone) = DOMAIN rows \ job[r].gone
          /\ \A f \in DOMAIN rows \ job[r].gone : Without(rows, job[r].gone)[f] = rows[f]
        BY DEF Without
    <3>4. Shown(draft, body) = Shown(Without(rows, job[r].gone), body)
        BY <3>2, <3>3, SameShown
    <3> QED BY <1>1, <2>2, <2>4, <3>4, ContentsAre
  <2> QED BY <2>3, <2>4
<1> QED BY <1>2, <1>3

LEMMA QuietRest ==
    ASSUME Ready, UNCHANGED <<rows, draft, body, holder>>,
           holder # Null => job'[holder] = job[holder]
    PROVE  Contents' = Contents
PROOF
<1>1. Settled' = Settled
  BY DEF Settled
<1> QED BY <1>1, ContentsAre

LEMMA StepKeepsPromise ==
    ASSUME Careful, Ready, Ready', [Next]_vars
    PROVE  [Promise!Next]_Contents
PROOF
<1>0. BTypeOK
  BY DEF Ready, Linked
<1> SUFFICES Contents' = Contents \/ Promise!Next
  OBVIOUS
<1>1. CASE UNCHANGED vars
  BY <1>1, QuietRest DEF vars
<1>2. CASE Crash
  <2>1. holder = Null \/ job[holder].op \notin {"save", "team"}
      BY <1>0, <1>2 DEF Crash, Careful, BTypeOK
  <2> QED BY <1>2, <2>1, QuietRollback DEF Crash
<1>3. CASE Refer
  <2>1. PICK f \in DOMAIN rows, ref \in Ref : rows' = [rows EXCEPT ![f].refs = @ \cup {ref}]
      BY <1>3 DEF Refer
  <2>2. DOMAIN rows' = DOMAIN rows /\ \A g \in DOMAIN rows : rows'[g].key = rows[g].key
      BY <1>0, <2>1, ReferFacts DEF BTypeOK
  <2>3. ~ Torn /\ ~ Torn' /\ body' = body
      BY <1>3 DEF Refer, Torn
  <2> QED BY <2>2, <2>3, QuietStep
<1>4. ASSUME NEW r \in Req, Step(r) PROVE Contents' = Contents \/ Promise!Next
  <2>1. ASSUME NEW op \in Ops \ {"read"}, Begin(r, op) PROVE Contents' = Contents
    <3>1. \A f \in DOMAIN rows : rows[f].key \in DOMAIN body
        BY <2>1, AllThere DEF Begin, Ready
    <3>2. ~ Torn /\ ~ Torn'
        BY <2>1, <3>1 DEF Begin, Torn
    <3> QED BY <2>1, <3>2, QuietStep DEF Begin
  <2>2. CASE Fail(r)
      BY <2>2, QuietRollback DEF Fail, Rollback, Careful
  <2>3. CASE DeleteBody(r)
      BY <1>0, <2>3, DeleteFacts, QuietCleaning, SaveReplaces, TeamErases DEF Promise!Next
  <2>4. CASE Commit(r)
    <3>1. job[r].op \in {"upload", "copy", "save", "erase", "team"}
        BY <1>0, <2>4, JobShapes DEF Commit, WriteJob, Ops
    <3> QED BY <2>4, <3>1, CommitAdds, CommitErases, CommitConfirms DEF Promise!Next
  <2>5. CASE Lookup(r)
      BY <2>5, QuietRest DEF Lookup
  <2>6. CASE Serve(r)
    <3>1. job'[r] = Null /\ JobsAre(r)
        BY <1>0, <2>6, SetFrame DEF Serve
    <3>2. holder # Null => job'[holder] = job[holder]
        BY <1>0, <2>6, <3>1 DEF BTypeOK, Serve, JobsAre
    <3> QED BY <2>6, <3>2, QuietRest DEF Serve
  <2> QED
      BY <1>4, <2>1, <2>2, <2>3, <2>4, <2>5, <2>6, QuietWork, QuietTeamRows DEF Step
<1> QED BY <1>1, <1>2, <1>3, <1>4 DEF Next

\* Uploads, copies, saves, purges, sweeps and team deletions, interleaved as they
\* come and failing where Careful lets them, implement FileStore: each changes
\* what the users have in one step, or not at all.
THEOREM PromiseIsKept == ASSUME Careful PROVE Spec => ImplementsFileStore
PROOF
<1>1. Init => Promise!Init
  <2> SUFFICES ASSUME Init PROVE Contents = [f \in {} |-> {}]
      BY DEF Promise!Init
  <2>1. Settled = rows /\ DOMAIN rows = {}
      BY DEF Init, Settled
  <2> QED BY <2>1 DEF Contents
<1>2. Linked /\ (Orderly => BodiesAreThere) => Ready
  BY DEF Orderly, Ready
<1>3. Ready /\ Ready' /\ [Next]_vars => [Promise!Next]_Contents
  BY StepKeepsPromise
<1> QED BY <1>1, <1>2, <1>3, AlwaysThere, PTL DEF Spec, ImplementsFileStore, Promise!Spec

=============================================================================
