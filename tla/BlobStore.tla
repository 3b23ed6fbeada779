----------------------------- MODULE BlobStore -----------------------------
(***************************************************************************)
(* The bodies of the files: rows of the table `nodes` name them by          *)
(* storage_key, a directory or an R2 bucket holds them, and no transaction  *)
(* spans the two.  A request takes the write lock of the database with its  *)
(* first query (BEGIN IMMEDIATE) and gives it back when the middleware      *)
(* commits; what it does to the store meanwhile is there at once and stays, *)
(* commit or not.                                                           *)
(*                                                                          *)
(* Only files are rows here (folders have no body), and where they hang,    *)
(* what they are called and whether they are in the trash is in NodeTree.   *)
(***************************************************************************)
EXTENDS FiniteSets

CONSTANTS File,        \* ids of file rows (a pool)
          Key,         \* storage keys (a pool: a uuid4 nobody holds may come back)
          Content,     \* what a body may hold
          Req,         \* requests and sweeps that can be under way at once
          Null,
          TeamRef,     \* bound of the model: what may point to the files of a team that
                       \* is deleted
          Interrupted  \* operations during which something may go wrong: the store
                       \* fails, an upload is refused half-way, the commit fails,
                       \* the process is killed

Ops == {"upload", "copy", "save", "erase", "team", "read"}

\* Who else points to a row: its share links; its stars, views, edit lock and
\* tokens; the device logins that were approved for it.
Ref == {"share", "use", "device"}

\* A row: the body it names and who points to it.
Entry == [key: Key, refs: SUBSET Ref]
Table == UNION {[S -> Entry] : S \in SUBSET File}

\* gone: the files a request takes the bodies from; doomed: the bodies still to
\* be deleted.  was: what a download found under its key.
Jobs == [op: Ops \ {"read"}, gone: SUBSET File, doomed: SUBSET Key]
            \cup [op: {"read"}, key: Key, was: Content]

ASSUME BlobStoreAssumption ==
    /\ Null \notin Req /\ Null \notin Content /\ Null \notin Jobs
    /\ Interrupted \subseteq Ops
    /\ TeamRef \subseteq Ref

VARIABLES rows,    \* the committed table
          draft,   \* the table as the holder of the lock sees it; `rows` without a holder
          body,    \* the store: a function from keys to contents
          holder,  \* the request that holds the write lock, or Null
          job,     \* what each request is doing, or Null
          calm     \* ghost: nothing has gone wrong so far

vars == <<rows, draft, body, holder, job, calm>>

Write(op) == [op |-> op, gone |-> {}, doomed |-> {}]

Add(f, k) == [g \in DOMAIN draft \cup {f} |->
                 IF g = f THEN [key |-> k, refs |-> {}] ELSE draft[g]]
Put(k, c) == [j \in DOMAIN body \cup {k} |-> IF j = k THEN c ELSE body[j]]
Without(t, gone) == [f \in DOMAIN t \ gone |-> t[f]]

KeysOf(t) == {t[f].key : f \in DOMAIN t}

\* uuid4().hex: never a key that anything still knows.
Fresh ==
    Key \ (DOMAIN body \cup KeysOf(rows) \cup KeysOf(draft)
           \cup UNION {IF job[r] = Null THEN {}
                       ELSE IF job[r].op = "read" THEN {job[r].key}
                       ELSE job[r].doomed : r \in Req})

Writing(r, op) == holder = r /\ job[r].op = op

-----------------------------------------------------------------------------
\* The transaction

Begin(r, op) ==
    /\ holder = Null /\ job[r] = Null
    /\ holder' = r
    /\ job' = [job EXCEPT ![r] = Write(op)]
    /\ UNCHANGED <<rows, draft, body, calm>>

\* commit_db_middleware, and the explicit commit of purge and sweep.  Those two
\* still have the bodies to delete; everybody else is through.
Commit(r) ==
    /\ holder = r
    /\ job[r].op = "erase" \/ job[r].doomed = {}
    /\ job[r].op = "team" => job[r].gone \cap DOMAIN draft = {}
    /\ rows' = draft
    /\ holder' = Null
    /\ job' = [job EXCEPT ![r] = IF @.doomed = {} THEN Null ELSE @]
    /\ UNCHANGED <<draft, body, calm>>

\* get_db: an exception rolls the table back.  The store stays as it is.
Rollback(r) ==
    /\ draft' = rows
    /\ holder' = Null
    /\ job' = [job EXCEPT ![r] = Null]
    /\ UNCHANGED <<rows, body>>

Fail(r) ==
    /\ holder = r
    /\ job[r].op \in Interrupted
    /\ Rollback(r)
    /\ calm' = FALSE

\* The process is killed or restarted: SQLite drops the open transaction.
Crash ==
    /\ \E r \in Req : job[r] # Null
    /\ \A r \in Req : job[r] # Null => job[r].op \in Interrupted
    /\ job' = [r \in Req |-> Null]
    /\ holder' = Null
    /\ draft' = rows
    /\ calm' = FALSE
    /\ UNCHANGED <<rows, body>>

-----------------------------------------------------------------------------
\* What a transaction does

\* Mutant: a file whose body could not be written is entered all the same.
UploadOneWithoutBody(r) ==
    /\ Writing(r, "upload")
    /\ \E f \in File \ DOMAIN draft, k \in Fresh : draft' = Add(f, k)
    /\ UNCHANGED <<rows, body, holder, job, calm>>

\* _upload_one, and each entry of _extract_archive: the body, then the row.
UploadOne(r) ==
    /\ Writing(r, "upload")
    /\ \E f \in File \ DOMAIN draft, k \in Fresh, c \in Content :
          draft' = Add(f, k) /\ body' = Put(k, c)
    /\ UNCHANGED <<rows, holder, job, calm>>

\* Mutant: the copy names the body of its source.
CopyOneByReference(r) ==
    /\ Writing(r, "copy")
    /\ \E f \in DOMAIN rows, g \in File \ DOMAIN draft : draft' = Add(g, rows[f].key)
    /\ UNCHANGED <<rows, body, holder, job, calm>>

\* _copy_node: copy_blob gives every copied file a body of its own.
CopyOne(r) ==
    /\ Writing(r, "copy")
    /\ \E f \in {f \in DOMAIN rows : rows[f].key \in DOMAIN body},
          g \in File \ DOMAIN draft, k \in Fresh :
          draft' = Add(g, k) /\ body' = Put(k, body[rows[f].key])
    /\ UNCHANGED <<rows, holder, job, calm>>

\* Mutant: the text is written over the body there is.
SaveFileInPlace(r) ==
    /\ Writing(r, "save")
    /\ job[r].gone = {}
    /\ \E f \in DOMAIN draft, c \in Content :
          /\ body' = Put(draft[f].key, c)
          /\ job' = [job EXCEPT ![r].gone = {f}]
    /\ UNCHANGED <<rows, draft, holder, calm>>

\* Mutant: the body of the version before is left behind.
SaveFileAndForget(r) ==
    /\ Writing(r, "save")
    /\ job[r].gone = {}
    /\ \E f \in DOMAIN draft, k \in Fresh, c \in Content :
          /\ body' = Put(k, c)
          /\ draft' = [draft EXCEPT ![f].key = k]
          /\ job' = [job EXCEPT ![r].gone = {f}]
    /\ UNCHANGED <<rows, holder, calm>>

\* save_content: a new body, the row that names it, and the old body deleted at
\* once (DeleteBody), before the middleware commits.
SaveFile(r) ==
    /\ Writing(r, "save")
    /\ job[r].gone = {}
    /\ \E f \in DOMAIN draft, k \in Fresh, c \in Content :
          /\ body' = Put(k, c)
          /\ draft' = [draft EXCEPT ![f].key = k]
          /\ job' = [job EXCEPT ![r].gone = {f}, ![r].doomed = {draft[f].key}]
    /\ UNCHANGED <<rows, holder, calm>>

\* purge_subtree and purge_expired: the rows of everything that goes, and what
\* points to them, except the device logins: then SQLite refuses the DELETE and
\* all is rolled back.
EraseRows(r) ==
    /\ Writing(r, "erase")
    /\ job[r].gone = {}
    /\ \E gone \in (SUBSET DOMAIN draft) \ {{}} :
          IF \E f \in gone : "device" \in draft[f].refs
          THEN Rollback(r)
          ELSE /\ draft' = Without(draft, gone)
               /\ job' = [job EXCEPT ![r].gone = gone,
                                     ![r].doomed = {draft[f].key : f \in gone}]
               /\ UNCHANGED <<rows, body, holder>>
    /\ UNCHANGED calm

\* delete_team with force: first the bodies of everything in its space.
StartTeam(r) ==
    /\ Writing(r, "team")
    /\ job[r].gone = {}
    /\ \E gone \in (SUBSET DOMAIN draft) \ {{}} :
          /\ \A f \in gone : draft[f].refs \subseteq TeamRef
          /\ job' = [job EXCEPT ![r].gone = gone,
                                ![r].doomed = {draft[f].key : f \in gone}]
    /\ UNCHANGED <<rows, draft, body, holder, calm>>

\* Then the rows: only their share links are cleared, any other reference makes
\* the DELETE fail.
TeamRows(r) ==
    /\ Writing(r, "team")
    /\ job[r].gone # {} /\ job[r].doomed = {}
    /\ job[r].gone \subseteq DOMAIN draft
    /\ IF \A f \in job[r].gone : draft[f].refs \subseteq {"share"}
       THEN /\ draft' = Without(draft, job[r].gone)
            /\ UNCHANGED <<rows, body, holder, job, calm>>
       ELSE Rollback(r) /\ calm' = FALSE

\* Mutant: purge and sweep, too, delete bodies before they commit.
MayDeleteAnyTime(r) == job[r].op \in {"save", "team", "erase"}

\* save_content and delete_team delete inside their transaction, purge and
\* sweep after it (delete_blobs).
MayDelete(r) ==
    \/ job[r].op \in {"save", "team"} /\ holder = r
    \/ job[r].op = "erase" /\ holder # r

\* storage.delete of one body.  delete_blobs goes on after a failure, the others
\* do not (Fail).
DeleteBody(r) ==
    /\ job[r] # Null /\ MayDelete(r)
    /\ \E k \in job[r].doomed :
          /\ \/ body' = Without(body, {k}) /\ UNCHANGED calm
             \/ /\ job[r].op = "erase" /\ "erase" \in Interrupted
                /\ calm' = FALSE
                /\ UNCHANGED body
          /\ IF holder # r /\ job[r].doomed = {k}
             THEN job' = [job EXCEPT ![r] = Null]
             ELSE job' = [job EXCEPT ![r].doomed = @ \ {k}]
    /\ UNCHANGED <<rows, draft, holder>>

-----------------------------------------------------------------------------
\* What needs no transaction of its own for long

\* A share link, a star, a view, an edit lock, a token, an approved device login.
Refer ==
    /\ holder = Null
    /\ \E f \in DOMAIN rows, ref \in Ref : rows' = [rows EXCEPT ![f].refs = @ \cup {ref}]
    /\ draft' = rows'
    /\ UNCHANGED <<body, holder, job, calm>>

\* download_file: the key is read in a transaction, the body is sent after it.
Lookup(r) ==
    /\ holder = Null /\ job[r] = Null
    /\ \E f \in {f \in DOMAIN rows : rows[f].key \in DOMAIN body} :
          job' = [job EXCEPT ![r] = [op |-> "read", key |-> rows[f].key,
                                     was |-> body[rows[f].key]]]
    /\ UNCHANGED <<rows, draft, body, holder, calm>>

\* serve_blob: the body, or an error when it has gone meanwhile.
Serve(r) ==
    /\ job[r] # Null /\ job[r].op = "read"
    /\ job' = [job EXCEPT ![r] = Null]
    /\ UNCHANGED <<rows, draft, body, holder, calm>>

-----------------------------------------------------------------------------
Init ==
    /\ rows = [f \in {} |-> Null]
    /\ draft = rows
    /\ body = [k \in {} |-> Null]
    /\ holder = Null
    /\ job = [r \in Req |-> Null]
    /\ calm = TRUE

Step(r) ==
    \/ \E op \in Ops \ {"read"} : Begin(r, op)
    \/ UploadOne(r)
    \/ CopyOne(r)
    \/ SaveFile(r)
    \/ EraseRows(r)
    \/ StartTeam(r)
    \/ TeamRows(r)
    \/ DeleteBody(r)
    \/ Commit(r)
    \/ Fail(r)
    \/ Lookup(r)
    \/ Serve(r)

Next == Crash \/ Refer \/ \E r \in Req : Step(r)

Spec == Init /\ [][Next]_vars

-----------------------------------------------------------------------------
\* Tables, store and requests have the declared shapes; without a holder of the
\* lock there is no draft, and the holder is writing.
BTypeOK ==
    /\ rows \in Table /\ draft \in Table
    /\ DOMAIN body \subseteq Key /\ body \in [DOMAIN body -> Content]
    /\ job \in [Req -> Jobs \cup {Null}]
    /\ holder \in Req \cup {Null}
    /\ IF holder = Null THEN draft = rows
       ELSE job[holder] # Null /\ job[holder].op # "read"
    /\ calm \in BOOLEAN

\* No two files share a body: deleting one never takes the other's
\* (purge deletes by key, without counting who else names it).
KeysDistinct ==
    \A f, g \in DOMAIN draft : f # g => draft[f].key # draft[g].key

\* docs/SPEC.md D18: a row without its body is the loss nobody can repair.
\* Every committed file has its body, unless the transaction under way is just
\* replacing or erasing that very file.
NoMissingBody ==
    \A f \in DOMAIN rows :
        rows[f].key \in DOMAIN body \/ (holder # Null /\ f \in job[holder].gone)

\* A download sends the version its headers announce or fails, however many
\* saves and purges come in between: bodies are never written in place.
ReaderSeesOneVersion ==
    \A r \in Req :
        job[r] # Null /\ job[r].op = "read" /\ job[r].key \in DOMAIN body
        => body[job[r].key] = job[r].was

\* Bodies that nothing names are left behind by failures only: once everybody is
\* through and nothing went wrong, the store holds what the table names.
NothingIsLeftBehind ==
    calm /\ (\A r \in Req : job[r] = Null) => DOMAIN body = KeysOf(rows)

-----------------------------------------------------------------------------
\* The promise of FileStore

\* The table that counts: the committed one, until a transaction has deleted
\* the first body; from then on the one that it is about to commit.
Settled ==
    IF holder # Null /\ \E f \in DOMAIN rows : rows[f].key \notin DOMAIN body
    THEN IF job[holder].op = "team" THEN Without(rows, job[holder].gone) ELSE draft
    ELSE rows

Contents ==
    [f \in DOMAIN Settled |->
        IF Settled[f].key \in DOMAIN body THEN body[Settled[f].key] ELSE Null]

Promise == INSTANCE FileStore WITH content <- Contents

\* Uploads, copies, saves, purges, sweeps and team deletions, interleaved and
\* failing, do to the users' files what FileStore says and nothing else.
ImplementsFileStore == Promise!Spec
=============================================================================
