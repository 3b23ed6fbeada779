# FileSharer: specifications, model checking and proofs

FileSharer keeps a team's files: a FastAPI server over one SQLite database, bodies
of files in a directory or an R2 bucket, a React client, and a command line tool.
This directory holds TLA+ specifications of the parts of it that are hard to test,
the TLC configurations that check them on small instances, and proofs that TLAPS
checks for every size. Paths below are relative to the repository (`src/` in
`PROJECT.json`).

Run `tlc -workers 2 -config NodeTree.cfg MCNodeTree` (and likewise for the other
configurations of sections 3 and 5; `Retention` and `Share` need no `MC` module and are run
as they are) and `tlapm NodeTreeProofs.tla` (and likewise for
the other modules whose name ends in `Proofs`) in this directory.

## 1. The system

| Part | State | Operations | Interacts with | What is hard |
|---|---|---|---|---|
| Folder tree (`backend/app/api/nodes.py`) | table `nodes`: type, space, parent, name, deleted_at | create, upload, rename, move, copy, delete, restore, purge | every other part | series of legal calls: nested trash, moves between spaces, names |
| Permissions (`services/permissions.py`) | none | space and node checks, walks to the root | tree | what is below the trash is found by walking |
| Bodies (`services/storage.py`, `services/serving.py`) | one object per key | put, copy, delete, serve | tree, saves, purge, teams | no transaction spans table and store |
| Transactions (`db.py`, `deps.py`, `main.py`) | the write lock | begin immediate, commit before the response, rollback on error | all requests | who holds the lock while it waits for R2 |
| Trash retention (`services/trash.py`, `main.py`) | none | sweep at start and every six hours | tree, bodies, all tables that name a node | foreign keys, one transaction for everything |
| Device login (`services/device_auth.py`, `api/device.py`) | table `device_auths` | code, approve, deny, poll | tokens, tree | a poll is two transactions |
| API tokens (`services/tokens.py`) | table `api_tokens` | create, revoke, resolve, scope | uploads, downloads | a scope outlives what it names |
| Edit lock and saving (`services/locks.py`, `nodes.py`, `ViewerPanel.tsx`) | table `edit_locks`, `updated_at` | acquire, heartbeat, release, save | bodies | takeover after 30 s against a late save |
| Archive streaming (`services/tar_stream.py`) | a queue of 64 chunks, a thread, bodies opened ahead | pack, put, get | bodies | a full queue, a reader that stops or leaves, a body that breaks off |
| Share links (`services/shares.py`, `api/public.py`) | table `share_links` | create, revoke, expire, download, resume | tree, bodies | what counts as a download; a resumed one after a save |
| Search index (`services/search_index.py`) | an FTS table | index, remove, backfill thread | tree, bodies | backfill against saves |
| Backup (`services/backup.py`, `main.py`) | rounds in a bucket | run what is due, by the loop or by hand, prune, restore | bodies, tree, the write lock | a round that dies half-way, two rounds at once |
| Teams, accounts, administration (`api/admin.py`, `api/auth.py`, `api/system.py`) | users, teams, members | disable, delete a team, purge | bodies, tree, device login | bodies of a deleted team |
| Browser (`frontend/src/pages/Files.tsx`, `lib/undo.ts`, tabs, selection, upload) | selection, tabs, one undo offer | gestures as loops of awaited requests | tree | others act between two requests |
| Command line tool (`cli/filesharer.py`) | a configuration file, its own program file | login, logout, update, get, put, reminder | device login, tokens, the requests above | commands side by side, killed or cut off anywhere; it overwrites itself |

What makes each part correct:

- *Tree*: it stays a forest of folders; an item is in the space of its folder; live
  siblings of one type differ in name; nothing disappears except by a delete, and
  everything that disappeared is listed in a trash; only trash is erased, but by an
  administrator who deletes a team by force.
- *Bodies*: a committed file has its body; no two files share one; a reader gets the
  version it was promised or an error; nothing is left behind when nothing failed.
- *Trash over time*: what is due is erased, whatever was done with it before.
- *Device login*: one approval, one token, and it arrives.
- *Undo*: taking a gesture back restores what it changed, if nobody else changed it.
- *Edit lock and saving*: two users are never both told that they may edit; a save that
  carries its stamp keeps what others wrote; whoever is left alone becomes the editor; a
  window whose document is gone falls silent.
- *Search index*: the index holds the text of the body or nothing, also when the backfill
  thread and a save overlap.
- *Archive streaming*: the client gets the plan in order and a good end only after all of
  it; thread and response both end; bodies opened at a time are bounded.
- *Shares*: no more copies than counted downloads, no more of these than the limit, and
  resuming costs nothing; a copy is of one version.
- *Backup*: what has a manifest can be restored; the newest complete round is never lost;
  each round is made in the end.
- *Command line tool*: the program file stays a working one, a login gives one token,
  nothing half is where a download belongs, what was uploaded is a beginning of the list.

## 2. The modules

| Module | Models | Used by |
|---|---|---|
| `NodeTree` | the table `nodes` and every request that writes it, the deletion of a team included | `MCNodeTree`, `TreeUndo`, `NodeTreeProofs` |
| `NodeTreeProofs` | theorems about `NodeTree` and `TreeUndo` | |
| `TreeUndo` | gestures of one browser and their undo, EXTENDS `NodeTree` | `MCTreeUndo`, `NodeTreeProofs` |
| `FileStore` | abstract: a map from files to contents | `BlobStore` (refinement) |
| `BlobStore` | table, draft of the open transaction, store, requests under way | `MCBlobStore`, `BlobStoreProofs` |
| `BlobStoreProofs` | theorems about `BlobStore`, the refinement of `FileStore` among them | |
| `DeviceLogin` | logins and polls | `Retention` |
| `Retention` | items over time and the foreign key that logins hold on them, EXTENDS `DeviceLogin` | `RetentionProofs` |
| `RetentionProofs` | theorems about `Retention` | |
| `Editing` | one document, its lock, its index and the windows that edit it, call by call | `MCEditing`, `EditingProofs` |
| `EditingProofs` | theorems about `Editing` | |
| `ByteStream` | abstract: what a download of an archive promises | `TarStream` (refinement) |
| `TarStream` | packing thread, bounded queue, response, bodies opened ahead | `MCTarStream`, `TarStreamProofs` |
| `TarStreamProofs` | theorems about `TarStream`: queue, open bodies, refinement of `ByteStream` | |
| `Share` | one link, its item, and the clients that download and resume | `ShareProofs` |
| `ShareProofs` | theorems about `Share` | |
| `Backup` | rounds in the bucket, the runs that make them, pruning, restoring | `MCBackup`, `BackupProofs` |
| `BackupProofs` | theorems about `Backup` and the invariants they need | |
| `Cli` | terminals of one machine, their files, and the server they talk to, EXTENDS `DeviceLogin` | `MCCli`, `CliProofs` |
| `CliProofs` | theorems about `Cli` | |

The `MC` modules give the constants their values where a configuration cannot. `DeviceLogin`
has no specification of its own: its actions are composed once with the trash (`Retention`)
and once with the terminals that poll (`Cli`).

Operators whose comment begins with "Mutant" are not part of a specification: each
is a variant of the definition that follows it, with one plausible bug, and the
property named for it in `PROJECT.json` must fail when it takes that place.

### NodeTree
`node` is a function from the ids in use to rows; `now` is the clock. A request runs
in one `BEGIN IMMEDIATE` transaction (`db.py:39-53`), so each handler is one atomic
action: `CreateFolder`, `Upload`, `UploadTree` (a `rel_path`, or one entry of an
archive: `_resolve_upload_parent`), `UploadByToken`, `UploadTreeByToken`, `Rename`,
`Move`, `RenameAndMove` (the three forms of `patch_node`), `Copy`, `SoftDelete`,
`Restore`, `Purge`, `Sweep`, `DeleteTeam` (`admin.py:179-224`; without force a live row
refuses it; a row that a view, a star or a lock still names rolls it back, which is no step
here and the subject of `TeamLosesBody`). The reset of `api/test_reset.py` is mounted in test
builds only and left out. A multi-file upload or an archive is a series of these
steps; the states between them are seen by nobody else in the program, so the model
has more behaviours than the code, never fewer. Names are a stem and a list of
numbers: `unique_name` appends "(2)", "(3)" and so on and gives up after
`MaxSuffix`. `InnerNames` allows every assignment that some order of the children
produces, because `_copy_node` asks for no order. Copying a folder into itself
recurses until Python stops it and is rolled back, hence no step. The walks of
`is_descendant` and `has_deleted_ancestor` stop after 1000 levels; the model has no
such depth. Permissions are left out: for every space some user passes
`get_space_checked`, and the check does not look at the tree.

### TreeUndo
A gesture is a loop of awaited requests (`Files.tsx` `dropNodes`, `trashMany`); the state of
the loop is `job`, the banner is `offer`. Each request is one step, and `Others` is any
request of anybody else in between. `DeleteOne`/`DeleteStep` keep what `guard` does: the
offer is made even when the request failed. The ghost `before` remembers the table at the
start of the gesture until somebody else changes it. Waiting requests of other loops of the
same browser are covered by `Others`. `UndoOf` names the loop that the banner's button
starts for each kind of gesture. `UndoAloneSucceeds` excepts two states: an item beside
which `unique_name` has no number left (`NumbersRunOut`; the code fails as well), and a name
that has as many suffixes as the model lets it have (`NamesAtBound`; the code goes on).

### BlobStore and FileStore
`rows` is committed, `draft` is what the holder of the write lock sees, `body` is the
store. Transaction and store move separately: `UploadOne`, `CopyOne` and `SaveFile`
write bodies at once, `Commit` publishes the draft, `Fail` rolls it back, `Crash`
drops everything that is in memory. `DeleteBody` is inside the transaction for a save
and a team deletion and after it for purge and sweep, as in the code. `Interrupted`
says during which operations something may go wrong, so that the runs can tell the
operations apart; `TeamRef` says which tables may point to the files of a team that
is deleted. `FileStore` is what a user sees; `Contents` maps to it the committed
table until a transaction has deleted its first body, and from then on the table it
is about to commit, because that is where it cannot turn back.

### DeviceLogin and Retention
A poll is `PollStart` (commits its time) and `PollFinish` (mints from what
`PollStart` read, since sessions keep their objects over a commit, `db.py:69`).
`recent` and `expired` are what the code computes from its time stamps. `Retention`
adds items and the two kinds of reference to them: those that `purge_subtree` clears
(`used`) and the one it does not (`scope`, `device_auths.node_id`). Expired logins
are not deleted: `device_auth.purge_expired` is called by its test only.

### Editing
A call of the editor is three steps: the browser sends it (`Beat`, `Save`, ...), the
server serves it in one transaction (`Acquire`, `SaveContent`, `Fetch`, `Release`), the
browser handles the answer (`BeatAnswered`, `Saved`, ...). `net[w]` holds the calls that
are not finished. A text is the set of edits in it, so "what was lost" is a set
difference. `lock` is the row of `edit_locks` and ages with `Tick`; `lease[w]` is a ghost,
the time since window `w` was last told that it may edit. A window has at most one beat
under way. `timer` tells the autosave timers apart: one that was set while a save
was under way keeps the old closure, where `saving` is true, and does nothing when it
fires (`"dead"`). Whether a save changes the size matters, because the size is a
dependency of the effect that loads the text. `index` is what `node_content_fts` holds
of the document, and `backfill` the thread that has listed the document and not yet read
it. The calls of a tab that is closed end with it; beats and saves it has sent may still reach
the server (`Leftover`).
`Events` and `InOrder` switch on what a run is to be about.

### ByteStream and TarStream
`ByteStream` is what the client is promised: a sequence of chunks in which entries follow
one another in the order of the plan, whole, with files missing that could not be opened,
and a good end after the trailer only. `TarStream` is the code: the thread is `prod`, with
one step for each place where it looks at the stop event, waits for the queue, or opens a
body; the generator is `reader`. A generator is closed at its `yield` only, hence `Leave`
there. `put(..., timeout=1)` gives up when nobody takes anything for a second (`GivesUp`):
always possible when the reader is over, and, if `Stalls`, as in every configuration, while
the client takes nothing. The ghost `lost` remembers which of the two last items, the error
and the end marker, a client that was still there never gets in this way. `Ended` maps
`outcome` to the end of `ByteStream`: a good end after a lost error counts as the failure that
the client was not told of.

### Share
One link and one item. A request commits before the body is sent, so `Download` counts and
`Receive` hands out pieces later, while the item is saved, trashed or purged; the body is
opened with the first piece. What a client asks for is a range of pieces, with `If-Range` or
without (`Request`). `Continues` looks at the range only, as `is_range_continuation` does:
whether anything was counted before is not asked. Three kinds of client differ in
`Requests`: `Scripts` ask once for the whole, `Resumers` go on where they were broken off,
and `Splitters` ask for pieces in an order of their own, the last one first if they like.
`Whole` says when the answer is all of the body whatever was asked for (an archive; a local
file that is not the one `If-Range` names); the client then starts again. The ghost `bare`
marks a client that had a range sent, without `If-Range`, to go with what it had. Links
without a limit are left out, since nothing is counted against anything there. Passwords
change no state.

### Backup
A run (`run[r]`) goes check, list, pack, manifest, prune; each call to the bucket is a step,
and `Die` ends a run anywhere. Its first query takes the write lock and keeps it to the end,
hence `Save` waits. A space has one file, told by its version; time is counted in weeks.
`Prune` deletes a round object by object or page by page: each step leaves a part of it
(`Left`), so that a process that dies there leaves one, possibly with its manifest, among
the rounds beyond those that are kept. `CompleteIsRestorable` is about the rounds that are
not among these (`Surplus`), and the next pruning deletes the rest. `Intact` and `Placed`
are what `restore_backup.py` compares and places.

### Cli
A terminal runs one command after the other, call by call. What the modules above say of
the server is not repeated: a request is refused, or does what it does. Which path a name
leads to is left open. A folder is unpacked member by member beside its place (`Unpack`);
only then is what is there removed (`Clear`, `Remove`) and replaced (`Move`), and what
`Move` places is whole if `Members` were unpacked. `cmd_update` takes any answer that begins as
the tool does and has 4000 characters; a source cut short after those is not among the
answers of the model. `ls` and `whoami` are commands that end at `Token`; `update
--force` is one of the choices of `AskVersion`; a broken connection ends a command like
`Kill`. The second half of a poll (`Answer`) happens on the server whether or not the
terminal is still there.

## 3. The runs

| Run | Instance | Distinct states | Shows |
|---|---|---|---|
| `NodeTree` | 3 rows, 2 spaces, 1 typed name, suffixes up to 3, clock 0..1 | 25,708 | the tree stays a forest, spaces follow folders, names differ, only trash is erased but by the deletion of a team with force |
| `TreeUndo` | 3 items, 1 space, gestures on up to 2 items | 250,992 | undone moves and renames are exact, undo alone does not fail |
| `BlobStore` | 2 files, 3 bodies, 2 contents, 2 requests; everything but saves and team deletions interrupted | 56,068 | bodies and rows stay together; refinement of `FileStore` |
| `TeamLosesBody` | as `BlobStore`, files that were used, no failure | 26,350 | *violated*: rows without their bodies |
| `Retention` | 2 items, 1 login, 2 polls | 9,394 | due items go, tokens come from approvals, approvals arrive |
| `SweepStuck` | as `Retention` | 9,394 | *violated*: due items stay for ever |
| `Editing` | 2 users with a window each, 2 edits, autosave on, lock of 1 tick, 2 writes, 1 call at a time, backfill | 834,663 | one editor at a time, stamped saves keep text, the index is current |
| `EditLock` | the same windows, 1 edit, no writes, 1 lost message, the document deleted | 174,715 | who is left alone takes over; a window of a deleted document is quiet |
| `TarStream` | 2 folders and 5 files of 0 to 3 chunks, queue of 2, 2 bodies ahead, reads that break off, a client that may take nothing for a second | 18,970 | refinement of `ByteStream`; the thread ends, and the response too unless the end marker was dropped; open bodies are bounded |
| `Share` | 1 person with the command, 1 program that resumes, 1 that splits, limit 1 or 2, bodies of 2 pieces, 1 save, 2 broken connections | 770,803 | the limit holds however one resumes; local copies are of one version; resuming succeeds |
| `Backup` | 2 spaces, 3 weeks, months of 2 weeks, keep 1 weekly and 2 monthly, 1 save each, 2 failures | 363,014 | complete rounds can be restored, the newest stays, each is made |
| `Cli` | 2 terminals, 1 login, 2 polls, 2 sources to upload, a folder of 2 members to download, 2 releases | 2,258,056 | the tool stays one that runs, one token per login, no half download, uploads are a prefix |

Why these bounds.

- *Tree.* Three rows make every shape that the code treats differently: a folder with two
  children, a chain of three (grandparent in the trash), a name collision of two live items
  with a third candidate, a folder created beside a file. Two spaces are needed for moves
  between them. One stem is enough because names are only compared. `MaxTags` bounds how
  many suffixes a name may pile up and `MaxTime` stops the clock; both only cut behaviours
  off. In `TreeUndo` at most one request of others comes between the beginning of a gesture
  and the end of its offer.
- *Bodies.* A save needs one body more than there are files, hence three keys for two
  files; two requests are one holder of the lock and one that reads or deletes after its
  commit.
- *Trash and login.* Two items are needed for one to hold the other up, two polls to be
  between their transactions together.
- *Editing.* Takeover and conflict are between two windows. One tick is a whole
  `LOCK_TTL`: the code only asks whether the lock is older. Two writes let a save meet a
  stamp that another save has made old, and a third one fail. `MaxCalls` 1 keeps the
  calls of one window from overlapping in `Editing` and `EditLock`. The proof of
  `StampedSavesKeep` says how much of that `StampedSaveKeepsText` needs (section 6); the
  configuration `StampLost` allows two calls and shows what a second one can do to the first
  one's answer. Losses, closing windows and deletion are in
  `EditLock` and the texts in `Editing`, because together they do not fit.
- *Streaming.* The queue is smaller than the archive, so that the thread waits and is
  stopped at every chunk; the plan has a file larger than `PrefetchBytes`, an empty
  one, neighbours that are opened together, and a folder between files.
- *Share.* Two pieces give "nothing", "some" (the first or the second) and "all"; one client
  of each kind with a limit of one or two make every order in which the last download is
  fought for.
- *Backup.* Three weeks are two more than the weekly rounds that are kept, so that pruning happens
  twice, once over what a run that died left of a round; months of two weeks make weekly
  and monthly rounds end at different times. Two failures are one to spoil a round and one
  to spoil the run that mends it.
- *Cli.* Two terminals are enough for each pair of commands; two polls are one that lives
  on after its terminal was closed and one more. Of two members one can be unpacked and one
  not yet when a command is killed.

Deadlock checking is off where bounded ids, keys, calls and weeks run out and a system at
rest has nothing to do; `Cli` checks it: a terminal can always start something, and
nothing it waits for keeps it from being closed. Rows, keys, files, requests, terminals,
polls, and in `Editing` the two users with all that is theirs, are symmetric. The runs with
liveness (`Retention`, `EditLock`, `TarStream`, `Share`, `Backup`) use no symmetry; the
temporal properties of the others are step formulas and a refinement without fairness.

## 4. Fairness

- `Retention`, for `DueIsErased`, `ApprovalArrives` and `NothingStaysDue`: the sweep runs
  at start and every six hours (`main.py:104-111`, weak fairness); seconds pass (`Cool`,
  weak); a terminal polls in a loop until it is told to stop, so a poll that is possible
  again and again happens (strong for `PollStart`, because others may poll in between);
  and the server is not killed at every one of its polls (strong for `PollFinish`).
- `Editing`, for `WaiterTakesOver`: time passes (`Tick`, weak); what was sent is served and
  its answer handled, per window (weak); the interval of an open tab fires (`Beat`, per
  window). The interval waits for no other call in the browser; in the model the bound
  `MaxCalls` makes it wait, and strong fairness takes that back.
- `TarStream`, for `ThreadEnds` and `ClientIsTold`: the thread is scheduled (weak for
  `Producer`), so is the generator (weak for `Get` and `Drain`), and a client that has
  not gone takes what it is sent in the end (weak for `Resume`; it may take longer than a
  second, and `Leave` is always possible there).
- `Share`, for `ResumeFinishes`: a client asks again and what is sent arrives (weak, per
  client). Nothing is assumed of connections: they break until `MaxBreaks` is used up.
- `Backup`, for `RoundIsMade`: the loop takes its next step (weak). It runs every
  `backup_tick_minutes` and after every start of the server (`main.py:113-117`); it dies
  `MaxFails` times at most.

Nothing is assumed of people, of expiry, of administrators or of the weather between the
two ends of a connection.

## 5. What disagrees with the repository's own words

Two of the disagreements are runs of the table and entries under "findings" in
`PROJECT.json`, with the quoted lines:

1. `TeamLosesBody`: `delete_team` deletes bodies before rows that may refuse to go
   (`admin.py:213`).
2. `SweepStuck`: `device_auths.node_id` is a sixth foreign key that stops purge and sweep
   (`trash.py:50`).

The others are kept as configurations beside the runs. For each of them TLC prints a
counterexample; the comment before the property in the module quotes what it is about.

| Configuration | Module | Property | What happens |
|---|---|---|---|
| `RestoreNested` | `MCNodeTree` | `RestoredIsVisible` | `restore_node` looks one level up only (`nodes.py:1242`) |
| `TokenTrash` | `MCNodeTree` | `TokenUploadIsVisible` | `resolve_upload_target` does not look at the trash (`tokens.py:203`) |
| `UndoMoveName` | `MCTreeUndo` | `UndoneMoveKeepsNames` | `patch_node` resolves a name in the place the item is leaving (`nodes.py:1090`) |
| `UndoTrash` | `MCTreeUndo` | `UndoneTrashIsBack` | the undo of a bulk delete restores children before their folders (`Files.tsx:1027`) |
| `SaveLosesBody` | `MCBlobStore` | `NoMissingBody` | `save_content` deletes the old body before the commit (`nodes.py:1334`) |
| `SecondToken` | `Retention` | `MintedOnce` | a poll mints from what it read before its commit (`device_auth.py:163`) |
| `EditLost` | `MCEditing` | `NothingSavedIsLost` | after a takeover or a reload the editor sends no stamp, and `save_content` then compares nothing (`nodes.py:1311`, `docs/SPEC.md:184`) |
| `StampLost` | `MCEditing` | `StampedSaveKeepsText` | "load the server's version" and "overwrite" of the banner, pressed one after the other: the editor shows the text of the first answer with the stamp of the second, and the next save is not stale (`ViewerPanel.tsx:339`, `:405`) |
| `TypingLost` | `MCEditing` | `DirtyMeansChanged` | a save that changes the size makes the text load again, over what was typed meanwhile |
| `TarCut` | `MCTarStream` | `ErrorIsPassedOn` | the error is dropped after a second, the end marker is not: a cut archive ends well (`tar_stream.py:182`, `:186`) |
| `ShareOk` | `Share` | `OkIsChecked` | the checksum is of an earlier version than the body, or "ok" is said without comparing (`public.py:170`, `get.sh.tmpl:62-70`) |
| `TarHang` | `MCTarStream` | `AlwaysTold` | a client that takes nothing for a second while the queue is full: the end marker is dropped, the thread ends, and the generator waits for ever (`tar_stream.py:189`, `:197`) |
| `RangeFirst` | `Share` | `EveryCopyIsCounted` | a first request for a later piece is not counted; for a folder the answer is the whole archive (`shares.py:120`, `:127`, against the comment at `:125`) |
| `RangeMixes` | `Share` | `CopyIsOneVersion` | a download resumed after a save without `If-Range`, or from R2, gets the rest of another version (`serving.py:41`, `:57`) |
| `BackupNames` | `MCBackup` | `CompleteIsRestorable` | two spaces with one name share an archive (`backup.py:77`) |
| `BackupHand` | `MCBackup` | `CompleteIsRestorable` | the script and the loop make one round together (`backup.py:342`) |
| `CliLogout` | `MCCli` | `LogoutForgets` | the reminder writes back a token that a logout has removed (`filesharer.py:332-343`) |
| `CliForce` | `MCCli` | `OnlyForceOverwrites` | "is it there already" is asked before the download only (`filesharer.py:677`, `:719`) |
| `CliHalf` | `MCCli` | `NoHalfFolder` | what was there is removed file by file before the new folder takes its place (`filesharer.py:698`) |

Some of them need something rare: a kill at one place (`SaveLosesBody`, `CliHalf`), a script
started by hand (`BackupHand`), a client that stands still (`TarCut`, `TarHang`). With the
real client `SecondToken` yields no second token either: `Cli` shows that a terminal never
has two polls under way (`OneTokenPerLogin`), although `DeviceLogin` alone allows them.

Met while reading, without a configuration: `_resolve_upload_parent` creates a folder beside
a file of the same name (`nodes.py:591`, against "renamed automatically" in
`docs/SPEC.md:161`; the reason why `SameTypeNamesDiffer` says "same type");
`deleteFromTree` offers an undo after a refused delete (`Files.tsx:1158`); an autosave timer set
while a save is under way never saves (`"dead"` in `Editing`); a backup keeps every other
request waiting from its first query to its end; `prune` counts rounds without a manifest
among those it keeps.

## 6. What is proved

`NodeTreeProofs`, for any finite set of ids, any spaces, names and bounds that satisfy
`NodeTreeAssumption`. The inductive invariant is

    Sound == TypeOK /\ ParentIsFolder /\ SpaceFollowsParent /\ Rooted

None of its parts is inductive alone. `MoveTo` keeps the tree free of cycles only
because `Subtree(n)` holds everything below `n` and files have no children
(`ParentIsFolder`); `SpaceFollowsParent` is kept by a move between spaces only because
the whole subtree follows; a purge keeps `ParentIsFolder` because the subtree goes as
a whole. `Rooted` is stated as "every non-empty set of rows has a member whose parent
is outside it", which is the form a proof by contradiction uses directly. The walks of
the code are the operator `Reach`; `ReachFixpoint` shows that the equation defining it
has a solution (the least closed set), without induction over data. There is one lemma
per request (`CopySound`, `MoveToSound`, `RestoreSound`, ...), collected in `NextSound`.

From `Sound` follow `NothingIsLost` (invisible things are in some trash of their space),
`VisibleErasedByForceOnly` (a row in sight goes only with its team, by force),
`OnlyDeletionHides` (a step other than a deletion lets what is in sight hang below what is
in sight, `InSight`; rows it hid would have to hang below one another without end, which
`Rooted` excludes) and `MovingInPlaceIsIdle` (what is below an item is in its space
already); `NamesStayDifferent` has its own inductive step per request on top of `Sound`.

The browser of `TreeUndo` is proved about in the same module, for any tree, any items picked
and any request of others in between. The inductive invariant is

    UInv == Sound /\ ClientShape /\ Alone

`ClientShape` says kind by kind what the loop and the offer hold. `Alone` is about the time in
which nobody else has changed the table (`before # Null`), and says *exactly* how the table
differs from the one the gesture began with: the table it began with was a tree on the same
rows (`BeforeSound`), and what the loop has done, has yet to do, or offers to undo is the list
of the items that now hang elsewhere, each with the place it had (`MovedItems`, `Moving`), the
one that was renamed (`RenamedItem`), or those in the trash (`TrashedItems`). From it:

- `MoveIsUndone`: when the last item is back, none is left that hangs elsewhere.
- `RenameIsUndone`: the table is what it was, because names differed and the old name is
  therefore free again.
- `UndoGoesThrough`: no request of an undo is refused. The items are still in sight; the
  folder an item goes back to is in sight too and is not below the item, because an undo
  turns the tree back into `before`, which was one: a cycle would be one in `before`.
- `BrowserIsSound` holds without that condition: whatever others do, the tree stays a tree
  and what the browser keeps keeps its shape.
- `GesturesAreRequests`: `TreeUndo` implements `NodeTree`. Its hypothesis `Typed = Name` says
  that a user may type any name; an undo asks for names that were there, among them numbered
  ones, which the run does not let people type to stay small.

`BlobStoreProofs`, for any files, keys, contents and requests, finite or not. Types are
proved first (`Shapes`), then the inductive invariant

    Linked == BTypeOK /\ OnlyErasersWait /\ DraftFollowsRows /\ KeysDistinct
              /\ RowKeysDistinct /\ DoomedWereTheirs /\ DoomedAreNobodys

It says how the draft of each kind of transaction differs from the committed table,
and that the bodies on somebody's list to delete are, before the commit, those of the
files it takes and, after it, named by no row. `KeysDistinct` alone
is not inductive, because a rollback brings `rows` back (`RowKeysDistinct`); and that a
purge deletes by key after its commit, when others have already written, is harmless
only because of `DoomedAreNobodys`, which each commit establishes from `DoomedWereTheirs`.
On `Linked` rest `BodiesAreThere` (a row without a body belongs to the
save or team deletion under way) and `AllAreNamed` (while nothing went wrong, each body
has a row or is on a list). They were checked by TLC on the instance of the run
`BlobStore`, and with every operation interrupted, before they were proved.

- Unconditional: `BTypeOK`, `KeysDistinct`, `ReaderSeesOneVersion`, `NothingIsLeftBehind`.
- Under `Careful` (nothing fails during a save or a team deletion, and only share links
  point to the files of the team; any other operation may fail anywhere):
  `NoMissingBody` and `ImplementsFileStore`. The runs `SaveLosesBody` and
  `TeamLosesBody` show that neither half of `Careful` can be dropped.

For the refinement every step is a stutter of `Contents` but three: the commit of an
upload or copy is `Add`, the commit of a purge or sweep is `Erase`, and the *first
deletion of a body* is `Replace` for a save and `Erase` for a team, because from then on
`Torn` holds and the mapping shows what the transaction is about to commit.

`EditingProofs`, for any windows, users, edits and any `Ttl`. For `OneLease` the invariant
is `LockInv == LockTyped /\ LeaseTyped /\ LeaseHasLock`, where `LeaseHasLock` says that a
lease that still runs is of the user in the lock, and no younger than the lock itself. That
is what makes "the lock is stale" imply "nobody else has a lease", and what a beat, a
release, the removal of a stale row and a purge each have to keep. For `IndexFollowsBody` it
is the shape of the row: the backfill reads the row when it writes. `EditorsTyped` is
`EditTypeOK`.

`StampedSavesKeep` proves `StampedSaveKeepsText` window by window (`StampedSaveOf(w)`), for
any number of calls of the others and of window `w` itself, as long as `Apart(w)` holds:
while a save of `w` is under way, no other call of `w` is but heartbeats and releases. The
editor itself never has two saves under way, and its beats run beside them all the time;
what `Apart` excludes is that a load (from the banner, after a takeover, or because a save
changed the size) and a save of one window overlap. The browser does not prevent that, and
`StampLost` shows that it is not harmless. The invariant `TextInv(w)` says: no stamp that is
kept or under way is newer than the row's (`StampsPast`); a save that is sent with the row's
stamp carries what the row holds (`SentKeeps`); an editor with the row's stamp shows what
the row holds, or has nothing to save yet (`ShownKeeps`); and an answer that is about to
hand out a stamp comes with the text that belongs to it (`SaveKeeps`, `LoadKeeps`). The last
two are where `Apart` is used: nothing but a beat may have been answered between the call
and its answer.

`GoneStays` is `GoneIsQuiet` for any number of calls in flight. The property counts calls,
so the loud calls after a step are shown to be, or to map one-to-one into, those before it
(`Quieter`); a window that is gone never opens the editor anew (`NewIsFresh`).

`ShareProofs`, for any finite sets of clients, any limits, sizes, saves and breaks.
`CopiesWithinLimit` counts the clients that have the first piece or are being sent it
(`Beginners`): one joins them only by an answer that starts at the first piece, and such an
answer is counted unless the range asked for began later and the whole was sent instead. That
happens to nobody who has the first piece already, unless he is one of the beginners anyway,
and else to `Splitters` that are sent an archive or a file that was saved, which the property
leaves out (`RangeFirst`). `OneVersion` says of each client, whatever its phase, that its local
pieces are of the version of its last answer, unless it has asked for more without `If-Range`
(`RangeMixes`).

`CliProofs`, for any terminals, logins, polls, uploads and releases. `CliInv` has one part
for commands (`JobsOk`), one for who has a login (`OneHolder`: no two terminals have the
same one), one for logins, one for the configuration and one for the program. The heart is
that a terminal that sleeps has no poll under way and no token yet: a second token would
need a second poll, and a terminal only polls when the one before was answered. That a
killed terminal's poll may still mint is allowed for, since nobody holds that login any more.
`FoldersArriveWhole` has an invariant of its own on top (`PlaceInv`): a command that removes
what is there, or moves what it unpacked, has unpacked every member, whichever terminals are
killed meanwhile and whatever they leave of the old folder.

`RetentionProofs`, for any items, logins and polls, finite or not: a token comes from an
approval (`LoginInv`), and neither an approval nor its token ever names an item that was
erased in between (`ScopeInv`; the foreign key that stops the sweep is what keeps it).
`LoginsTyped` adds the types, for finitely many polls: a login gives no more tokens than polls
are answered at once. Tokens given and polls about to mint are counted together (`MintInv`); no
poll joins them once there is a token, since the login is consumed.

`BackupProofs`, for any spaces, weeks, numbers to keep, saves and failures, under two
conditions: `OneRunner` (only the loop makes rounds) and `NamesDiffer` (spaces have
different archive names). `BackupHand` and `BackupNames` show that neither can be
dropped. The invariant follows the one run that may be under way: while it packs, it holds
the write lock, so the world stands still, its round has no manifest, and what is packed is
what is there (`Packing`); before the manifest every space is packed and the database copied
(`Closing`). Rounds that are complete are not touched but by `Prune`,
which takes a part of one away with each step. What it begins with is beyond the newest
rounds, and stays there, since a round that is new is newer (`SurplusStays`): so what is left
of it is never one of which anything is claimed.

`NewestStays` has the same two conditions and three more facts (`NewestInv`): no round lies
in the future (`Past`), none comes after the one that is being made (`Recent`), and who
prunes has completed a round of its own (`Pruning`). So the newest complete round is the
run's own; a round goes only if as many newer ones stay as are kept, so this one cannot.
That a non-empty set of stamps has a greatest member is proved from the well-foundedness of
`<` on the naturals.

Neither condition is needed for `RoundsTyped` (`BackupTypeOK`: at most one object under each
key) and `PackingExcludes`: whoever packs or describes a round has the write lock (`LockInv`),
so two processes never do it at once. What `BackupHand` shows is one after the other.

`TarStreamProofs`, for any plan, any capacity of the queue and any bounds on opening ahead.

- `QueueIsBounded`: `TarTypeOK`, with the queue never longer than its capacity. It needs to
  know that the chunk in hand is one of the plan (`InPlan`) and that the response is over
  exactly when it has said how it ended (`Told`).
- `ArchiveIsDelivered`, the refinement of `ByteStream`. The invariant `Links` sees what the
  client has, the queue and the chunk in hand as one chain: each item of the queue may
  follow the one before it, the first one what was sent last (`Chain`), and what the thread
  is about to write may follow the newest item (`InHand`). It has no
  condition: where a client takes nothing for a second and the error is dropped (`lost`), a
  good end may follow the broken entry, which is what `TarCut` shows and `Ended` counts as
  a failure. Once the response is over nothing is claimed about the
  queue.
- `OpenIsBounded`: at most `PREFETCH_MAX` bodies are open, and the next file is among them.
  The invariant `Window` says that the open ones are the next files of the plan without a
  gap (`First`), and that there is one if any file is left (`Some`); `FillOpens` shows that
  `fill` establishes both, whatever the sizes are.

`CliAssumption`, `ShareAssumption` and the others are the assumptions the proofs cite;
each is evaluated by TLC in the run of its module.

Only model-checked:

- all liveness (`DueIsErased`, `ApprovalArrives`, `WaiterTakesOver`, `ThreadEnds`,
  `ClientIsTold`, `ResumeFinishes`, `RoundIsMade`), which is out of the prover's reach, as
  is `ENABLED`;
- all refutations, `NothingStaysDue` of `SweepStuck` and `NoMissingBody` of `TeamLosesBody`
  among them.

Every invariant and every action property that a passing run checks is stated by a theorem,
`StampedSaveKeepsText` as one theorem for each window and under `Apart`.

Induction over data is not used (where a least or greatest member is needed, it comes from
well-foundedness), and recursive operators are avoided throughout. Each module's type
invariant is proved.

## 7. What is not modelled

Listed with reasons in `PROJECT.json`. In short:

- who is a member of which space; sessions and Google sign-in (library calls); the audit
  log, which nothing reads back;
- quotas and size limits other than "refused"; path sanitising and formats (strings);
  previews (a cache of their own);
- the thread pool and the 30 seconds after which a request gives up waiting for the write
  lock (`db.py:53`): how long a lock may be held depends on sizes and the network, and the
  model has neither;
- `scripts/r2_orphans.py` and the other scripts run by hand against a stopped or a
  development instance; configuration, migrations, deployment;
- the presentation part of the client: listing, searching, dragging, the upload queue.

The walks' limit of 1000 levels and Python's recursion limit are not modelled either.

## 8. What the plan has left

Most important first.

1. `RequestPool`: thread pool and write lock with its timeout, composed with `BlobStore`,
   `Backup` and `r2_orphans.py`.
2. An editor in which loading and saving of one window overlap: which of their orders keep
   the text (`StampLost`), and what the browser would have to wait for.
3. Who is a member of which team while its items are used; tabs and selection of the
   client.
