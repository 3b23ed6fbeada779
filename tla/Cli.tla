--------------------------------- MODULE Cli ---------------------------------
(***************************************************************************)
(* The command line tool (cli/filesharer.py) on one machine: terminals run  *)
(* its commands side by side, over one configuration file, one program file *)
(* that updates itself, and one place where downloads go.  The server it    *)
(* talks to is DeviceLogin, with the tokens it minted, the source of the    *)
(* tool it hands out, and one item to download.                             *)
(*                                                                          *)
(* A command is a sequence of calls; between two of them anything may       *)
(* happen, and Kill may end it: the terminal is closed, or the connection   *)
(* breaks, which ends a command with an error line wherever it is.          *)
(***************************************************************************)
EXTENDS DeviceLogin

CONSTANTS Job,         \* the terminals
          Sources,     \* how many files and folders one `put` is given
          Members,     \* how many files and folders the folder to download has
          MaxRelease   \* bound: releases of the tool

ASSUME CliAssumption ==
    /\ {Sources, Members, MaxRelease} \subseteq Nat \ {0}
    /\ Null \notin {"own", "copy", "begun", "rest"}

VARIABLES job,      \* what each terminal is doing, or Null
          config,   \* config.json, or Null
          program,  \* the file `filesharer`: the release it was made from, or Page
          release,  \* the release the server hands out
          item,     \* what there is to download: a file or a folder
          target,   \* what is where a download goes, or Null: the user's own, a whole "copy",
                    \* one that was "begun", or the "rest" of what was being removed
          revoked   \* the tokens taken back in the browser

files == <<config, program, target>>
server == <<release, item, revoked>>
vars == <<loginVars, job, files, server>>

Page == 0   \* what a captive portal answers instead

\* A token is known by the login it came from.  asked: the server was asked for
\* its release less than UPDATE_CHECK_SEC ago.
NoConfig == [token |-> Null, asked |-> FALSE]

First == [login |-> "code", logout |-> "exists", update |-> "version",
          get |-> "check", put |-> "send"]

\* row: the login, or the token, it uses.  read: the configuration as it was
\* loaded.  got: the release it is or was handed, how many members it unpacked, or
\* how many uploads it reported.
\* stored: the uploads that are on the server.
Command(op, force) ==
    [op |-> op, force |-> force,
     at |-> IF op = "update" THEN "version" ELSE "nudge",
     row |-> Null, poll |-> Null, read |-> NoConfig,
     got |-> IF op = "update" THEN program ELSE 0, stored |-> {}]

At(j, op, at) == job[j] # Null /\ job[j].op = op /\ job[j].at = at

Go(j, at) == job' = [job EXCEPT ![j].at = at]

End(j) == job' = [job EXCEPT ![j] = Null]

\* resolve_token, which every request with the token begins with.
Accepted(t) == t # Null /\ minted[t] > 0 /\ t \notin revoked /\ active

Loaded == IF config = Null THEN NoConfig ELSE config

-----------------------------------------------------------------------------
(* Every command but update first looks whether it is due for a reminder.   *)

Start(j, op, force) ==
    /\ job[j] = Null /\ program # Page
    /\ job' = [job EXCEPT ![j] = Command(op, force)]
    /\ UNCHANGED <<loginVars, files, server>>

\* nudge_if_stale reads the file, asks the server, and writes back what it read.
NudgeLoad(j) ==
    /\ job[j] # Null /\ job[j].at = "nudge"
    /\ job' = IF Loaded.asked THEN [job EXCEPT ![j].at = "token"]
              ELSE [job EXCEPT ![j].at = "ask", ![j].read = Loaded]
    /\ UNCHANGED <<loginVars, files, server>>

NudgeSave(j) ==
    /\ job[j] # Null /\ job[j].at = "ask"
    /\ config' = [job[j].read EXCEPT !.asked = TRUE]
    /\ job' = [job EXCEPT ![j].at = "token", ![j].read = NoConfig]
    /\ UNCHANGED <<loginVars, program, target, server>>

\* token_of, and resolve: without a token, or when it is not accepted, or when
\* nothing is at the path, the command ends with an error.
Token(j) ==
    /\ job[j] # Null /\ job[j].at = "token"
    /\ IF job[j].op \in {"login", "logout"} THEN Go(j, First[job[j].op])
       ELSE \/ End(j)
            \/ /\ Accepted(Loaded.token)
               /\ job' = [job EXCEPT ![j].at = First[job[j].op], ![j].row = Loaded.token]
    /\ UNCHANGED <<loginVars, files, server>>

-----------------------------------------------------------------------------
(* login: a code, a poll every few seconds, and the token into the file.    *)

AskCode(j) ==
    /\ At(j, "login", "code")
    /\ \E l \in Login : Issue(l) /\ job' = [job EXCEPT ![j].at = "sleep", ![j].row = l]
    /\ UNCHANGED <<files, server>>

\* Mutant: a connection that breaks is one more reason to ask again.
KillMutant(j) ==
    /\ job[j] # Null
    /\ IF At(j, "login", "polled") THEN Go(j, "sleep") ELSE End(j)
    /\ UNCHANGED <<loginVars, files, server>>

\* The first half of a poll.  A poll that comes too early (slow_down) and one
\* that finds no decision yet leave the terminal where it is; a refusal, a code
\* that has expired or was used up end the command.
AskToken(j) ==
    /\ At(j, "login", "sleep")
    /\ LET l == job[j].row IN
       \E p \in Poll :
         /\ PollStart(p, l)
         /\ job' = CASE poll'[p] = l -> [job EXCEPT ![j].at = "polled", ![j].poll = p]
                     [] login[l].status = "pending" /\ ~ login[l].expired -> job
                     [] OTHER -> [job EXCEPT ![j] = Null]
    /\ UNCHANGED <<files, server>>

\* The deadline of the terminal: as long as the code lives.
GiveUp(j) ==
    /\ At(j, "login", "sleep") /\ login[job[j].row].expired
    /\ End(j)
    /\ UNCHANGED <<loginVars, files, server>>

Waits(j, p) == At(j, "login", "polled") /\ job[j].poll = p

\* The second half, whether or not anybody still waits for the answer.
Answer(p) ==
    /\ PollFinish(p)
    /\ job' = [j \in Job |-> IF ~ Waits(j, p) THEN job[j]
                             ELSE IF active THEN [job[j] EXCEPT !.at = "load", !.poll = Null]
                             ELSE Null]
    /\ UNCHANGED <<files, server>>

\* The server is killed in between.
NoAnswer(p) ==
    /\ PollLost(p)
    /\ job' = [j \in Job |-> IF Waits(j, p) THEN Null ELSE job[j]]
    /\ UNCHANGED <<files, server>>

\* load_config and save_config, at the end of login and of update.
Load(j) ==
    /\ job[j] # Null /\ job[j].at = "load"
    /\ job' = [job EXCEPT ![j].at = "save", ![j].read = Loaded]
    /\ UNCHANGED <<loginVars, files, server>>

Save(j) ==
    /\ job[j] # Null /\ job[j].at = "save"
    /\ config' = IF job[j].op = "login" THEN [job[j].read EXCEPT !.token = job[j].row]
                                        ELSE [job[j].read EXCEPT !.asked = TRUE]
    /\ End(j)
    /\ UNCHANGED <<loginVars, program, target, server>>

(* logout: the file goes, if there is one; the token stays on the server. *)
Exists(j) ==
    /\ At(j, "logout", "exists")
    /\ IF config = Null THEN End(j) ELSE Go(j, "unlink")
    /\ UNCHANGED <<loginVars, files, server>>

Unlink(j) ==
    /\ At(j, "logout", "unlink")
    /\ config' = Null
    /\ End(j)
    /\ UNCHANGED <<loginVars, program, target, server>>

-----------------------------------------------------------------------------
(* update: unless the server hands out what is running, the new source.     *)

AskVersion(j) ==
    /\ At(j, "update", "version")
    /\ \/ Go(j, "fetch")       \* a new one, --force, or nobody could be asked
       \/ release = job[j].got /\ End(j)
    /\ UNCHANGED <<loginVars, files, server>>

\* Mutant: whatever comes with status 200 is the tool.
TakeAnything(j, answer) == job' = [job EXCEPT ![j].at = "swap", ![j].got = answer]

\* Only what begins as the tool does and has 4000 characters is taken.  The answer is the
\* release or a page of somebody else's: a source cut short is none of the two.
Take(j, answer) ==
    IF answer = Page THEN End(j) ELSE job' = [job EXCEPT ![j].at = "swap", ![j].got = answer]

FetchProgram(j) ==
    /\ At(j, "update", "fetch")
    /\ \E answer \in {release, Page} : Take(j, answer)
    /\ UNCHANGED <<loginVars, files, server>>

Swap(j) ==
    /\ At(j, "update", "swap")
    /\ program' = job[j].got
    /\ Go(j, "load")
    /\ UNCHANGED <<loginVars, config, target, server>>

-----------------------------------------------------------------------------
(* get: nothing there, or --force; the whole body; and then into place.     *)

Check(j) ==
    /\ At(j, "get", "check")
    /\ IF target # Null /\ ~ job[j].force THEN End(j) ELSE Go(j, "fetch")
    /\ UNCHANGED <<loginVars, files, server>>

Fetch(j) ==
    /\ At(j, "get", "fetch")
    /\ IF Accepted(job[j].row)
       THEN Go(j, "place") ELSE End(j)
    /\ UNCHANGED <<loginVars, files, server>>

PlaceFile(j) ==
    /\ At(j, "get", "place") /\ item = "file"
    /\ target' = "copy"
    /\ End(j)
    /\ UNCHANGED <<loginVars, config, program, server>>

\* A folder is unpacked member by member beside its place.
Unpack(j) ==
    /\ At(j, "get", "place") /\ item = "folder" /\ job[j].got < Members
    /\ job' = [job EXCEPT ![j].got = @ + 1]
    /\ UNCHANGED <<loginVars, files, server>>

\* Mutant: whatever could be unpacked is good enough
UnpackedSome(j) == At(j, "get", "place") /\ item = "folder"

Unpacked(j) == At(j, "get", "place") /\ item = "folder" /\ job[j].got = Members

\* What is there by now is removed, file by file.
Clear(j) ==
    /\ Unpacked(j)
    /\ IF target = Null
       THEN Go(j, "move") /\ UNCHANGED target
       ELSE Go(j, "remove") /\ target' = "rest"
    /\ UNCHANGED <<loginVars, config, program, server>>

Remove(j) ==
    /\ At(j, "get", "remove")
    /\ IF target = Null THEN End(j) ELSE Go(j, "move")
    /\ target' = Null
    /\ UNCHANGED <<loginVars, config, program, server>>

\* What was unpacked takes the place, if that is still free.
Move(j) ==
    /\ At(j, "get", "move")
    /\ target' = IF target # Null THEN target
                 ELSE IF job[j].got = Members THEN "copy" ELSE "begun"
    /\ End(j)
    /\ UNCHANGED <<loginVars, config, program, server>>

-----------------------------------------------------------------------------
(* put: one request after the other, until one of them is refused.          *)

\* Mutant: what was refused is passed over.
RefusedMutant(j) == job' = [job EXCEPT ![j].got = @ + 1]

Refused(j) == End(j)

Send(j) ==
    /\ At(j, "put", "send")
    /\ \/ job[j].got = Sources /\ End(j)
       \/ job[j].got < Sources /\ Refused(j)
       \/ /\ job[j].got < Sources /\ Accepted(job[j].row)
          /\ job' = [job EXCEPT ![j].at = "report", ![j].stored = @ \cup {job[j].got + 1}]
    /\ UNCHANGED <<loginVars, files, server>>

Report(j) ==
    /\ At(j, "put", "report")
    /\ job' = [job EXCEPT ![j].at = "send", ![j].got = @ + 1]
    /\ UNCHANGED <<loginVars, files, server>>

-----------------------------------------------------------------------------
Kill(j) ==
    /\ job[j] # Null
    /\ End(j)
    /\ UNCHANGED <<loginVars, files, server>>

\* In the browser: approvals and the rest of DeviceLogin, and revocation.
Browser ==
    /\ \/ \E l \in Login : Approve(l) \/ Deny(l) \/ Expire(l) \/ Cool(l)
       \/ Toggle
    /\ UNCHANGED <<job, files, server>>

Revoke(l) ==
    /\ minted[l] > 0
    /\ revoked' = revoked \cup {l}
    /\ UNCHANGED <<loginVars, job, files, release, item>>

\* A deployment with a new tool; the user of the machine; a day.
Deploy ==
    /\ release < MaxRelease
    /\ release' = release + 1
    /\ UNCHANGED <<loginVars, job, files, item, revoked>>

KeepOwn ==
    /\ target = Null
    /\ target' = "own"
    /\ UNCHANGED <<loginVars, job, config, program, server>>

Tomorrow ==
    /\ config # Null
    /\ config' = [config EXCEPT !.asked = FALSE]
    /\ UNCHANGED <<loginVars, job, program, target, server>>

Commands(j) ==
    \/ \E op \in DOMAIN First : Start(j, op, FALSE)
    \/ Start(j, "get", TRUE)
    \/ NudgeLoad(j) \/ NudgeSave(j) \/ Token(j) \/ Load(j) \/ Save(j)
    \/ AskCode(j) \/ AskToken(j) \/ GiveUp(j) \/ Exists(j) \/ Unlink(j)
    \/ AskVersion(j) \/ FetchProgram(j) \/ Swap(j)
    \/ Check(j) \/ Fetch(j) \/ PlaceFile(j) \/ Unpack(j)
    \/ Clear(j) \/ Remove(j) \/ Move(j)
    \/ Send(j) \/ Report(j) \/ Kill(j)

Init ==
    /\ LoginInit
    /\ job = [j \in Job |-> Null]
    /\ config = Null /\ program = 1
    /\ release = 1
    /\ item \in {"file", "folder"}
    /\ target = Null
    /\ revoked = {}

Next ==
    \/ \E j \in Job : Commands(j)
    \/ \E p \in Poll : Answer(p) \/ NoAnswer(p)
    \/ \E l \in Login : Revoke(l)
    \/ Browser \/ Deploy \/ KeepOwn \/ Tomorrow

Spec == Init /\ [][Next]_vars

-----------------------------------------------------------------------------
\* cmd_update: the program file is always something the server handed out, so
\* that it runs and can be updated again.
ProgramRuns == program \in 1..release

\* cmd_login, device_auth.poll: whatever breaks, a login has been given one token
\* at most, and the token in the configuration is one that was given.
OneTokenPerLogin ==
    /\ \A l \in Login : minted[l] <= 1
    /\ config # Null /\ config.token # Null => minted[config.token] = 1

\* get_folder, cmd_get: nothing that was downloaded half is ever where a download
\* goes.
NothingHalfIsPlaced == target # "begun"

\* cmd_put: what is on the server is a beginning of what was asked for, and at
\* most one more than was reported.
PutIsPrefix ==
    \A j \in Job :
      /\ At(j, "put", "send") => job[j].stored = 1..job[j].got
      /\ At(j, "put", "report") => job[j].stored = 1..(job[j].got + 1)

\* cmd_logout: "the credentials of this device are gone".  Only a login brings a
\* token back.
LogoutForgets ==
    [][ (config = Null /\ config' # Null /\ config'.token # Null)
          => \E j \in Job : At(j, "login", "save") /\ config'.token = job[j].row ]_vars

\* cmd_get: "it is there already ... to overwrite it, --force".
OnlyForceOverwrites ==
    [][ \A j \in Job :
          (job'[j] # job[j] /\ target # Null /\ target' # target) => job[j].force ]_vars

\* get_folder: "no half folder is left even if it is cut off".
NoHalfFolder ==
    target = "rest" => \E j \in Job : At(j, "get", "remove")
=============================================================================
