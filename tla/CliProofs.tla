------------------------------ MODULE CliProofs ------------------------------
(***************************************************************************)
(* What holds of the command line tool for any number of terminals, logins, *)
(* polls, uploads and releases.                                             *)
(***************************************************************************)
EXTENDS Cli, TLAPS

Steps == {"nudge", "ask", "token", "code", "sleep", "polled", "load", "save", "exists", "unlink",
          "version", "fetch", "swap", "check", "place", "remove", "move", "send", "report"}

Config == [token: Login \cup {Null}, asked: BOOLEAN]
Cmd == [op: DOMAIN First, force: BOOLEAN, at: Steps, row: Login \cup {Null},
        poll: Poll \cup {Null}, read: Config, got: Nat, stored: SUBSET Nat]

Given(t) == t # Null => minted[t] = 1

-----------------------------------------------------------------------------
\* The invariant

\* A command that holds a login: it was given the code and has not ended.
Holds(c, l) ==
    c.op = "login" /\ c.at \in {"sleep", "polled", "load", "save"} /\ c.row = l

\* A login whose terminal sleeps has no token and no poll under way; a terminal
\* that waits for the answer of a poll knows which one.
LoginOk(c) ==
    c.op = "login" =>
        /\ c.at \in {"sleep", "polled", "load", "save"} => c.row # Null /\ login[c.row] # Null
        /\ c.at = "sleep" => minted[c.row] = 0 /\ \A p \in Poll : poll[p] # c.row
        /\ c.at = "polled" => c.poll \in Poll /\ poll[c.poll] = c.row
        /\ c.at \in {"load", "save"} => minted[c.row] = 1

UpdateOk(c) == c.op = "update" /\ c.at = "swap" => c.got \in 1..release

PutOk(c) ==
    c.op = "put" =>
        /\ c.at \in {"nudge", "ask", "token"} => c.got = 0 /\ c.stored = {}
        /\ c.at = "send" => c.stored = 1..c.got
        /\ c.at = "report" => c.stored = 1..(c.got + 1)

CmdOk(c) == c \in Cmd /\ Given(c.read.token) /\ LoginOk(c) /\ UpdateOk(c) /\ PutOk(c)

JobsOk ==
    /\ job = [j \in Job |-> job[j]]
    /\ \A j \in Job : job[j] # Null => CmdOk(job[j])

\* No two terminals hold one login.
OneHolder ==
    \A i, j \in Job, l \in Login :
        (job[i] # Null /\ Holds(job[i], l) /\ job[j] # Null /\ Holds(job[j], l)) => i = j

\* A login has at most one token, and none while a poll is between its two
\* transactions; there is at most one such poll.
LoginsOk ==
    /\ login \in [Login -> Row \cup {Null}]
    /\ poll \in [Poll -> Login \cup {Null}]
    /\ minted \in [Login -> 0..1]
    /\ \A l \in Login : minted[l] = 1 => login[l] # Null
    /\ \A p \in Poll : poll[p] # Null => minted[poll[p]] = 0 /\ login[poll[p]] # Null
    /\ \A p, q \in Poll : poll[p] # Null /\ poll[p] = poll[q] => p = q

ConfigOk == config # Null => config \in Config /\ Given(config.token)

ProgramOk == release \in Nat /\ program \in Nat /\ program \in 1..release

CliInv == JobsOk /\ OneHolder /\ LoginsOk /\ ConfigOk /\ ProgramOk

LEMMA NullIsNothing == Null \notin Login /\ Null \notin Poll /\ Null \notin Row
    BY LoginAssumption

LEMMA NoConfigIsOne == NoConfig \in Config /\ Given(NoConfig.token)
    BY DEF NoConfig, Config, Given

LEMMA InitCliInv == Init => CliInv
    BY DEF Init, LoginInit, CliInv, JobsOk, OneHolder, LoginsOk, ConfigOk, ProgramOk

LEMMA LoadedIsOne == CliInv => Loaded \in Config /\ Given(Loaded.token)
    BY NoConfigIsOne DEF CliInv, ConfigOk, Loaded

LEMMA GivenStays ==
    ASSUME NEW t, Given(t), UNCHANGED minted
    PROVE  Given(t)'
    BY DEF Given

-----------------------------------------------------------------------------
\* One terminal goes on; the logins stay as they are.
LEMMA TerminalGoesOn ==
    ASSUME CliInv, NEW j \in Job, NEW c, job' = [job EXCEPT ![j] = c],
           c # Null => CmdOk(c),
           \A l \in Login : c # Null /\ Holds(c, l) => job[j] # Null /\ Holds(job[j], l),
           UNCHANGED <<login, poll, minted, release>>
    PROVE  JobsOk' /\ OneHolder' /\ LoginsOk'
<1>1. \A i \in Job : job'[i] = IF i = j THEN c ELSE job[i]
    BY DEF CliInv, JobsOk
<1>2. JobsOk'
  <2>1. job' = [i \in Job |-> job'[i]]
      BY DEF CliInv, JobsOk
  <2>2. ASSUME NEW i \in Job, job'[i] # Null
        PROVE  CmdOk(job[i])'
    <3>1. CmdOk(job'[i])
        BY <1>1, <2>2 DEF CliInv, JobsOk
    <3> QED
        BY <3>1 DEF CmdOk, LoginOk, UpdateOk, PutOk, Given
  <2> QED
      BY <2>1, <2>2 DEF JobsOk
<1>3. OneHolder'
  <2> SUFFICES ASSUME NEW i \in Job, NEW k \in Job, NEW l \in Login,
                      job'[i] # Null, Holds(job'[i], l), job'[k] # Null, Holds(job'[k], l)
               PROVE  i = k
      BY DEF OneHolder, Holds
  <2>1. job[i] # Null /\ Holds(job[i], l) /\ job[k] # Null /\ Holds(job[k], l)
      BY <1>1
  <2> QED
      BY <2>1 DEF CliInv, OneHolder
<1>4. LoginsOk'
    BY DEF CliInv, LoginsOk
<1> QED
    BY <1>2, <1>3, <1>4

\* The same for a step that ends the command, or leaves every file alone.
LEMMA CommandEnds ==
    ASSUME CliInv, NEW j \in Job, End(j), UNCHANGED <<login, poll, minted, release>>
    PROVE  JobsOk' /\ OneHolder' /\ LoginsOk'
    BY TerminalGoesOn DEF End

LEMMA FilesStay ==
    ASSUME CliInv, UNCHANGED <<minted, release, config, program>>
    PROVE  ConfigOk' /\ ProgramOk'
    BY DEF CliInv, ConfigOk, ProgramOk, Given

LEMMA CommandIsOne ==
    ASSUME CliInv, NEW j \in Job, job[j] # Null
    PROVE  CmdOk(job[j]) /\ job[j] \in Cmd
    BY DEF CliInv, JobsOk, CmdOk

\* A step of a command that is not about its login: only where it is changes, what it has
\* read, and the token it works with.
LEMMA OtherCommandGoesOn ==
    ASSUME CliInv, NEW j \in Job, NEW c, job' = [job EXCEPT ![j] = c],
           c \in Cmd, c.op # "login", Given(c.read.token), UpdateOk(c), PutOk(c),
           UNCHANGED <<login, poll, minted, release>>
    PROVE  JobsOk' /\ OneHolder' /\ LoginsOk'
<1>1. CmdOk(c)
    BY DEF CmdOk, LoginOk
<1>2. \A l \in Login : ~ Holds(c, l)
    BY DEF Holds
<1> QED
    BY <1>1, <1>2, TerminalGoesOn

LEMMA StartKeeps ==
    ASSUME CliInv, NEW j \in Job, NEW op \in DOMAIN First, NEW force \in BOOLEAN,
           Start(j, op, force)
    PROVE  CliInv'
<1> DEFINE c == Command(op, force)
<1>1. op \in {"login", "logout", "update", "get", "put"}
    BY DEF First
<1>2. c \in Cmd
  <2>1. NoConfig \in Config /\ program \in Nat
      BY NoConfigIsOne DEF CliInv, ProgramOk
  <2>2. (IF op = "update" THEN "version" ELSE "nudge") \in Steps
        /\ (IF op = "update" THEN program ELSE 0) \in Nat
      BY <2>1 DEF Steps
  <2> QED
      BY <2>1, <2>2 DEF Command, Cmd
<1>3. CmdOk(c)
    BY <1>1, <1>2, NoConfigIsOne DEF Command, CmdOk, LoginOk, UpdateOk, PutOk
<1>4. \A l \in Login : ~ Holds(c, l)
    BY <1>1 DEF Command, Holds
<1>5. job' = [job EXCEPT ![j] = c] /\ UNCHANGED <<login, poll, minted, release, config, program>>
    BY DEF Start, loginVars, files, server
<1> QED
    BY <1>3, <1>4, <1>5, TerminalGoesOn, FilesStay DEF CliInv

\* From the reminder to the first call of the command itself.
LEMMA NudgeLoadKeeps ==
    ASSUME CliInv, NEW j \in Job, NudgeLoad(j)
    PROVE  CliInv'
<1>1. job[j] \in Cmd /\ CmdOk(job[j]) /\ job[j].at = "nudge"
    BY CommandIsOne DEF NudgeLoad
<1>2. UNCHANGED <<login, poll, minted, release, config, program>>
    BY DEF NudgeLoad, loginVars, files, server
<1>3. ASSUME NEW c, job' = [job EXCEPT ![j] = c],
             c \in Cmd /\ c.op = job[j].op /\ c.got = job[j].got /\ c.stored = job[j].stored,
             c.at \in {"token", "ask"}, c.read = job[j].read \/ c.read = Loaded
      PROVE  CliInv'
  <2>1. CmdOk(c)
      BY <1>1, <1>3, LoadedIsOne DEF CmdOk, LoginOk, UpdateOk, PutOk
  <2>2. \A l \in Login : ~ Holds(c, l)
      BY <1>3 DEF Holds
  <2> QED
      BY <1>2, <1>3, <2>1, <2>2, TerminalGoesOn, FilesStay DEF CliInv
<1>4. CASE Loaded.asked
  <2>1. PICK c : c = [job[j] EXCEPT !.at = "token"]
      OBVIOUS
  <2>2. job' = [job EXCEPT ![j] = c]
      BY <1>4, <2>1 DEF NudgeLoad
  <2>3. /\ c \in Cmd /\ c.op = job[j].op /\ c.got = job[j].got /\ c.stored = job[j].stored
        /\ c.at = "token" /\ c.read = job[j].read
      BY <1>1, <2>1 DEF Cmd, Steps
  <2> QED
      BY <1>3, <2>2, <2>3
<1>5. CASE ~ Loaded.asked
  <2>1. PICK c : c = [job[j] EXCEPT !.at = "ask", !.read = Loaded]
      OBVIOUS
  <2>2. job' = [job EXCEPT ![j] = c]
      BY <1>5, <2>1 DEF NudgeLoad
  <2>3. Loaded \in Config
      BY LoadedIsOne
  <2>4. /\ c \in Cmd /\ c.op = job[j].op /\ c.got = job[j].got /\ c.stored = job[j].stored
        /\ c.at = "ask" /\ c.read = Loaded
      BY <1>1, <2>1, <2>3 DEF Cmd, Steps
  <2> QED
      BY <1>3, <2>2, <2>4
<1> QED
    BY <1>4, <1>5

LEMMA NudgeSaveKeeps ==
    ASSUME CliInv, NEW j \in Job, NudgeSave(j)
    PROVE  CliInv'
<1> DEFINE c == [job[j] EXCEPT !.at = "token", !.read = NoConfig]
<1>1. job[j] \in Cmd /\ CmdOk(job[j]) /\ job[j].at = "ask"
    BY CommandIsOne DEF NudgeSave
<1>2. job' = [job EXCEPT ![j] = c]
    BY <1>1 DEF NudgeSave, Cmd
<1>3. c \in Cmd /\ c.op = job[j].op /\ c.got = job[j].got /\ c.stored = job[j].stored
      /\ c.at = "token" /\ c.read = NoConfig
    BY <1>1, NoConfigIsOne DEF Cmd, Steps
<1>4. CmdOk(c)
    BY <1>1, <1>3, NoConfigIsOne DEF CmdOk, LoginOk, UpdateOk, PutOk
<1>5. \A l \in Login : ~ Holds(c, l)
    BY <1>3 DEF Holds
<1>6. UNCHANGED <<login, poll, minted, release, program>>
    BY DEF NudgeSave, loginVars, server
<1>7. config' \in Config /\ config'.token = job[j].read.token
    BY <1>1 DEF NudgeSave, Cmd, Config
<1>8. ConfigOk' /\ ProgramOk'
    BY <1>1, <1>6, <1>7 DEF CliInv, ConfigOk, ProgramOk, CmdOk, Given
<1> QED
    BY <1>2, <1>4, <1>5, <1>6, <1>8, TerminalGoesOn DEF CliInv

LEMMA TokenKeeps ==
    ASSUME CliInv, NEW j \in Job, Token(j)
    PROVE  CliInv'
<1>1. job[j] \in Cmd /\ CmdOk(job[j]) /\ job[j].at = "token"
    BY CommandIsOne DEF Token
<1>2. UNCHANGED <<login, poll, minted, release, config, program>>
    BY DEF Token, loginVars, files, server
<1>3. CASE End(j)
    BY <1>2, <1>3, CommandEnds, FilesStay DEF CliInv
<1>4. CASE job[j].op \in {"login", "logout"} /\ Go(j, First[job[j].op])
  <2> DEFINE c == [job[j] EXCEPT !.at = First[job[j].op]]
  <2>1. job' = [job EXCEPT ![j] = c]
      BY <1>1, <1>4 DEF Go, Cmd
  <2>2. c \in Cmd /\ c.op = job[j].op /\ c.at \in {"code", "exists"} /\ c.read = job[j].read
    <3>1. First[job[j].op] \in {"code", "exists"}
        BY <1>4 DEF First
    <3> QED
        BY <1>1, <3>1 DEF Cmd, Steps
  <2>3. CmdOk(c)
      BY <1>1, <1>4, <2>2 DEF CmdOk, LoginOk, UpdateOk, PutOk
  <2>4. \A l \in Login : ~ Holds(c, l)
      BY <2>2 DEF Holds
  <2> QED
      BY <1>2, <2>1, <2>3, <2>4, TerminalGoesOn, FilesStay DEF CliInv
<1>5. CASE /\ job[j].op \notin {"login", "logout"} /\ Accepted(Loaded.token)
           /\ job' = [job EXCEPT ![j].at = First[job[j].op], ![j].row = Loaded.token]
  <2> DEFINE c == [job[j] EXCEPT !.at = First[job[j].op], !.row = Loaded.token]
  <2>1. job' = [job EXCEPT ![j] = c]
      BY <1>1, <1>5 DEF Cmd, Steps
  <2>2. Loaded.token \in Login \cup {Null}
      BY LoadedIsOne DEF Config
  <2>3. job[j].op \in {"update", "get", "put"}
        /\ First[job[j].op] \in {"code", "exists", "version", "check", "send"}
        /\ (job[j].op = "put" => First[job[j].op] = "send")
        /\ (job[j].op = "update" => First[job[j].op] = "version")
      BY <1>1, <1>5 DEF Cmd, First
  <2>4. c \in Cmd /\ c.op = job[j].op /\ c.at = First[job[j].op] /\ c.read = job[j].read
        /\ c.got = job[j].got /\ c.stored = job[j].stored
      BY <1>1, <2>2, <2>3 DEF Cmd, Steps
  <2>5. PutOk(c) /\ UpdateOk(c)
    <3>1. c.op = "put" => c.at = "send" /\ c.got = 0 /\ c.stored = {}
        BY <1>1, <2>3, <2>4 DEF CmdOk, PutOk
    <3>2. 1..0 = {}
        OBVIOUS
    <3> QED
        BY <2>3, <2>4, <3>1, <3>2 DEF PutOk, UpdateOk
  <2> QED
      BY <1>1, <1>2, <2>1, <2>3, <2>4, <2>5, OtherCommandGoesOn, FilesStay DEF CliInv, CmdOk
<1> QED
    BY <1>3, <1>4, <1>5 DEF Token

\* The end of login and of update.
LEMMA LoadKeeps ==
    ASSUME CliInv, NEW j \in Job, Load(j)
    PROVE  CliInv'
<1> DEFINE c == [job[j] EXCEPT !.at = "save", !.read = Loaded]
<1>1. job[j] \in Cmd /\ CmdOk(job[j]) /\ job[j].at = "load"
    BY CommandIsOne DEF Load
<1>2. job' = [job EXCEPT ![j] = c]
    BY <1>1 DEF Load, Cmd, Steps
<1>3. Loaded \in Config /\ Given(Loaded.token)
    BY LoadedIsOne
<1>4. c \in Cmd /\ c.op = job[j].op /\ c.at = "save" /\ c.row = job[j].row /\ c.read = Loaded
    BY <1>1, <1>3 DEF Cmd, Steps
<1>5. CmdOk(c)
    BY <1>1, <1>3, <1>4 DEF CmdOk, LoginOk, UpdateOk, PutOk
<1>6. \A l \in Login : c # Null /\ Holds(c, l) => job[j] # Null /\ Holds(job[j], l)
    BY <1>1, <1>4 DEF Holds, Load
<1>7. UNCHANGED <<login, poll, minted, release, config, program>>
    BY DEF Load, loginVars, files, server
<1> QED
    BY <1>2, <1>5, <1>6, <1>7, TerminalGoesOn, FilesStay DEF CliInv

LEMMA SaveKeeps ==
    ASSUME CliInv, NEW j \in Job, Save(j)
    PROVE  CliInv'
<1>1. job[j] \in Cmd /\ CmdOk(job[j]) /\ job[j].at = "save"
    BY CommandIsOne DEF Save
<1>2. UNCHANGED <<login, poll, minted, release, program>> /\ End(j)
    BY DEF Save, loginVars, server
<1>3. job[j].read \in Config /\ Given(job[j].read.token)
    BY <1>1 DEF Cmd, CmdOk
<1>4. config' \in Config /\ Given(config'.token)
  <2>1. CASE job[j].op = "login"
    <3>1. job[j].row \in Login /\ Given(job[j].row)
        BY <1>1, <2>1 DEF CmdOk, LoginOk, Cmd, Given
    <3>2. config' = [job[j].read EXCEPT !.token = job[j].row]
        BY <2>1 DEF Save
    <3> QED
        BY <1>3, <3>1, <3>2 DEF Config
  <2>2. CASE job[j].op # "login"
    <3>1. config' = [job[j].read EXCEPT !.asked = TRUE]
        BY <2>2 DEF Save
    <3> QED
        BY <1>3, <3>1 DEF Config
  <2> QED
      BY <2>1, <2>2
<1>5. ConfigOk' /\ ProgramOk'
    BY <1>2, <1>4 DEF CliInv, ConfigOk, ProgramOk, Given
<1> QED
    BY <1>2, <1>5, CommandEnds DEF CliInv

\* A command that is not a login goes on, with what it has; the files of this proof stay.
LEMMA MovesOn ==
    ASSUME CliInv, NEW j \in Job, job[j] # Null, job[j].op \in {"get", "logout", "update"},
           NEW at \in Steps \ {"swap"}, Go(j, at),
           UNCHANGED <<login, poll, minted, release>>
    PROVE  JobsOk' /\ OneHolder' /\ LoginsOk'
<1> DEFINE c == [job[j] EXCEPT !.at = at]
<1>1. job[j] \in Cmd /\ CmdOk(job[j])
    BY CommandIsOne
<1>2. job' = [job EXCEPT ![j] = c]
    BY <1>1 DEF Go, Cmd
<1>3. c \in Cmd /\ c.op = job[j].op /\ c.at = at /\ c.read = job[j].read
    BY <1>1 DEF Cmd, Steps
<1>4. UpdateOk(c) /\ PutOk(c)
    BY <1>3 DEF UpdateOk, PutOk
<1> QED
    BY <1>1, <1>2, <1>3, <1>4, OtherCommandGoesOn DEF CmdOk

LEMMA LogoutKeeps ==
    ASSUME CliInv, NEW j \in Job, Exists(j) \/ Unlink(j)
    PROVE  CliInv'
<1>1. UNCHANGED <<login, poll, minted, release, program>>
    BY DEF Exists, Unlink, loginVars, files, server
<1>2. JobsOk' /\ OneHolder' /\ LoginsOk'
  <2>1. CASE End(j)
      BY <1>1, <2>1, CommandEnds
  <2>2. CASE Go(j, "unlink") /\ Exists(j)
    <3>1. job[j] # Null /\ job[j].op = "logout" /\ "unlink" \in Steps \ {"swap"}
        BY <2>2 DEF Exists, At, Steps
    <3> QED
        BY <1>1, <2>2, <3>1, MovesOn
  <2> QED
      BY <2>1, <2>2 DEF Exists, Unlink
<1>3. ConfigOk' /\ ProgramOk'
    BY <1>1 DEF Exists, Unlink, files, CliInv, ConfigOk, ProgramOk, Given
<1> QED
    BY <1>2, <1>3 DEF CliInv

LEMMA AskVersionKeeps ==
    ASSUME CliInv, NEW j \in Job, AskVersion(j)
    PROVE  CliInv'
<1>1. UNCHANGED <<login, poll, minted, release, config, program>>
    BY DEF AskVersion, loginVars, files, server
<1>2. CASE End(j)
    BY <1>1, <1>2, CommandEnds, FilesStay DEF CliInv
<1>3. CASE Go(j, "fetch")
  <2>1. job[j] # Null /\ job[j].op = "update" /\ "fetch" \in Steps \ {"swap"}
      BY DEF AskVersion, At, Steps
  <2> QED
      BY <1>1, <1>3, <2>1, MovesOn, FilesStay DEF CliInv
<1> QED
    BY <1>2, <1>3 DEF AskVersion

\* Only what the server handed out is taken.
LEMMA FetchProgramKeeps ==
    ASSUME CliInv, NEW j \in Job, FetchProgram(j)
    PROVE  CliInv'
<1>1. UNCHANGED <<login, poll, minted, release, config, program>>
    BY DEF FetchProgram, loginVars, files, server
<1>2. CASE End(j)
    BY <1>1, <1>2, CommandEnds, FilesStay DEF CliInv
<1>3. CASE job' = [job EXCEPT ![j].at = "swap", ![j].got = release]
  <2> DEFINE c == [job[j] EXCEPT !.at = "swap", !.got = release]
  <2>1. job[j] \in Cmd /\ CmdOk(job[j]) /\ job[j].op = "update"
      BY CommandIsOne DEF FetchProgram, At
  <2>2. job' = [job EXCEPT ![j] = c]
      BY <1>3, <2>1 DEF Cmd
  <2>3. release \in Nat /\ release \in 1..release
      BY DEF CliInv, ProgramOk
  <2>4. c \in Cmd /\ c.op = "update" /\ c.read = job[j].read /\ c.got = release
      BY <2>1, <2>3 DEF Cmd, Steps
  <2>5. UpdateOk(c) /\ PutOk(c)
      BY <2>3, <2>4 DEF UpdateOk, PutOk
  <2> QED
      BY <1>1, <2>1, <2>2, <2>4, <2>5, OtherCommandGoesOn, FilesStay DEF CliInv, CmdOk
<1> QED
    BY <1>2, <1>3 DEF FetchProgram, Take

LEMMA SwapKeeps ==
    ASSUME CliInv, NEW j \in Job, Swap(j)
    PROVE  CliInv'
<1>1. UNCHANGED <<login, poll, minted, release, config>>
    BY DEF Swap, loginVars, server
<1>2. job[j] # Null /\ CmdOk(job[j]) /\ job[j].op = "update" /\ job[j].at = "swap"
    BY CommandIsOne DEF Swap, At
<1>3. "load" \in Steps \ {"swap"}
    BY DEF Steps
<1>4. JobsOk' /\ OneHolder' /\ LoginsOk'
    BY <1>1, <1>2, <1>3, MovesOn DEF Swap
<1>5. program' \in 1..release /\ release \in Nat
    BY <1>2 DEF Swap, CmdOk, UpdateOk, CliInv, ProgramOk
<1>6. ConfigOk' /\ ProgramOk'
    BY <1>1, <1>5 DEF CliInv, ConfigOk, ProgramOk, Given
<1> QED
    BY <1>4, <1>6 DEF CliInv

\* A download leaves the configuration and the program alone.
LEMMA GetKeeps ==
    ASSUME CliInv, NEW j \in Job,
           Check(j) \/ Fetch(j) \/ PlaceFile(j) \/ Clear(j) \/ Remove(j) \/ Move(j)
    PROVE  CliInv'
<1>1. UNCHANGED <<login, poll, minted, release, config, program>>
    BY DEF Check, Fetch, PlaceFile, Clear, Remove, Move, loginVars, files, server
<1>2. CASE End(j)
    BY <1>1, <1>2, CommandEnds, FilesStay DEF CliInv
<1>3. ASSUME NEW at \in {"fetch", "place", "remove", "move"}, Go(j, at)
      PROVE  CliInv'
  <2>1. job[j] # Null /\ job[j].op = "get" /\ at \in Steps \ {"swap"}
      BY <1>3 DEF Check, Fetch, PlaceFile, Clear, Unpacked, Remove, Move, At, Steps
  <2> QED
      BY <1>1, <1>3, <2>1, MovesOn, FilesStay DEF CliInv
<1> QED
    BY <1>2, <1>3 DEF Check, Fetch, PlaceFile, Clear, Remove, Move

LEMMA UnpackKeeps ==
    ASSUME CliInv, NEW j \in Job, Unpack(j)
    PROVE  CliInv'
<1> DEFINE c == [job[j] EXCEPT !.got = job[j].got + 1]
<1>1. job[j] \in Cmd /\ CmdOk(job[j]) /\ job[j].op = "get"
    BY CommandIsOne DEF Unpack, At
<1>2. job' = [job EXCEPT ![j] = c]
    BY <1>1 DEF Unpack, Cmd
<1>3. job[j].got + 1 \in Nat
    BY <1>1 DEF Cmd
<1>4. c \in Cmd /\ c.op = "get" /\ c.read = job[j].read
    BY <1>1, <1>3 DEF Cmd
<1>5. UpdateOk(c) /\ PutOk(c)
    BY <1>4 DEF UpdateOk, PutOk
<1>6. UNCHANGED <<login, poll, minted, release, config, program>>
    BY DEF Unpack, loginVars, files, server
<1> QED
    BY <1>1, <1>2, <1>4, <1>5, <1>6, OtherCommandGoesOn, FilesStay DEF CliInv, CmdOk

LEMMA SendKeeps ==
    ASSUME CliInv, NEW j \in Job, Send(j)
    PROVE  CliInv'
<1>1. UNCHANGED <<login, poll, minted, release, config, program>>
    BY DEF Send, loginVars, files, server
<1>2. CASE End(j)
    BY <1>1, <1>2, CommandEnds, FilesStay DEF CliInv
<1>3. CASE job' = [job EXCEPT ![j].at = "report", ![j].stored = @ \cup {job[j].got + 1}]
  <2> DEFINE c == [job[j] EXCEPT !.at = "report", !.stored = job[j].stored \cup {job[j].got + 1}]
  <2>1. job[j] \in Cmd /\ CmdOk(job[j]) /\ job[j].op = "put" /\ job[j].at = "send"
      BY CommandIsOne DEF Send, At
  <2>2. job' = [job EXCEPT ![j] = c]
      BY <1>3, <2>1 DEF Cmd
  <2>3. job[j].got \in Nat /\ job[j].stored = 1..job[j].got
      BY <2>1 DEF CmdOk, PutOk, Cmd
  <2>4. 1..(job[j].got + 1) = (1..job[j].got) \cup {job[j].got + 1}
      BY <2>3
  <2>5. job[j].stored \cup {job[j].got + 1} \in SUBSET Nat
      BY <2>3
  <2>6. c \in Cmd /\ c.op = "put" /\ c.at = "report" /\ c.read = job[j].read
        /\ c.got = job[j].got /\ c.stored = job[j].stored \cup {job[j].got + 1}
      BY <2>1, <2>5 DEF Cmd, Steps
  <2>7. UpdateOk(c) /\ PutOk(c)
      BY <2>3, <2>4, <2>6 DEF UpdateOk, PutOk
  <2> QED
      BY <1>1, <2>1, <2>2, <2>6, <2>7, OtherCommandGoesOn, FilesStay DEF CliInv, CmdOk
<1> QED
    BY <1>2, <1>3 DEF Send, Refused

LEMMA ReportKeeps ==
    ASSUME CliInv, NEW j \in Job, Report(j)
    PROVE  CliInv'
<1> DEFINE c == [job[j] EXCEPT !.at = "send", !.got = job[j].got + 1]
<1>1. job[j] \in Cmd /\ CmdOk(job[j]) /\ job[j].op = "put" /\ job[j].at = "report"
    BY CommandIsOne DEF Report, At
<1>2. job' = [job EXCEPT ![j] = c]
    BY <1>1 DEF Report, Cmd
<1>3. job[j].got + 1 \in Nat
    BY <1>1 DEF Cmd
<1>4. c \in Cmd /\ c.op = "put" /\ c.at = "send" /\ c.read = job[j].read
      /\ c.got = job[j].got + 1 /\ c.stored = job[j].stored
    BY <1>1, <1>3 DEF Cmd, Steps
<1>5. UpdateOk(c) /\ PutOk(c)
    BY <1>1, <1>4 DEF UpdateOk, PutOk, CmdOk
<1>6. UNCHANGED <<login, poll, minted, release, config, program>>
    BY DEF Report, loginVars, files, server
<1> QED
    BY <1>1, <1>2, <1>4, <1>5, <1>6, OtherCommandGoesOn, FilesStay DEF CliInv, CmdOk

-----------------------------------------------------------------------------
\* The steps of a login

\* What is true of a command stays true while logins go on, if its own does not.
LEMMA CommandStays ==
    ASSUME CliInv, NEW c, CmdOk(c), release' = release,
           \A l \in Login : /\ login[l] # Null => login'[l] # Null
                            /\ minted[l] = 1 => minted'[l] = 1,
           c.op = "login" /\ c.at = "sleep" =>
               minted'[c.row] = 0 /\ \A p \in Poll : poll'[p] # c.row,
           c.op = "login" /\ c.at = "polled" => poll'[c.poll] = c.row
    PROVE  CmdOk(c)'
<1>1. c.row \in Login \cup {Null} /\ c.read \in Config
    BY DEF CmdOk, Cmd
<1>2. Given(c.read.token)'
    BY <1>1 DEF CmdOk, Given, Config
<1>3. LoginOk(c)'
    BY <1>1 DEF CmdOk, LoginOk
<1>4. UpdateOk(c)' /\ PutOk(c)'
    BY DEF CmdOk, UpdateOk, PutOk
<1> QED
    BY <1>2, <1>3, <1>4 DEF CmdOk

LEMMA JobsGoOn ==
    ASSUME NEW d, job' = d, d = [i \in Job |-> d[i]],
           \A i \in Job : d[i] # Null => CmdOk(d[i])'
    PROVE  JobsOk'
    BY DEF JobsOk, CmdOk, LoginOk, UpdateOk, PutOk, Given

LEMMA HoldersGoOn ==
    ASSUME CliInv, NEW d, job' = d,
           \A i \in Job, l \in Login : d[i] # Null /\ Holds(d[i], l)
                                         => job[i] # Null /\ Holds(job[i], l)
    PROVE  OneHolder'
<1>1. \A i, k \in Job, l \in Login :
          (d[i] # Null /\ Holds(d[i], l) /\ d[k] # Null /\ Holds(d[k], l)) => i = k
    BY DEF CliInv, OneHolder
<1> QED
    BY <1>1 DEF OneHolder, Holds

LEMMA AskCodeKeeps ==
    ASSUME CliInv, NEW j \in Job, AskCode(j)
    PROVE  CliInv'
<1>1. PICK l \in Login : Issue(l) /\ job' = [job EXCEPT ![j].at = "sleep", ![j].row = l]
    BY DEF AskCode
<1> DEFINE r == [status |-> "pending", expired |-> FALSE, recent |-> FALSE]
           c == [job[j] EXCEPT !.at = "sleep", !.row = l]
<1>2. job[j] # Null /\ job[j] \in Cmd /\ CmdOk(job[j]) /\ job[j].op = "login"
    BY CommandIsOne DEF AskCode, At
<1>3. job' = [job EXCEPT ![j] = c]
    BY <1>1, <1>2 DEF Cmd
<1>4. c \in Cmd /\ c.op = "login" /\ c.at = "sleep" /\ c.row = l /\ c.read = job[j].read
    BY <1>1, <1>2 DEF Cmd, Steps
<1>5. r \in Row /\ r # Null
  <2>1. r \in Row
      BY DEF Row
  <2> HIDE DEF r
  <2> QED
      BY <2>1, NullIsNothing
<1>6. login[l] = Null /\ login' = [login EXCEPT ![l] = r]
      /\ UNCHANGED <<poll, minted, release, config, program>>
    BY <1>1 DEF Issue, AskCode, files, server
<1>7. LoginsOk'
    BY <1>5, <1>6 DEF CliInv, LoginsOk
<1>8. \A k \in Login : login[k] # Null => login'[k] # Null
    BY <1>5, <1>6 DEF CliInv, LoginsOk
<1>9. minted[l] = 0 /\ \A p \in Poll : poll[p] # l
    BY <1>6, NullIsNothing DEF CliInv, LoginsOk
<1>10. JobsOk'
  <2>1. PICK d : d = job'
      OBVIOUS
  <2>2. d = [i \in Job |-> d[i]] /\ \A i \in Job : d[i] = IF i = j THEN c ELSE job[i]
      BY <1>3, <2>1 DEF CliInv, JobsOk
  <2>3. CmdOk(d[j])'
    <3>1. d[j] = c /\ c.row # Null /\ login'[c.row] # Null
        BY <1>4, <1>5, <1>6, <2>2, NullIsNothing DEF CliInv, LoginsOk
    <3>2. Given(c.read.token) /\ UpdateOk(c) /\ PutOk(c)
        BY <1>2, <1>4 DEF CmdOk, UpdateOk, PutOk
    <3>3. d[j] \in Cmd /\ Given(d[j].read.token)' /\ UpdateOk(d[j])' /\ PutOk(d[j])'
        BY <1>4, <1>6, <3>1, <3>2 DEF Given, UpdateOk, PutOk
    <3>4. LoginOk(d[j])'
        BY <1>4, <1>6, <1>9, <3>1 DEF LoginOk
    <3> QED
        BY <3>3, <3>4 DEF CmdOk
  <2>4. ASSUME NEW i \in Job, i # j, d[i] # Null
        PROVE  CmdOk(d[i])'
    <3>1. CmdOk(d[i])
        BY <2>2, <2>4 DEF CliInv, JobsOk
    <3>2. d[i].op = "login" /\ d[i].at \in {"sleep", "polled"} =>
              /\ d[i].at = "sleep" => minted[d[i].row] = 0 /\ \A p \in Poll : poll[p] # d[i].row
              /\ d[i].at = "polled" => poll[d[i].poll] = d[i].row
        BY <3>1 DEF CmdOk, LoginOk
    <3> QED
        BY <1>6, <1>8, <3>1, <3>2, CommandStays
  <2> QED
      BY <2>1, <2>2, <2>3, <2>4, JobsGoOn
<1>11. OneHolder'
  <2>1. \A i \in Job : job'[i] = IF i = j THEN c ELSE job[i]
      BY <1>3 DEF CliInv, JobsOk
  <2>2. \A i \in Job : job[i] # Null => ~ Holds(job[i], l)
      BY <1>6 DEF CliInv, JobsOk, CmdOk, LoginOk, Holds
  <2>3. \A k \in Login : Holds(c, k) => k = l
      BY <1>4 DEF Holds
  <2> SUFFICES ASSUME NEW i \in Job, NEW m \in Job, NEW k \in Login,
                      job'[i] # Null, Holds(job'[i], k), job'[m] # Null, Holds(job'[m], k)
               PROVE  i = m
      BY DEF OneHolder, Holds
  <2>4. CASE k = l
      BY <2>1, <2>2, <2>4
  <2>5. CASE k # l
      BY <2>1, <2>3, <2>5 DEF CliInv, OneHolder
  <2> QED
      BY <2>4, <2>5
<1>12. ConfigOk' /\ ProgramOk'
    BY <1>6, FilesStay
<1> QED
    BY <1>7, <1>10, <1>11, <1>12 DEF CliInv

\* A login row with a field changed.
LEMMA RowChanges ==
    ASSUME NEW r \in Row, NEW st \in {"pending", "approved", "denied", "consumed"},
           NEW b \in BOOLEAN
    PROVE  /\ [r EXCEPT !.status = st] \in Row
           /\ [r EXCEPT !.expired = b] \in Row
           /\ [r EXCEPT !.recent = b] \in Row
    BY DEF Row

LEMMA LoginRows ==
    ASSUME CliInv, NEW l \in Login, login[l] # Null
    PROVE  login[l] \in Row
    BY DEF CliInv, LoginsOk

\* What the rows are after one of them has changed.
LEMMA RowsChange ==
    ASSUME CliInv, NEW l \in Login, login[l] # Null, NEW r \in Row,
           login' = [login EXCEPT ![l] = r]
    PROVE  /\ login' \in [Login -> Row \cup {Null}]
           /\ \A k \in Login : login[k] # Null => login'[k] # Null
    BY NullIsNothing DEF CliInv, LoginsOk

LEMMA AskTokenKeeps ==
    ASSUME CliInv, NEW j \in Job, AskToken(j)
    PROVE  CliInv'
<1>1. PICK l : l = job[j].row
    OBVIOUS
<1>2. PICK p \in Poll :
        /\ PollStart(p, l)
        /\ job' = CASE poll'[p] = l -> [job EXCEPT ![j].at = "polled", ![j].poll = p]
                    [] login[l].status = "pending" /\ ~ login[l].expired -> job
                    [] OTHER -> [job EXCEPT ![j] = Null]
    BY <1>1 DEF AskToken
<1>3. job[j] # Null /\ job[j] \in Cmd /\ CmdOk(job[j]) /\ job[j].op = "login" /\ job[j].at = "sleep"
    BY CommandIsOne DEF AskToken, At
<1>4. l \in Login /\ login[l] # Null /\ minted[l] = 0 /\ \A q \in Poll : poll[q] # l
    BY <1>1, <1>3 DEF CmdOk, LoginOk, Cmd
<1>5. /\ login' \in [Login -> Row \cup {Null}]
      /\ \A k \in Login : login[k] # Null => login'[k] # Null
  <2>1. login' = [login EXCEPT ![l] = [login[l] EXCEPT !.recent = TRUE]]
      BY <1>2 DEF PollStart
  <2>2. [login[l] EXCEPT !.recent = TRUE] \in Row
      BY <1>4, LoginRows, RowChanges
  <2> QED
      BY <1>4, <2>1, <2>2, RowsChange
<1>6. poll[p] = Null /\ UNCHANGED <<minted, release, config, program>>
    BY <1>2 DEF PollStart, AskToken, files, server
<1>7. poll' = poll \/ poll' = [poll EXCEPT ![p] = l]
    BY <1>2 DEF PollStart
<1>8. LoginsOk'
    BY <1>4, <1>5, <1>6, <1>7 DEF CliInv, LoginsOk
<1>9. ConfigOk' /\ ProgramOk'
    BY <1>6, FilesStay
<1>10. PICK d : d = job'
    OBVIOUS
<1>11. ASSUME NEW i \in Job, i # j, d[i] = job[i], d[i] # Null
       PROVE  CmdOk(d[i])'
  <2>1. CmdOk(d[i])
      BY <1>11 DEF CliInv, JobsOk
  <2>2. d[i].op = "login" /\ d[i].at \in {"sleep", "polled"} => d[i].row # l
    <3>1. Holds(job[j], l)
        BY <1>1, <1>3 DEF Holds
    <3>2. Holds(d[i], l) => i = j
        BY <1>3, <1>4, <1>11, <3>1 DEF CliInv, OneHolder
    <3> QED
        BY <1>11, <3>2 DEF Holds
  <2>3. d[i].op = "login" /\ d[i].at \in {"sleep", "polled"} =>
            /\ d[i].at = "sleep" => minted[d[i].row] = 0 /\ \A q \in Poll : poll[q] # d[i].row
            /\ d[i].at = "polled" => d[i].poll \in Poll /\ poll[d[i].poll] = d[i].row
                                     /\ d[i].row # Null
      BY <2>1 DEF CmdOk, LoginOk
  <2>4. d[i].op = "login" /\ d[i].at = "sleep" => \A q \in Poll : poll'[q] # d[i].row
      BY <1>4, <1>7, <2>2, <2>3 DEF CliInv, LoginsOk
  <2>5. d[i].op = "login" /\ d[i].at = "polled" => poll'[d[i].poll] = d[i].row
      BY <1>6, <1>7, <2>3 DEF CliInv, LoginsOk
  <2> QED
      BY <1>5, <1>6, <2>1, <2>3, <2>4, <2>5, CommandStays
<1>12. CASE poll' = [poll EXCEPT ![p] = l]
  <2> DEFINE c == [job[j] EXCEPT !.at = "polled", !.poll = p]
  <2>1. poll'[p] = l
      BY <1>12 DEF CliInv, LoginsOk
  <2>2. job' = [job EXCEPT ![j] = c]
    <3>1. job' = [job EXCEPT ![j].at = "polled", ![j].poll = p]
      <4>1. poll' # poll
          BY <1>4, <1>6, <2>1, NullIsNothing
      <4>2. login[l].status = "approved"
          BY <1>2, <4>1 DEF PollStart
      <4> QED
          BY <1>2, <2>1, <4>2
    <3> QED
        BY <1>3, <3>1 DEF Cmd
  <2>3. c \in Cmd /\ c.op = "login" /\ c.at = "polled" /\ c.row = l /\ c.poll = p
        /\ c.read = job[j].read
      BY <1>1, <1>3 DEF Cmd, Steps
  <2>4. d = [i \in Job |-> d[i]] /\ \A i \in Job : d[i] = IF i = j THEN c ELSE job[i]
      BY <1>10, <2>2 DEF CliInv, JobsOk
  <2>5. CmdOk(d[j])'
    <3>1. d[j] = c /\ l # Null /\ login'[l] # Null
        BY <1>4, <1>5, <2>4, NullIsNothing
    <3>2. Given(c.read.token) /\ UpdateOk(c) /\ PutOk(c)
        BY <1>3, <2>3 DEF CmdOk, UpdateOk, PutOk
    <3>3. d[j] \in Cmd /\ Given(d[j].read.token)' /\ UpdateOk(d[j])' /\ PutOk(d[j])'
        BY <1>6, <2>3, <3>1, <3>2 DEF Given, UpdateOk, PutOk
    <3>4. LoginOk(d[j])'
      <4>1. d[j].row = l /\ d[j].at = "polled" /\ d[j].poll = p /\ p # Null
          BY <2>3, <3>1, NullIsNothing
      <4> QED
          BY <2>1, <3>1, <4>1 DEF LoginOk
    <3> QED
        BY <3>3, <3>4 DEF CmdOk
  <2>6. JobsOk'
      BY <1>10, <1>11, <2>4, <2>5, JobsGoOn
  <2>7. \A k \in Login : Holds(c, k) => Holds(job[j], k)
      BY <1>1, <1>3, <2>3 DEF Holds
  <2>8. OneHolder'
      BY <1>3, <1>10, <2>4, <2>7, HoldersGoOn
  <2> QED
      BY <1>8, <1>9, <2>6, <2>8 DEF CliInv
<1>13. CASE poll' = poll
  <2>1. poll'[p] # l
      BY <1>4, <1>6, <1>13
  <2>2. job' = job \/ job' = [job EXCEPT ![j] = Null]
      BY <1>2, <2>1
  <2>3. d = [i \in Job |-> d[i]] /\ \A i \in Job : d[i] = job[i] \/ (i = j /\ d[i] = Null)
      BY <1>10, <2>2 DEF CliInv, JobsOk
  <2>4. d[j] # Null => CmdOk(d[j])'
      BY <1>1, <1>3, <1>4, <1>5, <1>6, <1>13, <2>3, CommandStays
  <2>5. JobsOk'
      BY <1>10, <1>11, <2>3, <2>4, JobsGoOn
  <2>6. OneHolder'
      BY <1>10, <2>3, HoldersGoOn
  <2> QED
      BY <1>8, <1>9, <2>5, <2>6 DEF CliInv
<1> QED
    BY <1>7, <1>12, <1>13

\* The end of a poll, with or without the token.
LEMMA OthersStay ==
    ASSUME CliInv, NEW p \in Poll, poll[p] # Null, NEW c, CmdOk(c),
           ~ (c.op = "login" /\ c.at = "polled" /\ c.poll = p),
           poll' = [poll EXCEPT ![p] = Null], release' = release,
           \A k \in Login : /\ login[k] # Null => login'[k] # Null
                            /\ minted[k] = 1 => minted'[k] = 1
                            /\ k # poll[p] => minted'[k] = minted[k]
    PROVE  CmdOk(c)'
<1>1. c.row \in Login \cup {Null}
    BY DEF CmdOk, Cmd
<1>2. c.op = "login" /\ c.at = "sleep" =>
          c.row # Null /\ minted[c.row] = 0 /\ \A q \in Poll : poll[q] # c.row
    BY DEF CmdOk, LoginOk
<1>3. c.op = "login" /\ c.at = "sleep" =>
          minted'[c.row] = 0 /\ \A q \in Poll : poll'[q] # c.row
    BY <1>1, <1>2 DEF CliInv, LoginsOk
<1>4. c.op = "login" /\ c.at = "polled" => poll'[c.poll] = c.row
    BY DEF CmdOk, LoginOk, CliInv, LoginsOk
<1> QED
    BY <1>3, <1>4, CommandStays

LEMMA NoAnswerKeeps ==
    ASSUME CliInv, NEW p \in Poll, NoAnswer(p)
    PROVE  CliInv'
<1>1. poll[p] # Null /\ poll' = [poll EXCEPT ![p] = Null]
      /\ UNCHANGED <<login, minted, release, config, program>>
    BY DEF NoAnswer, PollLost, files, server
<1>2. PICK d : d = job'
    OBVIOUS
<1>3. d = [i \in Job |-> d[i]]
      /\ \A i \in Job : d[i] = Null \/ (~ Waits(i, p) /\ d[i] = job[i])
    BY <1>2 DEF NoAnswer
<1>4. ASSUME NEW i \in Job, d[i] # Null
      PROVE  CmdOk(d[i])'
  <2>1. d[i] = job[i] /\ CmdOk(d[i]) /\ ~ (d[i].op = "login" /\ d[i].at = "polled" /\ d[i].poll = p)
      BY <1>3, <1>4 DEF CliInv, JobsOk, Waits, At
  <2> QED
      BY <1>1, <2>1, OthersStay
<1>5. JobsOk' /\ OneHolder'
    BY <1>2, <1>3, <1>4, JobsGoOn, HoldersGoOn
<1>6. LoginsOk'
    BY <1>1 DEF CliInv, LoginsOk
<1> QED
    BY <1>1, <1>5, <1>6, FilesStay DEF CliInv

LEMMA AnswerKeeps ==
    ASSUME CliInv, NEW p \in Poll, Answer(p)
    PROVE  CliInv'
<1>1. poll[p] # Null /\ poll' = [poll EXCEPT ![p] = Null] /\ UNCHANGED <<release, config, program>>
    BY DEF Answer, PollFinish, files, server
<1>2. PICK l \in Login : l = poll[p]
    BY <1>1 DEF CliInv, LoginsOk
<1>3. login[l] # Null /\ minted[l] = 0
    BY <1>1, <1>2 DEF CliInv, LoginsOk
<1>4. /\ login' \in [Login -> Row \cup {Null}]
      /\ \A k \in Login : login[k] # Null => login'[k] # Null
      /\ minted' = IF active THEN [minted EXCEPT ![l] = 1] ELSE minted
  <2>1. CASE active
    <3>1. login' = [login EXCEPT ![l] = [login[l] EXCEPT !.status = "consumed"]]
          /\ minted' = [minted EXCEPT ![l] = 1]
      <4>1. login' = [login EXCEPT ![l].status = "consumed"]
            /\ minted' = [minted EXCEPT ![l] = minted[l] + 1]
          BY <1>2, <2>1 DEF Answer, PollFinish
      <4>2. minted[l] + 1 = 1
          BY <1>3
      <4> QED
          BY <4>1, <4>2
    <3>2. [login[l] EXCEPT !.status = "consumed"] \in Row
        BY <1>3, LoginRows, RowChanges
    <3> QED
        BY <1>3, <2>1, <3>1, <3>2, RowsChange
  <2>2. CASE ~ active
      BY <2>2 DEF Answer, PollFinish, CliInv, LoginsOk
  <2> QED
      BY <2>1, <2>2
<1>5. \A k \in Login : /\ minted[k] = 1 => minted'[k] = 1
                       /\ k # l => minted'[k] = minted[k]
    BY <1>4 DEF CliInv, LoginsOk
<1>6. LoginsOk'
  <2>1. minted' \in [Login -> 0..1]
      BY <1>4 DEF CliInv, LoginsOk
  <2>2. poll' \in [Poll -> Login \cup {Null}]
        /\ \A q \in Poll : poll'[q] # Null => q # p /\ poll'[q] = poll[q]
      BY <1>1 DEF CliInv, LoginsOk
  <2>3. \A q \in Poll : poll'[q] # Null => poll[q] # l
      BY <1>1, <1>2, <2>2 DEF CliInv, LoginsOk
  <2>4. \A k \in Login : minted'[k] = 1 => login'[k] # Null
      BY <1>3, <1>4, <1>5 DEF CliInv, LoginsOk
  <2>5. \A q \in Poll : poll'[q] # Null => minted'[poll'[q]] = 0 /\ login'[poll'[q]] # Null
      BY <1>4, <1>5, <2>2, <2>3 DEF CliInv, LoginsOk
  <2>6. \A q, r \in Poll : poll'[q] # Null /\ poll'[q] = poll'[r] => q = r
      BY <2>2 DEF CliInv, LoginsOk
  <2> QED
      BY <1>4, <2>1, <2>2, <2>4, <2>5, <2>6 DEF LoginsOk
<1>7. PICK d : d = job'
    OBVIOUS
<1>8. d = [i \in Job |-> d[i]]
      /\ \A i \in Job : d[i] = IF ~ Waits(i, p) THEN job[i]
                               ELSE IF active THEN [job[i] EXCEPT !.at = "load", !.poll = Null]
                               ELSE Null
    BY <1>7 DEF Answer
<1>9. ASSUME NEW i \in Job, ~ Waits(i, p), d[i] # Null
      PROVE  CmdOk(d[i])'
  <2>1. d[i] = job[i] /\ CmdOk(d[i]) /\ ~ (d[i].op = "login" /\ d[i].at = "polled" /\ d[i].poll = p)
      BY <1>8, <1>9 DEF CliInv, JobsOk, Waits, At
  <2> QED
      BY <1>1, <1>2, <1>4, <1>5, <2>1, OthersStay
<1>10. ASSUME NEW i \in Job, Waits(i, p), active
       PROVE  /\ CmdOk(d[i])'
              /\ \A k \in Login : Holds(d[i], k) => Holds(job[i], k)
  <2>1. job[i] # Null /\ job[i] \in Cmd /\ CmdOk(job[i])
        /\ job[i].op = "login" /\ job[i].at = "polled" /\ job[i].poll = p
      BY <1>10, CommandIsOne DEF Waits, At
  <2>2. job[i].row = l
      BY <1>2, <2>1 DEF CmdOk, LoginOk
  <2>3. d[i] = [job[i] EXCEPT !.at = "load", !.poll = Null]
      BY <1>8, <1>10
  <2>4. d[i] \in Cmd /\ d[i].op = "login" /\ d[i].at = "load" /\ d[i].row = l
        /\ d[i].read = job[i].read
      BY <2>1, <2>2, <2>3 DEF Cmd, Steps
  <2>5. login'[l] # Null /\ minted'[l] = 1 /\ l # Null
      BY <1>3, <1>4, <1>10, NullIsNothing DEF CliInv, LoginsOk
  <2>6. Given(d[i].read.token)'
    <3>1. d[i].read.token \in Login \cup {Null} /\ Given(d[i].read.token)
        BY <2>1, <2>4 DEF CmdOk, Cmd, Config
    <3> QED
        BY <1>5, <3>1 DEF Given
  <2>7. LoginOk(d[i])'
      BY <2>4, <2>5 DEF LoginOk
  <2>8. UpdateOk(d[i])' /\ PutOk(d[i])'
      BY <2>4 DEF UpdateOk, PutOk
  <2>9. \A k \in Login : Holds(d[i], k) => Holds(job[i], k)
      BY <2>1, <2>2, <2>4 DEF Holds
  <2> QED
      BY <2>4, <2>6, <2>7, <2>8, <2>9 DEF CmdOk
<1>11. JobsOk'
  <2>1. \A i \in Job : d[i] # Null => CmdOk(d[i])'
      BY <1>8, <1>9, <1>10
  <2> QED
      BY <1>7, <1>8, <2>1, JobsGoOn
<1>12. OneHolder'
  <2>1. ASSUME NEW i \in Job, NEW k \in Login, d[i] # Null, Holds(d[i], k)
        PROVE  job[i] # Null /\ Holds(job[i], k)
    <3>1. CASE Waits(i, p)
        BY <1>8, <1>10, <2>1, <3>1 DEF Waits, At
    <3>2. CASE ~ Waits(i, p)
        BY <1>8, <2>1, <3>2
    <3> QED
        BY <3>1, <3>2
  <2> QED
      BY <1>7, <2>1, HoldersGoOn
<1>13. ConfigOk' /\ ProgramOk'
  <2>1. config # Null => config.token \in Login \cup {Null}
      BY DEF CliInv, ConfigOk, Config
  <2> QED
      BY <1>1, <1>5, <2>1 DEF CliInv, ConfigOk, ProgramOk, Given
<1> QED
    BY <1>6, <1>11, <1>12, <1>13 DEF CliInv

-----------------------------------------------------------------------------
\* What happens around the terminals

LEMMA GiveUpOrKillKeeps ==
    ASSUME CliInv, NEW j \in Job, GiveUp(j) \/ Kill(j)
    PROVE  CliInv'
<1>1. End(j) /\ UNCHANGED <<login, poll, minted, release, config, program>>
    BY DEF GiveUp, Kill, loginVars, files, server
<1> QED
    BY <1>1, CommandEnds, FilesStay DEF CliInv

\* The commands stay where they are.
LEMMA TerminalsWait ==
    ASSUME CliInv, UNCHANGED <<job, poll, minted>>, release' \in Nat, release <= release',
           login' \in [Login -> Row \cup {Null}],
           \A k \in Login : login[k] # Null => login'[k] # Null
    PROVE  JobsOk' /\ OneHolder' /\ LoginsOk'
<1>1. LoginsOk'
    BY DEF CliInv, LoginsOk
<1>2. OneHolder'
    BY DEF CliInv, OneHolder, Holds
<1>3. ASSUME NEW j \in Job, job[j] # Null
      PROVE  CmdOk(job[j])'
  <2>1. job[j] \in Cmd /\ Given(job[j].read.token) /\ LoginOk(job[j]) /\ UpdateOk(job[j])
        /\ PutOk(job[j]) /\ job'[j] = job[j] /\ job[j].row \in Login \cup {Null}
        /\ job[j].got \in Nat
      BY <1>3 DEF CliInv, JobsOk, CmdOk, Cmd
  <2>2. UpdateOk(job[j])'
      BY <2>1 DEF UpdateOk, CliInv, ProgramOk
  <2>3. LoginOk(job[j])'
      BY <2>1 DEF LoginOk
  <2> QED
      BY <2>1, <2>2, <2>3 DEF CmdOk, Given, PutOk
<1>4. JobsOk'
    BY <1>3 DEF CliInv, JobsOk
<1> QED
    BY <1>1, <1>2, <1>4

LEMMA BrowserKeeps ==
    ASSUME CliInv, Browser
    PROVE  CliInv'
<1>1. UNCHANGED <<job, poll, minted, release, config, program>>
    BY DEF Browser, files, server, Approve, Deny, Expire, Cool, Toggle
<1>2. /\ login' \in [Login -> Row \cup {Null}]
      /\ \A k \in Login : login[k] # Null => login'[k] # Null
  <2>1. ASSUME NEW l \in Login, Approve(l) \/ Deny(l) \/ Expire(l) \/ Cool(l)
        PROVE  /\ login' \in [Login -> Row \cup {Null}]
               /\ \A k \in Login : login[k] # Null => login'[k] # Null
    <3>1. login[l] # Null
        BY <2>1 DEF Approve, Deny, Expire, Cool, FindPending
    <3>2. PICK r \in Row : login' = [login EXCEPT ![l] = r]
      <4>1. CASE Approve(l)
        <5>1. login' = [login EXCEPT ![l] = [login[l] EXCEPT !.status = "approved"]]
            BY <4>1 DEF Approve
        <5> QED
            BY <3>1, <5>1, LoginRows, RowChanges
      <4>2. CASE Deny(l)
        <5>1. login' = [login EXCEPT ![l] = [login[l] EXCEPT !.status = "denied"]]
            BY <4>2 DEF Deny
        <5> QED
            BY <3>1, <5>1, LoginRows, RowChanges
      <4>3. CASE Expire(l)
        <5>1. login' = [login EXCEPT ![l] = [login[l] EXCEPT !.expired = TRUE]]
            BY <4>3 DEF Expire
        <5> QED
            BY <3>1, <5>1, LoginRows, RowChanges
      <4>4. CASE Cool(l)
        <5>1. login' = [login EXCEPT ![l] = [login[l] EXCEPT !.recent = FALSE]]
            BY <4>4 DEF Cool
        <5> QED
            BY <3>1, <5>1, LoginRows, RowChanges
      <4> QED
          BY <2>1, <4>1, <4>2, <4>3, <4>4
    <3> QED
        BY <3>1, <3>2, RowsChange
  <2>2. CASE Toggle
      BY <2>2 DEF Toggle, CliInv, LoginsOk
  <2> QED
      BY <2>1, <2>2 DEF Browser
<1>3. release' \in Nat /\ release <= release'
    BY <1>1 DEF CliInv, ProgramOk
<1> QED
    BY <1>1, <1>2, <1>3, TerminalsWait, FilesStay DEF CliInv

\* Revocations, deployments, the user's own file, another day.
LEMMA OthersKeep ==
    ASSUME CliInv, (\E l \in Login : Revoke(l)) \/ Deploy \/ KeepOwn \/ Tomorrow
    PROVE  CliInv'
<1>1. UNCHANGED <<job, login, poll, minted, program>>
    BY DEF Revoke, Deploy, KeepOwn, Tomorrow, loginVars, files
<1>2. release' \in Nat /\ release <= release'
    BY DEF Revoke, Deploy, KeepOwn, Tomorrow, server, CliInv, ProgramOk
<1>3. JobsOk' /\ OneHolder' /\ LoginsOk'
    BY <1>1, <1>2, TerminalsWait DEF CliInv, LoginsOk
<1>4. ConfigOk'
  <2>1. CASE config' = config
      BY <1>1, <2>1 DEF CliInv, ConfigOk, Given
  <2>2. CASE Tomorrow
    <3>1. config \in Config /\ Given(config.token) /\ config' = [config EXCEPT !.asked = FALSE]
        BY <2>2 DEF Tomorrow, CliInv, ConfigOk
    <3>2. config' \in Config /\ config'.token = config.token
        BY <3>1 DEF Config
    <3> QED
        BY <1>1, <3>1, <3>2 DEF ConfigOk, Given
  <2> QED
      BY <2>1, <2>2 DEF Revoke, Deploy, KeepOwn, files
<1>5. ProgramOk'
    BY <1>1, <1>2 DEF CliInv, ProgramOk
<1> QED
    BY <1>3, <1>4, <1>5 DEF CliInv

LEMMA CliStep == CliInv /\ [Next]_vars => CliInv'
<1> SUFFICES ASSUME CliInv, [Next]_vars
             PROVE  CliInv'
    OBVIOUS
<1>1. ASSUME NEW j \in Job, Commands(j)
      PROVE  CliInv'
  <2>1. ASSUME NEW op \in DOMAIN First, Start(j, op, FALSE)
        PROVE  CliInv'
      BY <2>1, StartKeeps
  <2>2. CASE Start(j, "get", TRUE)
    <3>1. "get" \in DOMAIN First
        BY DEF First
    <3> QED
        BY <2>2, <3>1, StartKeeps
  <2> QED
      BY <1>1, <2>1, <2>2, NudgeLoadKeeps, NudgeSaveKeeps, TokenKeeps, LoadKeeps, SaveKeeps,
         AskCodeKeeps, AskTokenKeeps, GiveUpOrKillKeeps, LogoutKeeps, AskVersionKeeps,
         FetchProgramKeeps, SwapKeeps, GetKeeps, UnpackKeeps, SendKeeps, ReportKeeps DEF Commands
<1>2. CASE UNCHANGED vars
  <2>1. UNCHANGED <<job, login, poll, minted, release, config, program>>
      BY <1>2 DEF vars, loginVars, files, server
  <2>2. release' \in Nat /\ release <= release' /\ login' \in [Login -> Row \cup {Null}]
      BY <2>1 DEF CliInv, ProgramOk, LoginsOk
  <2> QED
      BY <2>1, <2>2, TerminalsWait, FilesStay DEF CliInv
<1> QED
    BY <1>1, <1>2, AnswerKeeps, NoAnswerKeeps, BrowserKeeps, OthersKeep DEF Next

-----------------------------------------------------------------------------
\* Whatever breaks, and however many terminals log in at once, a login has given one
\* token at most, and the configuration holds one that was given (cmd_login,
\* device_auth.poll).  DeviceLogin alone allows more: it is the terminal that asks
\* one question after the other, and never again once it has the token.
THEOREM OneTokenAtMost == Spec => []OneTokenPerLogin
<1>1. CliInv => OneTokenPerLogin
  <2> SUFFICES ASSUME CliInv
               PROVE  OneTokenPerLogin
      OBVIOUS
  <2>1. \A l \in Login : minted[l] <= 1
      BY DEF CliInv, LoginsOk
  <2> QED
      BY <2>1 DEF CliInv, ConfigOk, Given, OneTokenPerLogin
<1> QED
    BY <1>1, InitCliInv, CliStep, PTL DEF Spec

\* The program file is always a release of the tool, whatever answers an update
\* (cmd_update).
THEOREM ToolAlwaysRuns == Spec => []ProgramRuns
<1>1. CliInv => ProgramRuns
    BY DEF CliInv, ProgramOk, ProgramRuns
<1> QED
    BY <1>1, InitCliInv, CliStep, PTL DEF Spec

\* What `put` has stored is a beginning of what it was given, at most one more than it
\* has reported (cmd_put).
THEOREM UploadsArePrefixes == Spec => []PutIsPrefix
<1>1. CliInv => PutIsPrefix
    BY DEF CliInv, JobsOk, CmdOk, PutOk, PutIsPrefix, At
<1> QED
    BY <1>1, InitCliInv, CliStep, PTL DEF Spec

-----------------------------------------------------------------------------
\* What is where a download goes.  A command that removes what is there, or moves what it
\* unpacked, has unpacked every member.
GetOk(c) == c.op = "get" /\ c.at \in {"remove", "move"} => c.got = Members

PlaceInv == target # "begun" /\ \A j \in Job : job[j] # Null => GetOk(job[j])

LEMMA InitPlaceInv == Init => PlaceInv
    BY CliAssumption DEF Init, PlaceInv

\* One terminal goes on.
LEMMA PlaceGoesOn ==
    ASSUME CliInv, PlaceInv, NEW j \in Job, NEW c, job' = [job EXCEPT ![j] = c],
           c # Null => GetOk(c), target' # "begun"
    PROVE  PlaceInv'
    BY DEF PlaceInv, GetOk, CliInv, JobsOk

LEMMA PlaceEnds ==
    ASSUME CliInv, PlaceInv, NEW j \in Job, End(j), target' # "begun"
    PROVE  PlaceInv'
    BY PlaceGoesOn DEF End

\* A command that is at a step where it neither removes nor moves.
LEMMA PlaceWaits ==
    ASSUME CliInv, PlaceInv, UNCHANGED target, NEW j \in Job, NEW c,
           job' = [job EXCEPT ![j] = c], c.at \notin {"remove", "move"}
    PROVE  PlaceInv'
    BY PlaceGoesOn DEF GetOk, PlaceInv

LEMMA GoAt ==
    ASSUME NEW c \in Cmd, NEW at
    PROVE  [c EXCEPT !.at = at].at = at /\ [c EXCEPT !.at = at].got = c.got
             /\ [c EXCEPT !.at = at].op = c.op
    BY DEF Cmd

LEMMA GoWaits ==
    ASSUME CliInv, PlaceInv, UNCHANGED target, NEW j \in Job, job[j] # Null,
           NEW at, Go(j, at), at \notin {"remove", "move"}
    PROVE  PlaceInv'
<1>1. job' = [job EXCEPT ![j] = [job[j] EXCEPT !.at = at]]
    BY CommandIsOne DEF Go, CliInv, JobsOk
<1>2. job[j] \in Cmd
    BY CommandIsOne
<1> DEFINE c == [job[j] EXCEPT !.at = at]
<1>3. c.at = at
    BY <1>2, GoAt
<1>4. job' = [job EXCEPT ![j] = c]
    BY <1>1
<1> HIDE DEF c
<1> QED
    BY <1>3, <1>4, PlaceWaits

LEMMA DownloadsPlace ==
    ASSUME CliInv, PlaceInv, NEW j \in Job,
           Check(j) \/ Fetch(j) \/ PlaceFile(j) \/ Unpack(j) \/ Clear(j) \/ Remove(j) \/ Move(j)
    PROVE  PlaceInv'
<1>1. job[j] # Null /\ job[j] \in Cmd /\ GetOk(job[j])
    BY CommandIsOne DEF Check, Fetch, PlaceFile, Unpack, Clear, Unpacked, Remove, Move, At, PlaceInv
<1>2. CASE Check(j) \/ Fetch(j)
  <2>1. UNCHANGED target /\ (End(j) \/ Go(j, "fetch") \/ Go(j, "place"))
      BY <1>2 DEF Check, Fetch, files
  <2> QED
      BY <1>1, <2>1, GoWaits, PlaceEnds DEF PlaceInv
<1>3. CASE PlaceFile(j)
    BY <1>3, PlaceEnds DEF PlaceFile
<1>4. CASE Unpack(j)
  <2>1. job' = [job EXCEPT ![j] = [job[j] EXCEPT !.got = job[j].got + 1]]
      BY <1>1, <1>4 DEF Unpack, CliInv, JobsOk
  <2>2. [job[j] EXCEPT !.got = job[j].got + 1].at = "place"
      BY <1>1, <1>4 DEF Unpack, At, Cmd
  <2> QED
      BY <1>4, <2>1, <2>2, PlaceWaits DEF Unpack, files
<1>5. ASSUME NEW at, Go(j, at), job[j].got = Members, target' # "begun" PROVE PlaceInv'
  <2>1. job' = [job EXCEPT ![j] = [job[j] EXCEPT !.at = at]]
      BY <1>1, <1>5 DEF Go, CliInv, JobsOk
  <2>2. GetOk([job[j] EXCEPT !.at = at])
      BY <1>1, <1>5, GoAt DEF GetOk
  <2> QED
      BY <1>5, <2>1, <2>2, PlaceGoesOn
<1>6. CASE Clear(j)
    BY <1>5, <1>6 DEF Clear, Unpacked, PlaceInv
<1>7. CASE Remove(j)
  <2>1. job[j].got = Members /\ target' # "begun"
      BY <1>1, <1>7, CliAssumption DEF Remove, At, GetOk
  <2> QED
      BY <1>5, <1>7, <2>1, PlaceEnds DEF Remove
<1>8. CASE Move(j)
  <2>1. target' # "begun"
      BY <1>1, <1>8 DEF Move, At, GetOk, PlaceInv
  <2> QED
      BY <1>8, <2>1, PlaceEnds DEF Move
<1> QED
    BY <1>2, <1>3, <1>4, <1>6, <1>7, <1>8

\* The other commands.
LEMMA CommandsPlace ==
    ASSUME CliInv, PlaceInv, NEW j \in Job, Commands(j)
    PROVE  PlaceInv'
<1>cmd. job[j] # Null => job[j] \in Cmd
    BY CommandIsOne
<1>1. ASSUME NEW op \in DOMAIN First, NEW force, Start(j, op, force) PROVE PlaceInv'
  <2>1. Command(op, force).at \in {"version", "nudge"}
      BY DEF Command
  <2> QED
      BY <1>1, <2>1, PlaceWaits DEF Start, files
<1>2. CASE NudgeLoad(j)
  <2>1. job[j] # Null /\ UNCHANGED target
      BY <1>2 DEF NudgeLoad, files
  <2>2. CASE job' = [job EXCEPT ![j].at = "token"]
    <3>1. Go(j, "token")
        BY <2>2 DEF Go
    <3> QED
        BY <2>1, <3>1, GoWaits
  <2>3. CASE job' = [job EXCEPT ![j].at = "ask", ![j].read = Loaded]
    <3>1. job' = [job EXCEPT ![j] = [job[j] EXCEPT !.at = "ask", !.read = Loaded]]
        BY <2>3 DEF CliInv, JobsOk
    <3>2. [job[j] EXCEPT !.at = "ask", !.read = Loaded].at = "ask"
        BY <1>cmd, <2>1 DEF Cmd
    <3> QED
        BY <2>1, <3>1, <3>2, PlaceWaits
  <2> QED
      BY <1>2, <2>2, <2>3 DEF NudgeLoad
<1>3. CASE NudgeSave(j)
  <2>1. job' = [job EXCEPT ![j] = [job[j] EXCEPT !.at = "token", !.read = NoConfig]]
      BY <1>3 DEF NudgeSave, CliInv, JobsOk
  <2>2. [job[j] EXCEPT !.at = "token", !.read = NoConfig].at = "token"
      BY <1>3, <1>cmd DEF NudgeSave, Cmd
  <2> QED
      BY <1>3, <2>1, <2>2, PlaceWaits DEF NudgeSave
<1>4. CASE Token(j)
  <2>1. job[j] # Null /\ UNCHANGED target
        /\ First[job[j].op] \notin {"remove", "move"}
      BY <1>4, <1>cmd DEF Token, files, Cmd, First
  <2>2. CASE job' = [job EXCEPT ![j].at = First[job[j].op], ![j].row = Loaded.token]
    <3> DEFINE c == [job[j] EXCEPT !.at = First[job[j].op], !.row = Loaded.token]
    <3>1. job' = [job EXCEPT ![j] = c]
        BY <2>2 DEF CliInv, JobsOk
    <3>2. c.at = First[job[j].op]
        BY <1>cmd, <2>1 DEF Cmd
    <3> HIDE DEF c
    <3> QED
        BY <2>1, <3>1, <3>2, PlaceWaits
  <2> QED
      BY <1>4, <2>1, <2>2, GoWaits, PlaceEnds DEF Token, PlaceInv
<1>5. CASE Load(j)
  <2>1. \E c : job' = [job EXCEPT ![j] = c] /\ c.at = "save"
    <3>1. job' = [job EXCEPT ![j] = [job[j] EXCEPT !.at = "save", !.read = Loaded]]
        BY <1>5 DEF Load, CliInv, JobsOk
    <3>2. [job[j] EXCEPT !.at = "save", !.read = Loaded].at = "save"
        BY <1>5, <1>cmd DEF Load, Cmd
    <3> QED
        BY <3>1, <3>2
  <2> QED
      BY <1>5, <2>1, PlaceWaits DEF Load, files
<1>6. CASE AskCode(j)
  <2>1. PICK l : job' = [job EXCEPT ![j].at = "sleep", ![j].row = l]
      BY <1>6 DEF AskCode
  <2>2. job' = [job EXCEPT ![j] = [job[j] EXCEPT !.at = "sleep", !.row = l]]
      BY <2>1 DEF CliInv, JobsOk
  <2>3. [job[j] EXCEPT !.at = "sleep", !.row = l].at = "sleep"
      BY <1>6, <1>cmd DEF AskCode, At, Cmd
  <2> QED
      BY <1>6, <2>2, <2>3, PlaceWaits DEF AskCode, files
<1>7. CASE AskToken(j)
  <2>1. PICK p : \/ job' = [job EXCEPT ![j].at = "polled", ![j].poll = p]
                 \/ job' = job \/ job' = [job EXCEPT ![j] = Null]
      BY <1>7 DEF AskToken
  <2>2. CASE job' = [job EXCEPT ![j].at = "polled", ![j].poll = p]
    <3>1. job' = [job EXCEPT ![j] = [job[j] EXCEPT !.at = "polled", !.poll = p]]
        BY <2>2 DEF CliInv, JobsOk
    <3>2. [job[j] EXCEPT !.at = "polled", !.poll = p].at = "polled"
        BY <1>7, <1>cmd DEF AskToken, At, Cmd
    <3> QED
        BY <1>7, <3>1, <3>2, PlaceWaits DEF AskToken, files
  <2>3. CASE job' = job
      BY <1>7, <2>3 DEF AskToken, files, PlaceInv, GetOk
  <2>4. CASE End(j)
      BY <1>7, <2>4, PlaceEnds DEF AskToken, files, PlaceInv
  <2> QED
      BY <2>1, <2>2, <2>3, <2>4 DEF End
<1>8. CASE GiveUp(j) \/ Kill(j) \/ Save(j) \/ Unlink(j)
  <2>1. UNCHANGED target /\ End(j)
      BY <1>8 DEF GiveUp, Kill, Save, Unlink, files
  <2> QED
      BY <2>1, PlaceEnds DEF PlaceInv
<1>9. CASE Exists(j) \/ AskVersion(j) \/ Swap(j)
  <2>1. /\ UNCHANGED target /\ job[j] # Null
        /\ End(j) \/ Go(j, "unlink") \/ Go(j, "fetch") \/ Go(j, "load")
      BY <1>9 DEF Exists, AskVersion, Swap, files, At
  <2> QED
      BY <2>1, GoWaits, PlaceEnds DEF PlaceInv
<1>10. CASE FetchProgram(j)
  <2>1. PICK a : End(j) \/ job' = [job EXCEPT ![j].at = "swap", ![j].got = a]
      BY <1>10 DEF FetchProgram, Take
  <2>2. CASE job' = [job EXCEPT ![j].at = "swap", ![j].got = a]
    <3>1. job' = [job EXCEPT ![j] = [job[j] EXCEPT !.at = "swap", !.got = a]]
        BY <2>2 DEF CliInv, JobsOk
    <3>2. [job[j] EXCEPT !.at = "swap", !.got = a].at = "swap"
        BY <1>10, <1>cmd DEF FetchProgram, At, Cmd
    <3> QED
        BY <1>10, <3>1, <3>2, PlaceWaits DEF FetchProgram, files
  <2> QED
      BY <1>10, <2>1, <2>2, PlaceEnds DEF FetchProgram, files, PlaceInv
<1>11. CASE Send(j)
  <2>1. CASE End(j)
      BY <1>11, <2>1, PlaceEnds DEF Send, files, PlaceInv
  <2>2. CASE job' = [job EXCEPT ![j].at = "report", ![j].stored = @ \cup {job[j].got + 1}]
    <3> DEFINE more == job[j].stored \cup {job[j].got + 1}
    <3>1. job' = [job EXCEPT ![j] = [job[j] EXCEPT !.at = "report", !.stored = more]]
        BY <2>2 DEF CliInv, JobsOk
    <3>2. [job[j] EXCEPT !.at = "report", !.stored = more].at = "report"
        BY <1>11, <1>cmd DEF Send, At, Cmd
    <3> QED
        BY <1>11, <3>1, <3>2, PlaceWaits DEF Send, files
  <2> QED
      BY <1>11, <2>1, <2>2 DEF Send, Refused
<1>12. CASE Report(j)
  <2>1. job' = [job EXCEPT ![j] = [job[j] EXCEPT !.at = "send", !.got = job[j].got + 1]]
      BY <1>12 DEF Report, CliInv, JobsOk
  <2>2. [job[j] EXCEPT !.at = "send", !.got = job[j].got + 1].at = "send"
      BY <1>12, <1>cmd DEF Report, At, Cmd
  <2> QED
      BY <1>12, <2>1, <2>2, PlaceWaits DEF Report, files
<1>13. "get" \in DOMAIN First
    BY DEF First
<1> QED
    BY <1>1, <1>2, <1>3, <1>4, <1>5, <1>6, <1>7, <1>8, <1>9, <1>10, <1>11, <1>12, <1>13,
       DownloadsPlace DEF Commands

\* An answer comes, or the server is killed; the terminals that do not wait stay where they are.
LEMMA AnswersPlace ==
    ASSUME CliInv, PlaceInv, NEW p \in Poll, Answer(p) \/ NoAnswer(p)
    PROVE  PlaceInv'
<1>1. UNCHANGED target
    BY DEF Answer, NoAnswer, files
<1>2. ASSUME NEW j \in Job, job'[j] # Null PROVE GetOk(job'[j])
  <2>1. CASE job'[j] = job[j]
      BY <1>2, <2>1 DEF PlaceInv
  <2>2. CASE job[j] # Null /\ job'[j] = [job[j] EXCEPT !.at = "load", !.poll = Null]
    <3>1. job[j] \in Cmd
        BY <2>2, CommandIsOne
    <3>2. [job[j] EXCEPT !.at = "load", !.poll = Null].at = "load"
        BY <3>1 DEF Cmd
    <3> QED
        BY <2>2, <3>2 DEF GetOk
  <2> QED
      BY <1>2, <2>1, <2>2 DEF Answer, NoAnswer, Waits, At
<1> QED
    BY <1>1, <1>2 DEF PlaceInv, GetOk

LEMMA PlaceStep == CliInv /\ PlaceInv /\ [Next]_vars => PlaceInv'
<1> SUFFICES ASSUME CliInv, PlaceInv, [Next]_vars PROVE PlaceInv'
    OBVIOUS
<1>1. ASSUME UNCHANGED job, target' # "begun" PROVE PlaceInv'
    BY <1>1 DEF PlaceInv, GetOk
<1>2. CASE (\E l \in Login : Revoke(l)) \/ Browser \/ Deploy \/ KeepOwn \/ Tomorrow
  <2>1. UNCHANGED job /\ target' # "begun"
      BY <1>2 DEF Revoke, Browser, Deploy, KeepOwn, Tomorrow, files, PlaceInv
  <2> QED
      BY <1>1, <2>1
<1>3. CASE UNCHANGED vars
    BY <1>1, <1>3 DEF vars, files, PlaceInv
<1> QED
    BY <1>2, <1>3, CommandsPlace, AnswersPlace DEF Next

\* Whatever two terminals download to one place at once, and wherever they are killed, what
\* is there was unpacked to its last member (get_folder: "no half folder is left").
THEOREM FoldersArriveWhole == Spec => []NothingHalfIsPlaced
<1>1. PlaceInv => NothingHalfIsPlaced
    BY DEF PlaceInv, NothingHalfIsPlaced
<1>2. CliInv /\ PlaceInv /\ [Next]_vars => (CliInv /\ PlaceInv)'
    BY CliStep, PlaceStep
<1> QED
    BY <1>1, <1>2, InitCliInv, InitPlaceInv, PTL DEF Spec
=============================================================================
