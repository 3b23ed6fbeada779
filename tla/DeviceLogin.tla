---------------------------- MODULE DeviceLogin ----------------------------
(***************************************************************************)
(* Login of the command line tool (device flow): the terminal asks for a    *)
(* code, a person approves it in a browser, and the terminal, which polls,  *)
(* is handed an API token once.  One poll is two transactions: the first    *)
(* records the time of the poll and is committed at once, the second mints  *)
(* the token from what the first one read.  Between them the poll waits for *)
(* the write lock, for up to 30 s.                                          *)
(***************************************************************************)
EXTENDS Integers, FiniteSets

CONSTANTS Login,   \* rows of device_auths
          Poll,    \* polls that can be under way at once
          Null

VARIABLES login,   \* the rows: Null until the terminal asks for the code
          poll,    \* what a poll between its transactions has read, or Null
          minted,  \* how many tokens each login has been given
          active   \* users.disabled_at of the one who approves

loginVars == <<login, poll, minted, active>>

\* expired: expires_at has passed.  recent: last_polled_at is less than
\* POLL_INTERVAL_SEC ago.
Row == [status: {"pending", "approved", "denied", "consumed"},
        expired: BOOLEAN, recent: BOOLEAN]

ASSUME LoginAssumption == Null \notin Row \cup Login \cup Poll

LoginInit ==
    /\ login = [l \in Login |-> Null]
    /\ poll = [p \in Poll |-> Null]
    /\ minted = [l \in Login |-> 0]
    /\ active = TRUE

-----------------------------------------------------------------------------
Issue(l) ==
    /\ login[l] = Null
    /\ login' = [login EXCEPT ![l] = [status |-> "pending", expired |-> FALSE, recent |-> FALSE]]
    /\ UNCHANGED <<poll, minted, active>>

\* Mutant: the approval screen shows the code whatever has become of it.
FindAny(l) == login[l] # Null

\* find_pending: what the approval screen can act on.
FindPending(l) ==
    login[l] # Null /\ login[l].status = "pending" /\ ~ login[l].expired

\* The scope of the approval is recorded with it: see Retention.
Approve(l) ==
    /\ FindPending(l) /\ active
    /\ login' = [login EXCEPT ![l].status = "approved"]
    /\ UNCHANGED <<poll, minted, active>>

Deny(l) ==
    /\ FindPending(l) /\ active
    /\ login' = [login EXCEPT ![l].status = "denied"]
    /\ UNCHANGED <<poll, minted, active>>

\* Mutant: the first transaction uses the approval up.
PollStartConsuming(p, l) ==
    /\ login[l] # Null /\ poll[p] = Null
    /\ ~ login[l].recent
    /\ LET go == login[l].status = "approved" /\ ~ login[l].expired
       IN  /\ login' = [login EXCEPT ![l].recent = TRUE,
                                     ![l].status = IF go THEN "consumed" ELSE @]
           /\ poll' = IF go THEN [poll EXCEPT ![p] = l] ELSE poll
    /\ UNCHANGED <<minted, active>>

\* First transaction.  Too early a poll changes nothing (slow_down); the others
\* leave their time, and go on only when what they read is an approval.
PollStart(p, l) ==
    /\ login[l] # Null /\ poll[p] = Null
    /\ ~ login[l].recent
    /\ login' = [login EXCEPT ![l].recent = TRUE]
    /\ poll' = IF login[l].status = "approved" /\ ~ login[l].expired
               THEN [poll EXCEPT ![p] = l] ELSE poll
    /\ UNCHANGED <<minted, active>>

\* Second transaction: the token, unless the approver has been disabled, and the
\* end of the login.
PollFinish(p) ==
    /\ poll[p] # Null
    /\ IF active
       THEN /\ minted' = [minted EXCEPT ![poll[p]] = @ + 1]
            /\ login' = [login EXCEPT ![poll[p]].status = "consumed"]
       ELSE UNCHANGED <<minted, login>>
    /\ poll' = [poll EXCEPT ![p] = Null]
    /\ UNCHANGED active

\* The process is killed between the two transactions.
PollLost(p) ==
    /\ poll[p] # Null
    /\ poll' = [poll EXCEPT ![p] = Null]
    /\ UNCHANGED <<login, minted, active>>

\* Ten minutes pass; five seconds pass.
Expire(l) ==
    /\ login[l] # Null /\ ~ login[l].expired
    /\ login' = [login EXCEPT ![l].expired = TRUE]
    /\ UNCHANGED <<poll, minted, active>>

Cool(l) ==
    /\ login[l] # Null /\ login[l].recent
    /\ login' = [login EXCEPT ![l].recent = FALSE]
    /\ UNCHANGED <<poll, minted, active>>

\* An administrator disables the approver, or enables them again.
Toggle == active' = ~ active /\ UNCHANGED <<login, poll, minted>>

LoginNext ==
    \/ \E l \in Login : Issue(l) \/ Deny(l) \/ Expire(l) \/ Cool(l)
    \/ \E p \in Poll, l \in Login : PollStart(p, l)
    \/ \E p \in Poll : PollFinish(p) \/ PollLost(p)
    \/ Toggle

-----------------------------------------------------------------------------
LoginTypeOK ==
    /\ login \in [Login -> Row \cup {Null}]
    /\ poll \in [Poll -> Login \cup {Null}]
    /\ minted \in [Login -> 0..Cardinality(Poll)]
    /\ active \in BOOLEAN

\* A token comes from an approval and uses it up: a login that gave one is
\* consumed, and a poll that is about to mint has an approval behind it that
\* nobody can deny any more.
TokenNeedsApproval ==
    /\ \A l \in Login : minted[l] > 0 => login[l].status = "consumed"
    /\ \A p \in Poll : poll[p] # Null => login[poll[p]].status \in {"approved", "consumed"}

\* services/device_auth.py: used once, it is over, no second token.
MintedOnce == \A l \in Login : minted[l] <= 1
=============================================================================
