--------------------------- MODULE RetentionProofs ---------------------------
(***************************************************************************)
(* Approvals, tokens and the folders they name, for any number of logins,   *)
(* polls and items.                                                         *)
(***************************************************************************)
EXTENDS Retention, FiniteSetTheorems, TLAPS

States == {"pending", "approved", "denied", "consumed"}

\* A login that has a token, or a poll that is about to mint one, has a row.
LoginInv ==
    /\ login \in [Login -> Row \cup {Null}]
    /\ poll \in [Poll -> Login \cup {Null}]
    /\ minted \in [Login -> Nat]
    /\ \A l \in Login : minted[l] > 0 => login[l] # Null
    /\ \A p \in Poll : poll[p] # Null => login[poll[p]] # Null
    /\ TokenNeedsApproval

ScopeInv ==
    /\ item = [i \in Item |-> item[i]]
    /\ scope \in [Login -> Item \cup {Null}]
    /\ ScopeExists

\* The polls that have read an approval of the login and are yet to mint.  No poll begins
\* to mint once there is a token, so those on their way are all that will ever mint.
Minting(l) == {p \in Poll : poll[p] = l}
MintInv ==
    \A l \in Login : minted[l] + Cardinality(Minting(l)) <= Cardinality(Poll)

KindInv ==
    /\ active \in BOOLEAN
    /\ item \in [Item -> {"live", "fresh", "due", "gone"}]
    /\ used \in [Item -> BOOLEAN]

LEMMA NullIsNothing == Null \notin Row /\ Null \notin Login /\ Null \notin Poll
    BY LoginAssumption

LEMMA RowChanges ==
    ASSUME NEW r \in Row, NEW st \in States, NEW b \in BOOLEAN
    PROVE  /\ [r EXCEPT !.status = st] \in Row /\ [r EXCEPT !.status = st].status = st
           /\ [r EXCEPT !.expired = b] \in Row /\ [r EXCEPT !.expired = b].status = r.status
           /\ [r EXCEPT !.recent = b] \in Row /\ [r EXCEPT !.recent = b].status = r.status
    BY DEF Row, States

LEMMA InitInvs == Init => LoginInv /\ ScopeInv
    BY DEF Init, LoginInit, LoginInv, ScopeInv, TokenNeedsApproval, ScopeExists

-----------------------------------------------------------------------------
\* The logins

\* A row gets a state that it may have: whoever has a token stays consumed, and an
\* approval that a poll has read is not taken back.
LEMMA RowGoesOn ==
    ASSUME LoginInv, NEW l \in Login, NEW r \in Row, login' = [login EXCEPT ![l] = r],
           UNCHANGED <<poll, minted>>,
           minted[l] > 0 => r.status = "consumed",
           (\E p \in Poll : poll[p] = l) => r.status \in {"approved", "consumed"}
    PROVE  LoginInv'
<1>1. login' \in [Login -> Row \cup {Null}] /\ r # Null
    BY NullIsNothing DEF LoginInv
<1>2. \A k \in Login : login'[k] = IF k = l THEN r ELSE login[k]
    BY DEF LoginInv
<1>3. \A k \in Login : minted'[k] > 0 => login'[k] # Null /\ login'[k].status = "consumed"
    BY <1>1, <1>2 DEF LoginInv, TokenNeedsApproval
<1>4. \A p \in Poll : poll'[p] # Null =>
          login'[poll'[p]] # Null /\ login'[poll'[p]].status \in {"approved", "consumed"}
  <2> SUFFICES ASSUME NEW p \in Poll, poll[p] # Null
               PROVE  /\ login'[poll[p]] # Null
                      /\ login'[poll[p]].status \in {"approved", "consumed"}
      OBVIOUS
  <2>1. poll[p] \in Login
      BY DEF LoginInv
  <2>2. CASE poll[p] = l
      BY <1>1, <1>2, <2>1, <2>2
  <2>3. CASE poll[p] # l
      BY <1>2, <2>1, <2>3 DEF LoginInv, TokenNeedsApproval
  <2> QED
      BY <2>2, <2>3
<1> QED
    BY <1>1, <1>3, <1>4 DEF LoginInv, TokenNeedsApproval

LEMMA IssueKeeps ==
    ASSUME LoginInv, NEW l \in Login, Issue(l)
    PROVE  LoginInv'
<1> DEFINE r == [status |-> "pending", expired |-> FALSE, recent |-> FALSE]
<1>1. r \in Row
    BY DEF Row
<1>2. login' = [login EXCEPT ![l] = r] /\ UNCHANGED <<poll, minted>> /\ login[l] = Null
    BY DEF Issue
<1>3. ~ (minted[l] > 0) /\ \A p \in Poll : poll[p] # l
    BY <1>2, NullIsNothing DEF LoginInv
<1> HIDE DEF r
<1> QED
    BY <1>1, <1>2, <1>3, RowGoesOn

\* Only what is pending is decided, and then nobody has a token or read an approval.
LEMMA DecideKeeps ==
    ASSUME LoginInv, NEW l \in Login, Approve(l) \/ Deny(l)
    PROVE  LoginInv'
<1>1. PICK st \in {"approved", "denied"} : login' = [login EXCEPT ![l].status = st]
    BY DEF Approve, Deny
<1>2. login[l] \in Row /\ login[l].status = "pending" /\ UNCHANGED <<poll, minted>>
    BY DEF Approve, Deny, FindPending, LoginInv
<1>3. PICK r : r = [login[l] EXCEPT !.status = st]
    OBVIOUS
<1>4. r \in Row /\ login' = [login EXCEPT ![l] = r]
  <2>1. st \in States
      BY DEF States
  <2> QED
      BY <1>1, <1>2, <1>3, <2>1, RowChanges
<1>5. ~ (minted[l] > 0) /\ \A p \in Poll : poll[p] # l
    BY <1>2, NullIsNothing DEF LoginInv, TokenNeedsApproval
<1> QED
    BY <1>2, <1>4, <1>5, RowGoesOn

LEMMA TimeKeeps ==
    ASSUME LoginInv, NEW l \in Login, Expire(l) \/ Cool(l)
    PROVE  LoginInv'
<1>1. login[l] \in Row /\ UNCHANGED <<poll, minted>>
    BY DEF Expire, Cool, LoginInv
<1>2. PICK r : r \in Row /\ r.status = login[l].status /\ login' = [login EXCEPT ![l] = r]
  <2>1. CASE Expire(l)
    <3>1. login' = [login EXCEPT ![l] = [login[l] EXCEPT !.expired = TRUE]]
        BY <2>1 DEF Expire
    <3>2. [login[l] EXCEPT !.expired = TRUE] \in Row
          /\ [login[l] EXCEPT !.expired = TRUE].status = login[l].status
        BY <1>1 DEF Row
    <3> QED
        BY <3>1, <3>2
  <2>2. CASE Cool(l)
    <3>1. login' = [login EXCEPT ![l] = [login[l] EXCEPT !.recent = FALSE]]
        BY <2>2 DEF Cool
    <3>2. [login[l] EXCEPT !.recent = FALSE] \in Row
          /\ [login[l] EXCEPT !.recent = FALSE].status = login[l].status
        BY <1>1 DEF Row
    <3> QED
        BY <3>1, <3>2
  <2> QED
      BY <2>1, <2>2
<1>3. /\ minted[l] > 0 => login[l].status = "consumed"
      /\ (\E p \in Poll : poll[p] = l) => login[l].status \in {"approved", "consumed"}
    BY NullIsNothing DEF LoginInv, TokenNeedsApproval
<1> QED
    BY <1>1, <1>2, <1>3, RowGoesOn

LEMMA PollStartKeeps ==
    ASSUME LoginInv, NEW p \in Poll, NEW l \in Login, PollStart(p, l)
    PROVE  LoginInv'
<1>1. login[l] \in Row /\ login[l] # Null /\ poll[p] = Null /\ UNCHANGED minted
    BY DEF PollStart, LoginInv
<1>2. PICK r : r = [login[l] EXCEPT !.recent = TRUE]
    OBVIOUS
<1>3. r \in Row /\ r.status = login[l].status
    BY <1>1, <1>2 DEF Row
<1>4. login' = [login EXCEPT ![l] = r]
    BY <1>2 DEF PollStart
<1>5. \A k \in Login : login'[k] = IF k = l THEN r ELSE login[k]
    BY <1>4 DEF LoginInv
<1>6. r # Null
    BY <1>3, NullIsNothing
<1>7. login' \in [Login -> Row \cup {Null}]
    BY <1>3, <1>4 DEF LoginInv
<1>8. \A k \in Login : minted'[k] > 0 => login'[k] # Null /\ login'[k].status = "consumed"
    BY <1>1, <1>3, <1>5, <1>6 DEF LoginInv, TokenNeedsApproval
<1>9. \A k \in Login : login[k] # Null => login'[k] # Null /\ login'[k].status = login[k].status
    BY <1>3, <1>5, <1>6
<1>10. \A q \in Poll : poll'[q] = poll[q]
                       \/ (poll'[q] = l /\ login[l].status = "approved")
  <2>1. CASE login[l].status = "approved" /\ ~ login[l].expired
    <3>1. poll' = [poll EXCEPT ![p] = l]
        BY <2>1 DEF PollStart
    <3> QED
        BY <2>1, <3>1 DEF LoginInv
  <2>2. CASE ~ (login[l].status = "approved" /\ ~ login[l].expired)
      BY <2>2 DEF PollStart
  <2> QED
      BY <2>1, <2>2
<1>11. poll' \in [Poll -> Login \cup {Null}]
    BY DEF PollStart, LoginInv
<1>12. \A q \in Poll : poll'[q] # Null =>
          login'[poll'[q]] # Null /\ login'[poll'[q]].status \in {"approved", "consumed"}
    BY <1>1, <1>9, <1>10 DEF LoginInv, TokenNeedsApproval
<1> QED
    BY <1>1, <1>7, <1>8, <1>11, <1>12 DEF LoginInv, TokenNeedsApproval

\* The token, or the end of the poll without it.
LEMMA PollEndKeeps ==
    ASSUME LoginInv, NEW p \in Poll, PollFinish(p) \/ PollLost(p)
    PROVE  LoginInv'
<1>1. PICK l \in Login : l = poll[p]
    BY DEF PollFinish, PollLost, LoginInv
<1>2. login[l] # Null /\ login[l] \in Row /\ poll' = [poll EXCEPT ![p] = Null]
    BY <1>1, NullIsNothing DEF PollFinish, PollLost, LoginInv
<1>3. poll' \in [Poll -> Login \cup {Null}]
      /\ \A q \in Poll : poll'[q] # Null => poll'[q] = poll[q] /\ poll[q] \in Login
    BY <1>2 DEF LoginInv
<1>4. CASE UNCHANGED <<login, minted>>
    BY <1>3, <1>4 DEF LoginInv, TokenNeedsApproval
<1>5. CASE /\ minted' = [minted EXCEPT ![l] = minted[l] + 1]
           /\ login' = [login EXCEPT ![l].status = "consumed"]
  <2>1. PICK r : r = [login[l] EXCEPT !.status = "consumed"]
      OBVIOUS
  <2>2. r \in Row /\ r.status = "consumed" /\ r # Null
    <3>1. r \in Row /\ r.status = "consumed"
        BY <1>2, <2>1 DEF Row
    <3> QED
        BY <3>1, NullIsNothing
  <2>3. login' = [login EXCEPT ![l] = r]
      BY <1>5, <2>1
  <2>4. login' \in [Login -> Row \cup {Null}]
        /\ \A k \in Login : login'[k] = IF k = l THEN r ELSE login[k]
      BY <2>2, <2>3 DEF LoginInv
  <2>5. minted' \in [Login -> Nat] /\ \A k \in Login : k # l => minted'[k] = minted[k]
      BY <1>5 DEF LoginInv
  <2>6. \A k \in Login : minted'[k] > 0 => login'[k] # Null /\ login'[k].status = "consumed"
      BY <2>2, <2>4, <2>5 DEF LoginInv, TokenNeedsApproval
  <2>7. \A q \in Poll : poll'[q] # Null =>
            login'[poll'[q]] # Null /\ login'[poll'[q]].status \in {"approved", "consumed"}
      BY <1>3, <2>2, <2>4 DEF LoginInv, TokenNeedsApproval
  <2> QED
      BY <1>3, <2>4, <2>5, <2>6, <2>7 DEF LoginInv, TokenNeedsApproval
<1> QED
    BY <1>1, <1>4, <1>5 DEF PollFinish, PollLost

LEMMA LoginStep == LoginInv /\ [Next]_vars => LoginInv'
<1> SUFFICES ASSUME LoginInv, [Next]_vars
             PROVE  LoginInv'
    OBVIOUS
<1>1. CASE UNCHANGED <<login, poll, minted>>
    BY <1>1 DEF LoginInv, TokenNeedsApproval
<1>2. CASE LoginNext
    BY <1>1, <1>2, IssueKeeps, DecideKeeps, TimeKeeps, PollStartKeeps, PollEndKeeps
       DEF LoginNext, Toggle
<1>3. CASE \E l \in Login, s \in Item \cup {Null} : ApproveFor(l, s)
    BY <1>3, DecideKeeps DEF ApproveFor
<1> QED
    BY <1>1, <1>2, <1>3 DEF Next, vars, loginVars, Use, Delete, Age, Restore, Purge, Sweep, Erase

-----------------------------------------------------------------------------
\* The items

LEMMA EraseKeeps ==
    ASSUME ScopeInv, NEW gone, Erase(gone)
    PROVE  ScopeInv'
<1>1. \A i \in Item : item'[i] = IF i \in gone THEN "gone" ELSE item[i]
    BY DEF Erase
<1>2. \A l \in Login : scope[l] \notin gone
    BY DEF Erase, Held
<1>3. UNCHANGED scope /\ item' = [i \in Item |-> item'[i]]
    BY DEF Erase
<1>4. ScopeExists'
    BY <1>1, <1>2, <1>3 DEF ScopeInv, ScopeExists
<1> QED
    BY <1>3, <1>4 DEF ScopeInv

LEMMA ScopeStep == ScopeInv /\ [Next]_vars => ScopeInv'
<1> SUFFICES ASSUME ScopeInv, [Next]_vars
             PROVE  ScopeInv'
    OBVIOUS
<1>1. CASE UNCHANGED <<item, scope>>
    BY <1>1 DEF ScopeInv, ScopeExists
<1>2. ASSUME NEW i \in Item, NEW st \in {"live", "fresh", "due"}, UNCHANGED scope,
             item' = [item EXCEPT ![i] = st]
      PROVE  ScopeInv'
  <2>1. \A k \in Item : item'[k] = "gone" => item[k] = "gone"
      BY <1>2 DEF ScopeInv
  <2>2. item' = [k \in Item |-> item'[k]]
      BY <1>2 DEF ScopeInv
  <2> QED
      BY <1>2, <2>1, <2>2 DEF ScopeInv, ScopeExists
<1>3. ASSUME NEW i \in Item, Delete(i) \/ Age(i) \/ Restore(i)
      PROVE  ScopeInv'
    BY <1>2, <1>3 DEF Delete, Age, Restore
<1>4. ASSUME NEW l \in Login, NEW s \in Item \cup {Null}, ApproveFor(l, s)
      PROVE  ScopeInv'
  <2>1. scope' = [scope EXCEPT ![l] = s] /\ UNCHANGED item /\ (s # Null => item[s] = "live")
      BY <1>4 DEF ApproveFor
  <2>2. scope' \in [Login -> Item \cup {Null}]
        /\ \A k \in Login : scope'[k] = IF k = l THEN s ELSE scope[k]
      BY <2>1 DEF ScopeInv
  <2> QED
      BY <2>1, <2>2 DEF ScopeInv, ScopeExists
<1> QED
    BY <1>1, <1>3, <1>4, EraseKeeps DEF Next, vars, Use, Purge, Sweep

-----------------------------------------------------------------------------
\* How many tokens one login can give

LEMMA PollsCount ==
    ASSUME IsFiniteSet(Poll), NEW l \in Login
    PROVE  /\ IsFiniteSet(Minting(l)) /\ Cardinality(Minting(l)) \in Nat
           /\ Cardinality(Poll) \in Nat /\ Cardinality(Minting(l)) <= Cardinality(Poll)
<1>1. Minting(l) \in SUBSET Poll
    BY DEF Minting
<1>2. IsFiniteSet(Minting(l)) /\ Cardinality(Minting(l)) <= Cardinality(Poll)
    BY <1>1, FS_Subset
<1> QED
    BY <1>2, FS_CardinalityType

LEMMA InitMintInv == IsFiniteSet(Poll) /\ Init => MintInv
<1> SUFFICES ASSUME IsFiniteSet(Poll), Init, NEW l \in Login
             PROVE  minted[l] + Cardinality(Minting(l)) <= Cardinality(Poll)
    BY DEF MintInv
<1>1. minted[l] = 0
    BY DEF Init, LoginInit
<1> QED
    BY <1>1, PollsCount

\* A poll goes on to mint only from an approval, which no token has been given for.
LEMMA StartMints ==
    ASSUME IsFiniteSet(Poll), LoginInv, MintInv, NEW p \in Poll, NEW l \in Login, PollStart(p, l)
    PROVE  MintInv'
<1>1. CASE UNCHANGED poll
    BY <1>1 DEF PollStart, MintInv, Minting
<1>2. CASE poll' # poll
  <2>1. poll' = [poll EXCEPT ![p] = l] /\ login[l].status = "approved" /\ UNCHANGED minted
      BY <1>2 DEF PollStart
  <2>2. minted[l] = 0
      BY <2>1 DEF LoginInv, TokenNeedsApproval
  <2> SUFFICES ASSUME NEW k \in Login
               PROVE  minted'[k] + Cardinality(Minting(k)') <= Cardinality(Poll)
      BY DEF MintInv
  <2>3. CASE k = l
    <3>1. Minting(k)' \in SUBSET Poll
        BY DEF Minting
    <3>2. Cardinality(Minting(k)') <= Cardinality(Poll) /\ IsFiniteSet(Minting(k)')
        BY <3>1, FS_Subset
    <3>3. Cardinality(Minting(k)') \in Nat
        BY <3>2, FS_CardinalityType
    <3> QED
        BY <2>1, <2>2, <2>3, <3>2, <3>3
  <2>4. CASE k # l
    <3>1. Minting(k)' = Minting(k)
        BY <2>1, <2>4, NullIsNothing DEF Minting, PollStart, LoginInv
    <3> QED
        BY <2>1, <3>1 DEF MintInv
  <2> QED
      BY <2>3, <2>4
<1> QED
    BY <1>1, <1>2

\* The one that ends gives one token at most.
LEMMA EndMints ==
    ASSUME IsFiniteSet(Poll), LoginInv, MintInv, NEW p \in Poll, PollFinish(p) \/ PollLost(p)
    PROVE  MintInv'
<1>1. /\ poll[p] \in Login /\ poll[p] # Null
      /\ \A q \in Poll : poll'[q] = IF q = p THEN Null ELSE poll[q]
    BY DEF PollFinish, PollLost, LoginInv
<1>2. \A k \in Login : minted[k] \in Nat /\ minted'[k] \in Nat
                       /\ minted'[k] <= minted[k] + (IF k = poll[p] THEN 1 ELSE 0)
    BY <1>1 DEF PollFinish, PollLost, LoginInv
<1> SUFFICES ASSUME NEW k \in Login
             PROVE  minted'[k] + Cardinality(Minting(k)') <= Cardinality(Poll)
    BY DEF MintInv
<1>3. Minting(k)' = Minting(k) \ {p}
    BY <1>1, NullIsNothing DEF Minting
<1>4. Cardinality(Minting(k)')
          = IF p \in Minting(k) THEN Cardinality(Minting(k)) - 1 ELSE Cardinality(Minting(k))
    BY <1>3, PollsCount, FS_RemoveElement
<1>5. p \in Minting(k) <=> k = poll[p]
    BY DEF Minting
<1> QED
    BY <1>2, <1>4, <1>5, PollsCount DEF MintInv

LEMMA MintStep == IsFiniteSet(Poll) /\ LoginInv /\ MintInv /\ [Next]_vars => MintInv'
<1> SUFFICES ASSUME IsFiniteSet(Poll), LoginInv, MintInv, [Next]_vars
             PROVE  MintInv'
    OBVIOUS
<1>1. CASE UNCHANGED <<poll, minted>>
    BY <1>1 DEF MintInv, Minting
<1>2. CASE LoginNext
    BY <1>1, <1>2, StartMints, EndMints DEF LoginNext, Toggle, Issue, Deny, Expire, Cool
<1>3. CASE \E l \in Login, s \in Item \cup {Null} : ApproveFor(l, s)
    BY <1>1, <1>3 DEF ApproveFor, Approve
<1> QED
    BY <1>1, <1>2, <1>3 DEF Next, vars, loginVars, Use, Delete, Age, Restore, Purge, Sweep, Erase

LEMMA KindStep == KindInv /\ [Next]_vars => KindInv'
<1> SUFFICES ASSUME KindInv, [Next]_vars
             PROVE  KindInv'
    OBVIOUS
<1>1. active' \in BOOLEAN
    BY DEF KindInv, Next, vars, loginVars, LoginNext, Issue, Deny, Expire, Cool, PollStart,
           PollFinish, PollLost, Toggle, ApproveFor, Approve, Use, Delete, Age, Restore, Purge,
           Sweep, Erase
<1>2. used' \in [Item -> BOOLEAN]
    BY DEF KindInv, Next, vars, ApproveFor, Use, Delete, Age, Restore, Purge, Sweep, Erase
<1>3. item' \in [Item -> {"live", "fresh", "due", "gone"}]
    BY DEF KindInv, Next, vars, ApproveFor, Use, Delete, Age, Restore, Purge, Sweep, Erase
<1> QED
    BY <1>1, <1>2, <1>3 DEF KindInv

-----------------------------------------------------------------------------
\* A login that gave a token is consumed, and a poll that is about to mint has an approval
\* behind it that nobody can deny any more (device_auth.poll, approve, deny), however
\* many polls of however many logins are between their two transactions.
THEOREM TokensComeFromApprovals == Spec => []TokenNeedsApproval
<1>1. LoginInv => TokenNeedsApproval
    BY DEF LoginInv
<1> QED
    BY <1>1, InitInvs, LoginStep, PTL DEF Spec

\* An approval, and the token that is minted from it later, never names an item that was
\* erased in between (device.py:118, trash.purge_subtree): the foreign key that keeps it
\* from being erased is the one that SweepStuck shows to stop the sweep.
THEOREM ScopesExist == Spec => []ScopeExists
<1>1. ScopeInv => ScopeExists
    BY DEF ScopeInv
<1> QED
    BY <1>1, InitInvs, ScopeStep, PTL DEF Spec

\* The rows are rows, and one login gives no more tokens than the server answers polls at
\* once (device_auth.poll mints from what an earlier transaction has read): it may be more
\* than one, as SecondToken.cfg shows.
THEOREM LoginsTyped == IsFiniteSet(Poll) => (Spec => []RTypeOK)
<1> SUFFICES ASSUME IsFiniteSet(Poll)
             PROVE  Spec => []RTypeOK
    OBVIOUS
<1>1. Init => KindInv
    BY DEF Init, LoginInit, KindInv
<1>2. LoginInv /\ ScopeInv /\ KindInv /\ MintInv => RTypeOK
  <2> SUFFICES ASSUME LoginInv, ScopeInv, KindInv, MintInv
               PROVE  RTypeOK
      OBVIOUS
  <2>1. \A l \in Login : minted[l] \in 0..Cardinality(Poll)
      BY PollsCount DEF LoginInv, MintInv
  <2> QED
      BY <2>1 DEF RTypeOK, LoginTypeOK, LoginInv, ScopeInv, KindInv
<1> QED
    BY <1>1, <1>2, InitInvs, InitMintInv, LoginStep, ScopeStep, MintStep, KindStep, PTL DEF Spec
=============================================================================
