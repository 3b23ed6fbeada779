---------------------------- MODULE EditingProofs ----------------------------
(***************************************************************************)
(* The lease of the edit lock, the content index, what a save keeps and     *)
(* the silence of a window whose document is gone, for any number of users, *)
(* windows and edits, any LOCK_TTL and any loss of messages.                *)
(***************************************************************************)
EXTENDS Editing, SequenceTheorems, FiniteSetTheorems, TLAPS

DocShape == doc = [state |-> doc.state, stamp |-> doc.stamp, text |-> doc.text]
LockTyped == lock \in [user : Users \cup {Nobody}, age : 0..Ttl]
LeaseTyped == lease \in [Windows -> 0..Ttl]

\* A window with a lease sits with the user who has the lock, and the row is not older
\* than the lease: a lock that is removed or taken over because it is not fresh is
\* nobody's lease any more.
LeaseHasLock ==
    \A w \in Windows : lease[w] < Ttl => lock.user = UserOf[w] /\ lock.age <= lease[w]

LockInv == LockTyped /\ LeaseTyped /\ LeaseHasLock
IndexInv == DocShape /\ IndexFollowsBody

LEMMA Constants ==
    Ttl \in Nat /\ Ttl > 0 /\ Nobody \notin Users /\ \A w \in Windows : UserOf[w] \in Users
    BY EditingAssumption

LEMMA InitLockInv == Init => LockInv
    BY Constants DEF Init, NoLock, LockInv, LockTyped, LeaseTyped, LeaseHasLock

\* What leaves the lock and the leases alone, the editors and most of the server.
LEMMA Bystanders ==
    ASSUME LockInv, UNCHANGED <<lock, lease>>
    PROVE  LockInv'
    BY DEF LockInv, LockTyped, LeaseTyped, LeaseHasLock

LEMMA AcquireKeepsLock ==
    ASSUME LockInv, NEW w \in Windows, NEW i, Acquire(w, i)
    PROVE  LockInv'
<1>1. CASE UNCHANGED <<lock, lease>>
    BY <1>1, Bystanders
<1>2. CASE /\ lock.user \in {Nobody, UserOf[w]} \/ ~Fresh
           /\ lock' = [user |-> UserOf[w], age |-> 0]
           /\ lease' = [lease EXCEPT ![w] = 0]
  <2>1. LockTyped' /\ LeaseTyped'
      BY <1>2, Constants DEF LockInv, LockTyped, LeaseTyped
  <2>2. ASSUME NEW v \in Windows, lease'[v] < Ttl
        PROVE  lock'.user = UserOf[v] /\ lock'.age <= lease'[v]
    <3>1. CASE v = w
        BY <1>2, <3>1, Constants DEF LockInv, LeaseTyped
    <3>2. CASE v # w
      <4>1. lease'[v] = lease[v] /\ lease[v] \in 0..Ttl
          BY <1>2, <3>2 DEF LockInv, LeaseTyped
      <4>2. lock.user = UserOf[v] /\ lock.age <= lease[v] /\ lock.age \in 0..Ttl
          BY <2>2, <4>1 DEF LockInv, LeaseHasLock, LockTyped
      <4>3. lock.user = UserOf[w]
          BY <1>2, <2>2, <4>1, <4>2, Constants DEF Fresh
      <4> QED
          BY <1>2, <4>1, <4>2, <4>3
    <3> QED
        BY <3>1, <3>2
  <2> QED
      BY <2>1, <2>2 DEF LockInv, LeaseHasLock
<1> QED
    BY <1>1, <1>2 DEF Acquire

LEMMA ReleaseKeepsLock ==
    ASSUME LockInv, NEW w \in Windows, NEW i, Release(w, i)
    PROVE  LockInv'
<1>1. CASE UNCHANGED <<lock, lease>>
    BY <1>1, Bystanders
<1>2. CASE /\ lock.user = UserOf[w] /\ lock' = NoLock
           /\ lease' = [v \in Windows |-> IF UserOf[v] = UserOf[w] THEN Ttl ELSE lease[v]]
  <2>1. LockTyped' /\ LeaseTyped'
      BY <1>2, Constants DEF NoLock, LockInv, LockTyped, LeaseTyped
  <2>2. \A v \in Windows : ~(lease'[v] < Ttl)
      BY <1>2, Constants DEF LockInv, LeaseHasLock, LeaseTyped
  <2> QED
      BY <2>1, <2>2 DEF LockInv, LeaseHasLock
<1> QED
    BY <1>1, <1>2 DEF Release

LEMMA TickKeepsLock ==
    ASSUME LockInv, Tick
    PROVE  LockInv'
<1>1. LockTyped' /\ LeaseTyped'
    BY Constants DEF Tick, LockInv, LockTyped, LeaseTyped
<1>2. ASSUME NEW w \in Windows, lease'[w] < Ttl
      PROVE  lock'.user = UserOf[w] /\ lock'.age <= lease'[w]
  <2>1. lease[w] \in 0..Ttl /\ lock.age \in 0..Ttl
      BY DEF LockInv, LeaseTyped, LockTyped
  <2>2. lease'[w] = IF lease[w] < Ttl THEN lease[w] + 1 ELSE Ttl
      BY DEF Tick
  <2>3. lease[w] < Ttl /\ lease'[w] = lease[w] + 1
      BY <1>2, <2>1, <2>2, Constants
  <2>4. lock.user = UserOf[w] /\ lock.age <= lease[w]
      BY <2>3 DEF LockInv, LeaseHasLock
  <2>5. lock'.user = lock.user /\ lock'.age = IF lock.age < Ttl THEN lock.age + 1 ELSE Ttl
      BY DEF Tick, LockInv, LockTyped
  <2> QED
      BY <2>1, <2>3, <2>4, <2>5, Constants
<1> QED
    BY <1>1, <1>2 DEF LockInv, LeaseHasLock

LEMMA RemovalKeepsLock ==
    ASSUME LockInv, RemoveStale \/ Purge
    PROVE  LockInv'
<1>1. LockTyped' /\ LeaseTyped'
    BY Constants DEF RemoveStale, Purge, NoLock, LockInv, LockTyped, LeaseTyped
<1>2. \A w \in Windows : ~(lease'[w] < Ttl)
  <2>1. CASE RemoveStale
      BY <2>1, Constants DEF RemoveStale, Fresh, LockInv, LockTyped, LeaseTyped, LeaseHasLock
  <2>2. CASE Purge
      BY <2>2, Constants DEF Purge
  <2> QED
      BY <2>1, <2>2
<1> QED
    BY <1>1, <1>2 DEF LockInv, LeaseHasLock

LEMMA NextKeepsLock ==
    ASSUME LockInv, [Next]_vars
    PROVE  LockInv'
<1>1. CASE UNCHANGED vars
    BY <1>1, Bystanders DEF vars
<1>2. CASE Others
  <2>1. CASE Trash \/ BackfillNode
      BY <2>1, Bystanders DEF Trash, BackfillNode
  <2> QED
      BY <1>2, <2>1, TickKeepsLock, RemovalKeepsLock DEF Others
<1>3. ASSUME NEW w \in Windows, Editors(w) PROVE LockInv'
  <2>1. CASE OpenWindow(w) \/ Beat(w) \/ TimerFires(w) \/ Reload(w) \/ Close(w) \/ Vanish(w)
      BY <2>1, Bystanders
         DEF OpenWindow, Beat, TimerFires, Reload, Close, Vanish, server
  <2>2. ASSUME NEW e \in Edits, Type(w, e) PROVE LockInv'
      BY <2>2, Bystanders DEF Type, server
  <2>3. ASSUME NEW force \in BOOLEAN, Save(w, force) PROVE LockInv'
      BY <2>3, Bystanders DEF Save, server
  <2>4. ASSUME NEW i \in DOMAIN net[w], Serve(w, i) PROVE LockInv'
    <3>1. CASE Fetch(w, i) \/ SaveContent(w, i)
        BY <3>1, Bystanders DEF Fetch, SaveContent, server
    <3> QED
        BY <2>4, <3>1, AcquireKeepsLock, ReleaseKeepsLock DEF Serve
  <2>5. ASSUME NEW i \in DOMAIN net[w], Handle(w, i) \/ Lose(w, i) PROVE LockInv'
    <3>1. UNCHANGED server
        BY <2>5 DEF Handle, Lose, Loaded, BeatAnswered, TakenOver, Reloaded, Saved, Unread
    <3> QED
        BY <3>1, Bystanders DEF server
  <2> QED
      BY <1>3, <2>1, <2>2, <2>3, <2>4, <2>5 DEF Editors
<1> QED
    BY <1>1, <1>2, <1>3 DEF Next

\* A user who was given the edit lock keeps it for LOCK_TTL, whatever other windows,
\* the purge and the network do (services/locks.py: acquire, release, get_active).
THEOREM LeaseIsExclusive == Spec => []OneLease
<1>1. LockInv => OneLease
    BY DEF LockInv, LeaseHasLock, OneLease
<1> QED
    BY <1>1, InitLockInv, NextKeepsLock, PTL DEF Spec

-----------------------------------------------------------------------------
\* The index

LEMMA InitIndexInv == Init => IndexInv
    BY DEF Init, IndexInv, DocShape, IndexFollowsBody

LEMMA SameIndex ==
    ASSUME IndexInv, UNCHANGED <<doc, index>>
    PROVE  IndexInv'
    BY DEF IndexInv, DocShape, IndexFollowsBody

LEMMA SaveKeepsIndex ==
    ASSUME IndexInv, NEW w \in Windows, NEW i, SaveContent(w, i)
    PROVE  IndexInv'
<1>1. CASE UNCHANGED <<doc, index>>
    BY <1>1, SameIndex
<1>2. CASE /\ doc' = [doc EXCEPT !.stamp = doc.stamp + 1, !.text = net[w][i].text]
           /\ index' = {net[w][i].text}
  <2>1. doc' = [state |-> doc.state, stamp |-> doc.stamp + 1, text |-> net[w][i].text]
      BY <1>2 DEF IndexInv, DocShape
  <2> QED
      BY <1>2, <2>1 DEF IndexInv, DocShape, IndexFollowsBody
<1> QED
    BY <1>1, <1>2 DEF SaveContent

LEMMA NextKeepsIndex ==
    ASSUME IndexInv, [Next]_vars
    PROVE  IndexInv'
<1>1. CASE UNCHANGED vars
    BY <1>1, SameIndex DEF vars
<1>2. CASE Others
  <2>1. CASE Tick \/ RemoveStale
      BY <2>1, SameIndex DEF Tick, RemoveStale
  <2>2. CASE Trash \/ Purge
    <3>1. \E s : doc' = [state |-> s, stamp |-> doc.stamp, text |-> doc.text]
        BY <2>2 DEF Trash, Purge, IndexInv, DocShape
    <3>2. DocShape' /\ doc'.text = doc.text
        BY <3>1 DEF DocShape
    <3> QED
        BY <2>2, <3>2 DEF Trash, Purge, IndexInv, IndexFollowsBody
  <2>3. CASE BackfillNode
      BY <2>3 DEF BackfillNode, IndexInv, DocShape, IndexFollowsBody
  <2> QED
      BY <1>2, <2>1, <2>2, <2>3 DEF Others
<1>3. ASSUME NEW w \in Windows, Editors(w) PROVE IndexInv'
  <2>1. CASE OpenWindow(w) \/ Beat(w) \/ TimerFires(w) \/ Reload(w) \/ Close(w) \/ Vanish(w)
      BY <2>1, SameIndex
         DEF OpenWindow, Beat, TimerFires, Reload, Close, Vanish, server
  <2>2. ASSUME NEW e \in Edits, Type(w, e) PROVE IndexInv'
      BY <2>2, SameIndex DEF Type, server
  <2>3. ASSUME NEW force \in BOOLEAN, Save(w, force) PROVE IndexInv'
      BY <2>3, SameIndex DEF Save, server
  <2>4. ASSUME NEW i \in DOMAIN net[w], Serve(w, i) PROVE IndexInv'
    <3>1. CASE Fetch(w, i) \/ Acquire(w, i) \/ Release(w, i)
        BY <3>1, SameIndex DEF Fetch, Acquire, Release, server
    <3> QED
        BY <2>4, <3>1, SaveKeepsIndex DEF Serve
  <2>5. ASSUME NEW i \in DOMAIN net[w], Handle(w, i) \/ Lose(w, i) PROVE IndexInv'
    <3>1. UNCHANGED server
        BY <2>5 DEF Handle, Lose, Loaded, BeatAnswered, TakenOver, Reloaded, Saved, Unread
    <3> QED
        BY <3>1, SameIndex DEF server
  <2> QED
      BY <1>3, <2>1, <2>2, <2>3, <2>4, <2>5 DEF Editors
<1> QED
    BY <1>1, <1>2, <1>3 DEF Next

\* The thread that indexes at start never leaves a text in the index that is not the
\* document's, however saves, the trash and a purge come between its steps
\* (services/search_index.py: backfill, index_node; api/nodes.py: save_content).
THEOREM IndexIsCurrent == Spec => []IndexFollowsBody
<1>1. IndexInv => IndexFollowsBody
    BY DEF IndexInv
<1> QED
    BY <1>1, InitIndexInv, NextKeepsIndex, PTL DEF Spec

-----------------------------------------------------------------------------
\* The types

LEMMA RemoveAtFacts ==
    ASSUME NEW S, NEW s \in Seq(S), NEW i \in DOMAIN s
    PROVE  /\ RemoveAt(s, i) \in Seq(S)
           /\ Len(RemoveAt(s, i)) = Len(s) - 1
           /\ \A j \in 1..(Len(s) - 1) :
                RemoveAt(s, i)[j] = IF j < i THEN s[j] ELSE s[j + 1]
<1>1. i \in 1..Len(s) /\ Len(s) \in Nat
    OBVIOUS
<1> DEFINE left == SubSeq(s, 1, i - 1)
           right == SubSeq(s, i + 1, Len(s))
<1>2. left \in Seq(S) /\ Len(left) = i - 1 /\ \A j \in 1..(i - 1) : left[j] = s[j]
    BY <1>1
<1>3. right \in Seq(S) /\ Len(right) = Len(s) - i /\ \A j \in 1..(Len(s) - i) : right[j] = s[i + j]
    BY <1>1
<1> HIDE DEF left, right
<1>4. /\ left \o right \in Seq(S) /\ Len(left \o right) = Len(s) - 1
      /\ \A j \in 1..(Len(s) - 1) :
           (left \o right)[j] = IF j < i THEN left[j] ELSE right[j - (i - 1)]
  <2>1. \A j \in 1..(Len(left) + Len(right)) :
           (left \o right)[j] = IF j <= Len(left) THEN left[j] ELSE right[j - Len(left)]
      BY <1>2, <1>3, ConcatProperties
  <2>2. left \o right \in Seq(S) /\ Len(left \o right) = Len(left) + Len(right)
      BY <1>2, <1>3, ConcatProperties
  <2>3. Len(left) + Len(right) = Len(s) - 1 /\ Len(left) = i - 1
      BY <1>1, <1>2, <1>3
  <2>4. \A j \in 1..(Len(s) - 1) : j <= Len(left) <=> j < i
      BY <1>1, <2>3
  <2> QED
      BY <2>1, <2>2, <2>3, <2>4
<1>5. ASSUME NEW j \in 1..(Len(s) - 1)
      PROVE  (left \o right)[j] = IF j < i THEN s[j] ELSE s[j + 1]
  <2>1. CASE j < i
      BY <1>1, <1>2, <1>4, <2>1
  <2>2. CASE ~(j < i)
    <3>1. j - (i - 1) \in 1..(Len(s) - i) /\ i + (j - (i - 1)) = j + 1
        BY <1>1, <2>2
    <3> QED
        BY <1>3, <1>4, <2>2, <3>1
  <2> QED
      BY <2>1, <2>2
<1>6. RemoveAt(s, i) = left \o right
    BY DEF RemoveAt, left, right
<1> QED
    BY <1>4, <1>5, <1>6

LEMMA LeftoverFacts ==
    ASSUME NEW s \in Seq(Call)
    PROVE  /\ Leftover(s) \in Seq(Call)
           /\ Len(Leftover(s)) = Len(s)
           /\ \A i \in DOMAIN s :
                /\ Leftover(s)[i].kind = s[i].kind
                /\ Leftover(s)[i].text = s[i].text
                /\ Leftover(s)[i].base = s[i].base
                /\ Leftover(s)[i].state = "sent" => s[i].state = "sent"
<1>1. \A i \in DOMAIN s : s[i] \in Call
    OBVIOUS
<1>2. ASSUME NEW c \in Call
      PROVE  LET d == [c EXCEPT !.state = "failed"]
             IN  d \in Call /\ d.kind = c.kind /\ d.text = c.text /\ d.base = c.base
                   /\ d.state = "failed"
    BY DEF Call
<1>3. \A i \in DOMAIN s : Leftover(s)[i] \in Call
    BY <1>1, <1>2 DEF Leftover
<1>4. DOMAIN Leftover(s) = 1..Len(s) /\ Len(s) \in Nat
    BY DEF Leftover
<1>5. Leftover(s) = [i \in 1..Len(s) |-> Leftover(s)[i]]
    BY DEF Leftover
<1> QED
    BY <1>1, <1>2, <1>3, <1>4, <1>5 DEF Leftover

LEMMA AskIsCall ==
    ASSUME NEW kind \in {"load", "beat", "takeover", "reload", "release"}
    PROVE  Ask(kind) \in Call
    BY DEF Ask, Call, Text

LEMMA SizesTyped == \A t \in Text : SizeOf[t] \in Nat
    BY EditingAssumption DEF Text

\* The part of the types that the windows do not share.
WindowsTyped ==
    /\ win \in [Windows -> Editor]
    /\ net \in [Windows -> Seq(Call)]

DocTyped == doc \in [state: {"live", "trash", "purged"}, stamp: Stamp, text: Text]

\* A step of a window changes its editor and its calls only.
Steps(w, e, calls) ==
    /\ win' = [win EXCEPT ![w] = e]
    /\ net' = [net EXCEPT ![w] = calls]

LEMMA StepsTyped ==
    ASSUME WindowsTyped, NEW w \in Windows, NEW e \in Editor, NEW calls \in Seq(Call),
           Steps(w, e, calls)
    PROVE  WindowsTyped'
    BY DEF WindowsTyped, Steps

LEMMA CallsTyped ==
    ASSUME WindowsTyped, NEW w \in Windows
    PROVE  /\ win[w] \in Editor /\ net[w] \in Seq(Call)
           /\ \A i \in DOMAIN net[w] : net[w][i] \in Call
    BY DEF WindowsTyped

\* What a call may become.
LEMMA ReplyTyped ==
    ASSUME WindowsTyped, NEW w \in Windows, NEW i \in DOMAIN net[w], NEW c \in Call,
           Answer(w, i, c), UNCHANGED win
    PROVE  WindowsTyped'
<1>1. [net[w] EXCEPT ![i] = c] \in Seq(Call)
    BY CallsTyped
<1> QED
    BY <1>1 DEF WindowsTyped, Answer

LEMMA StateTyped ==
    ASSUME NEW c \in Call, NEW s \in {"sent", "ok", "denied", "missing", "failed"},
           NEW t \in Text, NEW b \in Stamp \cup {NoStamp}
    PROVE  /\ [c EXCEPT !.state = s] \in Call
           /\ [c EXCEPT !.state = s, !.text = t] \in Call
           /\ [c EXCEPT !.state = s, !.base = b] \in Call
    BY DEF Call

LEMMA OpenWindowTyped ==
    ASSUME WindowsTyped, DocTyped, NEW w \in Windows, OpenWindow(w)
    PROVE  WindowsTyped'
<1>1. PICK s \in 0..doc.stamp :
        win' = [win EXCEPT ![w] = [NewEditor EXCEPT !.phase = "blank", !.base = s,
                                                    !.size = SizeOf[doc.text]]]
    BY DEF OpenWindow
<1> DEFINE e == [NewEditor EXCEPT !.phase = "blank", !.base = s, !.size = SizeOf[doc.text]]
           calls == net[w] \o <<Ask("load"), Ask("beat")>>
<1>2. s \in Stamp /\ SizeOf[doc.text] \in Nat
    BY SizesTyped, EditingAssumption DEF DocTyped, Stamp
<1>3. e \in Editor
    BY <1>2 DEF NewEditor, Editor, Text
<1>4. <<Ask("load"), Ask("beat")>> \in Seq(Call)
    BY AskIsCall
<1>5. calls \in Seq(Call)
    BY <1>4, CallsTyped, ConcatProperties
<1>6. Steps(w, e, calls)
    BY <1>1 DEF Steps, OpenWindow, Put
<1> HIDE DEF e, calls
<1> QED
    BY <1>3, <1>5, <1>6, StepsTyped

LEMMA PutTyped ==
    ASSUME WindowsTyped, NEW w \in Windows, NEW c \in Call, Put(w, <<c>>),
           NEW e \in Editor, win' = [win EXCEPT ![w] = e]
    PROVE  WindowsTyped'
<1>1. net[w] \o <<c>> \in Seq(Call)
    BY CallsTyped
<1> QED
    BY <1>1, StepsTyped DEF Steps, Put

LEMMA SaveCallTyped ==
    ASSUME WindowsTyped, NEW w \in Windows, NEW force \in BOOLEAN
    PROVE  SaveCall(w, force) \in Call
    BY CallsTyped DEF SaveCall, Call, Editor

LEMMA GesturesTyped ==
    ASSUME WindowsTyped, NEW w \in Windows,
           \/ Beat(w) \/ TimerFires(w) \/ Reload(w) \/ Close(w) \/ Vanish(w)
           \/ \E e \in Edits : Type(w, e)
           \/ \E force \in BOOLEAN : Save(w, force)
    PROVE  WindowsTyped'
<1> USE CallsTyped
<1>same. win' = win => win' = [win EXCEPT ![w] = win[w]]
    BY DEF WindowsTyped
<1>1. CASE Beat(w) \/ Reload(w)
    BY <1>1, <1>same, PutTyped, AskIsCall DEF Beat, Reload
<1>2. CASE TimerFires(w)
  <2>1. [win[w] EXCEPT !.timer = "off", !.saving = TRUE] \in Editor
        /\ [win[w] EXCEPT !.timer = "off"] \in Editor
      BY DEF Editor
  <2>2. CASE Put(w, <<SaveCall(w, FALSE)>>) /\ win' = [win EXCEPT ![w].timer = "off", ![w].saving = TRUE]
      BY <2>1, <2>2, PutTyped, SaveCallTyped, ZenonT(60)
  <2>3. CASE UNCHANGED net /\ win' = [win EXCEPT ![w].timer = "off"]
      BY <2>1, <2>3 DEF WindowsTyped
  <2> QED
      BY <1>2, <2>2, <2>3 DEF TimerFires
<1>3. CASE Close(w) \/ Vanish(w)
  <2>1. [NewEditor EXCEPT !.phase = "closed"] \in Editor
      BY DEF NewEditor, Editor, Text
  <2>2. /\ Leftover(net[w]) \in Seq(Call)
        /\ Leftover(net[w]) \o <<>> \in Seq(Call)
        /\ Leftover(net[w]) \o <<Ask("release")>> \in Seq(Call)
      BY LeftoverFacts, AskIsCall
  <2>3. PICK calls \in Seq(Call) : Steps(w, [NewEditor EXCEPT !.phase = "closed"], calls)
      BY <1>3, <2>2 DEF Close, Vanish, Steps
  <2> QED
      BY <2>1, <2>3, StepsTyped
<1>4. ASSUME NEW e \in Edits, Type(w, e) PROVE WindowsTyped'
  <2>1. PICK d \in BOOLEAN, t \in {"off", "live", "dead"} :
          win' = [win EXCEPT ![w].text = win[w].text \cup {e}, ![w].dirty = d, ![w].timer = t]
      BY <1>4 DEF Type, Editor
  <2>2. [win[w] EXCEPT !.text = win[w].text \cup {e}, !.dirty = d, !.timer = t] \in Editor
      BY DEF Editor, Text
  <2>3. win' = [win EXCEPT ![w] = [win[w] EXCEPT !.text = win[w].text \cup {e},
                                                 !.dirty = d, !.timer = t]]
      BY <2>1 DEF WindowsTyped
  <2>4. PICK f \in Editor : win' = [win EXCEPT ![w] = f]
      BY <2>2, <2>3
  <2>5. net' = net
      BY <1>4 DEF Type
  <2> QED
      BY <2>4, <2>5 DEF WindowsTyped
<1>5. ASSUME NEW force \in BOOLEAN, Save(w, force) PROVE WindowsTyped'
  <2>1. [win[w] EXCEPT !.saving = TRUE] \in Editor
      BY DEF Editor
  <2> QED
      BY <1>5, <2>1, PutTyped, SaveCallTyped DEF Save
<1> QED
    BY <1>1, <1>2, <1>3, <1>4, <1>5

LEMMA ServeTyped ==
    ASSUME WindowsTyped, DocTyped, NEW w \in Windows, NEW i \in DOMAIN net[w], Serve(w, i)
    PROVE  WindowsTyped'
<1>1. net[w][i] \in Call /\ doc.text \in Text /\ doc.stamp \in Stamp /\ win' = win
    BY CallsTyped DEF DocTyped, Serve, Acquire, Release, Fetch, SaveContent
<1>2. CASE Release(w, i)
  <2>1. RemoveAt(net[w], i) \in Seq(Call)
      BY CallsTyped, RemoveAtFacts
  <2> QED
      BY <1>1, <1>2, <2>1 DEF Release, WindowsTyped
<1>3. CASE Acquire(w, i) \/ Fetch(w, i)
  <2>1. PICK c \in Call : Answer(w, i, c)
      BY <1>1, <1>3, StateTyped, ZenonT(60) DEF Acquire, Fetch, Reply
  <2> QED
      BY <1>1, <2>1, ReplyTyped, SMTT(40)
<1>4. CASE SaveContent(w, i)
  <2>1. doc.stamp # MaxStamp => doc.stamp + 1 \in Stamp
      BY <1>1, EditingAssumption DEF Stamp
  <2>2. PICK c \in Call : Answer(w, i, c)
      BY <1>1, <1>4, <2>1, StateTyped DEF SaveContent, Reply
  <2> QED
      BY <1>1, <2>2, ReplyTyped, SMTT(60)
<1> QED
    BY <1>2, <1>3, <1>4 DEF Serve

\* A call that is answered leaves the list, and a load may follow it.
LEMMA FinishTyped ==
    ASSUME WindowsTyped, NEW w \in Windows, NEW i \in DOMAIN net[w],
           NEW more \in {<<>>, <<Ask("load")>>}, Finish(w, i, more),
           NEW e \in Editor, win' = [win EXCEPT ![w] = e]
    PROVE  WindowsTyped'
<1>1. RemoveAt(net[w], i) \in Seq(Call)
    BY CallsTyped, RemoveAtFacts
<1>3. <<>> \in Seq(Call) /\ <<Ask("load")>> \in Seq(Call)
    BY AskIsCall
<1>2. RemoveAt(net[w], i) \o more \in Seq(Call)
    BY <1>1, <1>3, ConcatProperties
<1> QED
    BY <1>2, StepsTyped DEF Finish, Steps

LEMMA HandleTyped ==
    ASSUME WindowsTyped, NEW w \in Windows, NEW i \in DOMAIN net[w],
           Handle(w, i) \/ Lose(w, i)
    PROVE  WindowsTyped'
<1>call. net[w][i] \in Call /\ net[w][i].text \in Text
         /\ net[w][i].base \in Stamp \cup {NoStamp} /\ SizeOf[net[w][i].text] \in Nat
    BY CallsTyped, SizesTyped DEF Call
<1>same. win' = win => win' = [win EXCEPT ![w] = win[w]]
    BY DEF WindowsTyped
<1> USE CallsTyped
<1>1. CASE Loaded(w, i)
  <2>1. PICK e \in Editor : win' = [win EXCEPT ![w] = e]
      BY <1>1, <1>call DEF Loaded, Show, Editor
  <2> QED
      BY <1>1, <2>1, FinishTyped DEF Loaded
<1>2. CASE BeatAnswered(w, i)
  <2>1. CASE Answer(w, i, Ask("takeover")) /\ UNCHANGED win
      BY <2>1, AskIsCall, ReplyTyped
  <2>2. CASE /\ Finish(w, i, <<>>)
             /\ \/ win' = [win EXCEPT ![w].lock = "mine"]
                \/ win' = [win EXCEPT ![w].lock = "theirs"]
                \/ win' = [win EXCEPT ![w].gone = TRUE]
                \/ win' = win
    <3>1. PICK e \in Editor : win' = [win EXCEPT ![w] = e]
        BY <2>2, <1>same DEF Editor
    <3> QED
        BY <2>2, <3>1, FinishTyped
  <2>3. CASE Steps(w, [NewEditor EXCEPT !.phase = "closed", !.gone = TRUE], Leftover(net[w]))
    <3>1. [NewEditor EXCEPT !.phase = "closed", !.gone = TRUE] \in Editor
        BY DEF NewEditor, Editor, Text
    <3> QED
        BY <2>3, <3>1, LeftoverFacts, StepsTyped
  <2> QED
      BY <1>2, <2>1, <2>2, <2>3 DEF BeatAnswered, Steps
<1>3. CASE TakenOver(w, i) \/ Reloaded(w, i)
  <2>1. [Show(win[w], net[w][i].text) EXCEPT
           !.phase = IF win[w].phase = "error" THEN "error" ELSE "ready",
           !.base = NoStamp, !.dirty = FALSE, !.conflict = FALSE, !.lock = "mine"] \in Editor
      BY <1>call, ZenonT(60) DEF Show, Editor
  <2>2. [Show(win[w], net[w][i].text) EXCEPT
           !.base = NoStamp, !.dirty = FALSE, !.conflict = FALSE] \in Editor
      BY <1>call DEF Show, Editor
  <2>3. [win[w] EXCEPT !.lock = "mine"] \in Editor
      BY DEF Editor
  <2>4. PICK e \in Editor : win' = [win EXCEPT ![w] = e]
      BY <1>3, <1>same, <2>1, <2>2, <2>3 DEF TakenOver, Reloaded
  <2> QED
      BY <1>3, <2>4, FinishTyped DEF TakenOver, Reloaded
<1>4. CASE Saved(w, i)
  <2>3. ASSUME NEW d \in BOOLEAN
        PROVE  [win[w] EXCEPT !.base = net[w][i].base, !.saved = net[w][i].text, !.dirty = d,
                              !.conflict = FALSE, !.saving = FALSE,
                              !.size = SizeOf[net[w][i].text]] \in Editor
      BY <1>call DEF Editor
  <2>4. /\ [win[w] EXCEPT !.conflict = TRUE, !.saving = FALSE] \in Editor
        /\ [win[w] EXCEPT !.saving = FALSE] \in Editor
      BY DEF Editor
  <2>5. /\ win' = [win EXCEPT ![w].conflict = TRUE, ![w].saving = FALSE]
             => win' = [win EXCEPT ![w] = [win[w] EXCEPT !.conflict = TRUE, !.saving = FALSE]]
        /\ win' = [win EXCEPT ![w].saving = FALSE]
             => win' = [win EXCEPT ![w] = [win[w] EXCEPT !.saving = FALSE]]
      BY DEF WindowsTyped
  <2>1. PICK e \in Editor : win' = [win EXCEPT ![w] = e]
      BY <1>4, <2>3, <2>4, <2>5 DEF Saved
  <2>2. PICK more \in {<<>>, <<Ask("load")>>} : Finish(w, i, more)
      BY <1>4 DEF Saved
  <2> QED
      BY <2>1, <2>2, FinishTyped
<1>5. CASE Unread(w, i)
    BY <1>5, <1>same, FinishTyped DEF Unread
<1>6. CASE Lose(w, i)
  <2>1. win' = win
      BY <1>6 DEF Lose
  <2>2. CASE Reply(w, i, "failed")
    <3>1. [net[w][i] EXCEPT !.state = "failed"] \in Call
        BY <1>call DEF Call
    <3> QED
        BY <2>1, <2>2, <3>1, ReplyTyped DEF Reply
  <2>3. CASE Finish(w, i, <<>>)
      BY <2>1, <2>3, <1>same, FinishTyped
  <2> QED
      BY <1>6, <2>2, <2>3 DEF Lose
<1> QED
    BY <1>1, <1>2, <1>3, <1>4, <1>5, <1>6 DEF Handle

\* What is shared: the row, the index, the lock and the leases.
SharedTyped == DocTyped /\ index \in SUBSET Text

LEMMA ServerTyped ==
    ASSUME WindowsTyped, SharedTyped, [Next]_vars
    PROVE  SharedTyped'
<1>1. ASSUME UNCHANGED doc, UNCHANGED index PROVE SharedTyped'
    BY <1>1 DEF SharedTyped, DocTyped
<1>2. ASSUME NEW w \in Windows, NEW i \in DOMAIN net[w], SaveContent(w, i)
      PROVE  SharedTyped'
  <2>1. CASE /\ doc.stamp # MaxStamp
             /\ doc' = [doc EXCEPT !.stamp = doc.stamp + 1, !.text = net[w][i].text]
             /\ index' = {net[w][i].text}
    <3>1. net[w][i].text \in Text
        BY CallsTyped DEF Call
    <3>2. doc.stamp + 1 \in Stamp
        BY <2>1, EditingAssumption DEF SharedTyped, DocTyped, Stamp
    <3> QED
        BY <2>1, <3>1, <3>2 DEF SharedTyped, DocTyped
  <2>2. CASE UNCHANGED <<doc, index>>
      BY <1>1, <2>2
  <2> QED
      BY <1>2, <2>1, <2>2 DEF SaveContent
<1>3. ASSUME NEW w \in Windows, Editors(w) PROVE SharedTyped'
  <2>1. CASE \/ OpenWindow(w) \/ Beat(w) \/ TimerFires(w) \/ Reload(w) \/ Close(w) \/ Vanish(w)
             \/ \E e \in Edits : Type(w, e)
             \/ \E force \in BOOLEAN : Save(w, force)
      BY <1>1, <2>1
         DEF OpenWindow, Beat, TimerFires, Reload, Close, Vanish, Type, Save, server
  <2>2. ASSUME NEW i \in DOMAIN net[w], Handle(w, i) \/ Lose(w, i) PROVE SharedTyped'
    <3>1. UNCHANGED server
        BY <2>2 DEF Handle, Lose, Loaded, BeatAnswered, TakenOver, Reloaded, Saved, Unread
    <3> QED
        BY <1>1, <3>1 DEF server
  <2>3. ASSUME NEW i \in DOMAIN net[w], Serve(w, i) PROVE SharedTyped'
      BY <1>1, <1>2, <2>3 DEF Serve, Acquire, Release, Fetch, server
  <2> QED
      BY <1>3, <2>1, <2>2, <2>3, SMTT(40) DEF Editors
<1>4. CASE Others
  <2>1. CASE Tick \/ RemoveStale
      BY <1>1, <2>1 DEF Tick, RemoveStale
  <2>2. CASE Trash \/ Purge \/ BackfillNode
      BY <2>2 DEF Trash, Purge, BackfillNode, SharedTyped, DocTyped, Text
  <2> QED
      BY <1>4, <2>1, <2>2 DEF Others
<1> QED
    BY <1>1, <1>3, <1>4 DEF Next, vars

LEMMA NextTyped ==
    ASSUME WindowsTyped, DocTyped, [Next]_vars
    PROVE  WindowsTyped'
<1>1. ASSUME UNCHANGED <<win, net>> PROVE WindowsTyped'
    BY <1>1 DEF WindowsTyped
<1>2. ASSUME NEW w \in Windows, Editors(w) PROVE WindowsTyped'
    BY <1>2, OpenWindowTyped, GesturesTyped, ServeTyped, HandleTyped DEF Editors
<1>3. CASE Others
    BY <1>1, <1>3 DEF Others, Tick, RemoveStale, Trash, Purge, BackfillNode
<1> QED
    BY <1>1, <1>2, <1>3 DEF Next, vars

LEMMA InitTyped == Init => WindowsTyped /\ SharedTyped
<1>1. NewEditor \in Editor /\ <<>> \in Seq(Call)
    BY DEF NewEditor, Editor, Text
<1>2. 0 \in Stamp
    BY EditingAssumption DEF Stamp
<1> QED
    BY <1>1, <1>2 DEF Init, WindowsTyped, SharedTyped, DocTyped, Text

\* The document, its index, the lock and the windows are in states of the program,
\* whatever is typed, lost or deleted (ViewerPanel.tsx, api/nodes.py: save_content).
THEOREM EditorsTyped == Spec => []EditTypeOK
<1>1. Init => LockInv /\ WindowsTyped /\ SharedTyped
    BY InitLockInv, InitTyped
<1>2. LockInv /\ WindowsTyped /\ SharedTyped /\ [Next]_vars
        => (LockInv /\ WindowsTyped /\ SharedTyped)'
    BY NextKeepsLock, ServerTyped, NextTyped DEF SharedTyped
<1>3. LockInv /\ WindowsTyped /\ SharedTyped => EditTypeOK
    BY DEF LockInv, LockTyped, LeaseTyped, WindowsTyped, SharedTyped, DocTyped, EditTypeOK
<1> QED
    BY <1>1, <1>2, <1>3, PTL DEF Spec

-----------------------------------------------------------------------------
\* A save that carries a stamp

\* No stamp that is kept or under way is newer than the row's.
StampsPast(e, calls, stamp) ==
    /\ e.base # NoStamp => e.base <= stamp
    /\ \A i \in DOMAIN calls : calls[i].base # NoStamp => calls[i].base <= stamp

\* A save under way with the row's stamp carries what the row has.
SentKeeps(c, stamp, text) ==
    c.kind = "save" /\ c.state = "sent" /\ c.base = stamp => text \subseteq c.text

\* An editor with the row's stamp shows what the row has, or shows nothing to save yet.
ShownKeeps(e, stamp, text) ==
    e.base = stamp => \/ text \subseteq e.text
                      \/ e.phase # "ready" /\ e.text = e.saved

\* The editor still shows what a save carries, and its answer brings the row's stamp only if
\* it carries what the row has.
SaveKeeps(e, c, stamp, text) ==
    /\ c.text \subseteq e.text
    /\ c.state = "ok" /\ c.base = stamp => text \subseteq c.text

LoadKeeps(e, c, stamp, text) ==
    c.kind = "load" /\ c.state = "ok" /\ e.base = stamp => text \subseteq c.text

CallKeeps(e, c, stamp, text) ==
    IF IsSave(c) THEN SaveKeeps(e, c, stamp, text) ELSE LoadKeeps(e, c, stamp, text)

Opened(e) == e.phase \in {"blank", "ready", "error"}

WindowKeeps(e, calls, stamp, text) ==
    /\ StampsPast(e, calls, stamp)
    /\ \A i \in DOMAIN calls : SentKeeps(calls[i], stamp, text)
    /\ e.phase = "new" => calls = <<>>
    /\ Opened(e) => /\ ShownKeeps(e, stamp, text)
                    /\ \A i \in DOMAIN calls : CallKeeps(e, calls[i], stamp, text)

TextInv(w) == WindowKeeps(win[w], net[w], doc.stamp, doc.text)

\* While a save is under way an open window makes no other call for the text: it may beat.
Quiet == {"beat", "release"}
SavesAlone(calls) ==
    \A j, k \in DOMAIN calls : IsSave(calls[j]) /\ k # j => calls[k].kind \in Quiet
Apart(w) == Open(w) => SavesAlone(net[w])

LEMMA StampIsNat == Stamp \subseteq Nat /\ NoStamp \notin Nat
    BY EditingAssumption DEF Stamp

\* A step of the window that leaves the row alone.
LEMMA StepKeepsText ==
    ASSUME NEW w \in Windows, WindowsTyped, UNCHANGED doc, NEW e, NEW calls,
           Steps(w, e, calls), WindowKeeps(e, calls, doc.stamp, doc.text)
    PROVE  TextInv(w)'
<1>1. win'[w] = e /\ net'[w] = calls
    BY DEF Steps, WindowsTyped
<1>2. doc'.stamp = doc.stamp /\ doc'.text = doc.text
    OBVIOUS
<1> QED
    BY <1>1, <1>2 DEF TextInv

\* The elements of what is left of a list of calls.
LEMMA Remaining ==
    ASSUME NEW calls \in Seq(Call), NEW i \in DOMAIN calls, NEW more \in Seq(Call)
    PROVE  \A j \in DOMAIN (RemoveAt(calls, i) \o more) :
             LET c == (RemoveAt(calls, i) \o more)[j] IN
             \/ \E k \in DOMAIN calls : k # i /\ c = calls[k]
             \/ \E k \in DOMAIN more : c = more[k]
<1> DEFINE rest == RemoveAt(calls, i)
<1>1. /\ rest \in Seq(Call) /\ Len(rest) = Len(calls) - 1
      /\ \A j \in 1..(Len(calls) - 1) : rest[j] = IF j < i THEN calls[j] ELSE calls[j + 1]
    BY RemoveAtFacts
<1>2. i \in 1..Len(calls) /\ Len(calls) \in Nat /\ Len(more) \in Nat
    OBVIOUS
<1>3. ASSUME NEW j \in 1..Len(rest) PROVE \E k \in DOMAIN calls : k # i /\ rest[j] = calls[k]
  <2>1. CASE j < i
    <3>1. j \in DOMAIN calls /\ j # i /\ rest[j] = calls[j]
        BY <1>1, <1>2, <2>1
    <3> QED
        BY <3>1
  <2>2. CASE ~(j < i)
    <3>1. j + 1 \in DOMAIN calls /\ j + 1 # i /\ rest[j] = calls[j + 1]
        BY <1>1, <1>2, <2>2
    <3> QED
        BY <3>1
  <2> QED
      BY <2>1, <2>2
<1> HIDE DEF rest
<1>4. /\ rest \o more \in Seq(Call) /\ Len(rest \o more) = Len(rest) + Len(more)
      /\ \A j \in 1..(Len(rest) + Len(more)) :
           (rest \o more)[j] = IF j <= Len(rest) THEN rest[j] ELSE more[j - Len(rest)]
    BY <1>1, ConcatProperties
<1>5. ASSUME NEW j \in DOMAIN (rest \o more)
      PROVE  \/ \E k \in DOMAIN calls : k # i /\ (rest \o more)[j] = calls[k]
             \/ \E k \in DOMAIN more : (rest \o more)[j] = more[k]
  <2>1. j \in 1..(Len(rest) + Len(more)) /\ Len(rest) \in Nat
      BY <1>1, <1>2, <1>4
  <2>2. CASE j <= Len(rest)
      BY <1>3, <1>4, <2>1, <2>2
  <2>3. CASE ~(j <= Len(rest))
    <3>1. j - Len(rest) \in DOMAIN more
        BY <1>2, <2>1, <2>3
    <3> QED
        BY <1>4, <2>1, <2>3, <3>1
  <2> QED
      BY <2>2, <2>3
<1> QED
    BY <1>5 DEF rest

LEMMA AskFacts ==
    ASSUME NEW kind
    PROVE  /\ Ask(kind).kind = kind /\ Ask(kind).state = "sent"
           /\ Ask(kind).base = NoStamp
    BY DEF Ask

\* An open window handles an answer: the editor may be replaced by one without a stamp, or
\* by any that shows what the row has when the answer was to a save.
LEMMA FinishKeepsText ==
    ASSUME NEW e \in Editor, NEW calls \in Seq(Call), NEW stamp \in Nat, NEW text,
           WindowKeeps(e, calls, stamp, text), Opened(e), SavesAlone(calls), NEW i \in DOMAIN calls,
           NEW f \in Editor, Opened(f), ShownKeeps(f, stamp, text),
           f.base # NoStamp => f.base <= stamp,
           f.base \in {e.base, NoStamp} \/ IsSave(calls[i]),
           f.text = e.text \/ calls[i].kind \notin Quiet,
           NEW more \in Seq(Call), more \in {<<>>, <<Ask("load")>>}
    PROVE  WindowKeeps(f, RemoveAt(calls, i) \o more, stamp, text)
<1> DEFINE left == RemoveAt(calls, i) \o more
<1>1. \A j \in DOMAIN left : \/ \E k \in DOMAIN calls : k # i /\ left[j] = calls[k]
                             \/ left[j] = Ask("load")
    BY Remaining
<1> HIDE DEF left
<1>5. Ask("load").base = NoStamp /\ Ask("load").state = "sent" /\ ~IsSave(Ask("load"))
    BY AskFacts DEF IsSave
<1>6. StampsPast(f, left, stamp)
    BY <1>1, <1>5 DEF WindowKeeps, StampsPast
<1>7. \A j \in DOMAIN left : SentKeeps(left[j], stamp, text)
    BY <1>1, <1>5 DEF WindowKeeps, SentKeeps, IsSave
<1>8. ASSUME NEW j \in DOMAIN left PROVE CallKeeps(f, left[j], stamp, text)
  <2>1. CASE left[j] = Ask("load")
      BY <1>5, <2>1 DEF CallKeeps, LoadKeeps
  <2>2. ASSUME NEW k \in DOMAIN calls, k # i, left[j] = calls[k]
        PROVE  CallKeeps(f, left[j], stamp, text)
    <3>1. CallKeeps(e, calls[k], stamp, text)
        BY DEF WindowKeeps
    \* A save that waits: what is answered is a beat.
    <3>2. CASE IsSave(calls[k])
      <4>1. f.text = e.text
          BY <2>2, <3>2 DEF SavesAlone
      <4> QED
          BY <2>2, <3>1, <3>2, <4>1 DEF CallKeeps, SaveKeeps
    \* A load that waits: what is answered is no save.
    <3>3. CASE ~IsSave(calls[k])
      <4>1. calls[k].kind = "load" => f.base \in {e.base, NoStamp}
          BY <2>2 DEF SavesAlone, Quiet
      <4>2. LoadKeeps(f, calls[k], stamp, text)
          BY <3>1, <3>3, <4>1, StampIsNat DEF CallKeeps, LoadKeeps
      <4> QED
          BY <2>2, <3>3, <4>2 DEF CallKeeps
    <3> QED
        BY <3>2, <3>3
  <2> QED
      BY <1>1, <2>1, <2>2
<1>9. f.phase # "new"
    BY DEF Opened
<1> QED
    BY <1>6, <1>7, <1>8, <1>9 DEF WindowKeeps, left

\* A call is dropped and its window stays as it is, open or closed.
LEMMA DropKeepsText ==
    ASSUME NEW e \in Editor, NEW calls \in Seq(Call), NEW stamp \in Nat, NEW text,
           WindowKeeps(e, calls, stamp, text), NEW i \in DOMAIN calls
    PROVE  WindowKeeps(e, RemoveAt(calls, i) \o <<>>, stamp, text)
<1>0. <<>> \in Seq(Call) /\ ~\E k \in DOMAIN <<>> : TRUE
    OBVIOUS
<1>1. PICK more \in Seq(Call) : more = <<>> /\ ~\E k \in DOMAIN more : TRUE
    BY <1>0
<1> DEFINE left == RemoveAt(calls, i) \o more
<1>2. \A j \in DOMAIN left : \E k \in DOMAIN calls : left[j] = calls[k]
    BY <1>1, Remaining
<1>3. e.phase # "new"
    BY DEF WindowKeeps
<1> HIDE DEF left
<1>4. WindowKeeps(e, left, stamp, text)
    BY <1>2, <1>3 DEF WindowKeeps, StampsPast
<1> QED
    BY <1>1, <1>4 DEF left

\* The server answers a call that is not a save, or refuses one, or its answer is lost.
LEMMA ReplyKeepsText ==
    ASSUME NEW e \in Editor, NEW calls \in Seq(Call), NEW stamp \in Nat, NEW text,
           WindowKeeps(e, calls, stamp, text), NEW i \in DOMAIN calls, NEW c \in Call,
           c.base \in {calls[i].base, NoStamp},
           c.kind = "save" => c.state # "sent",
           IsSave(c) => IsSave(calls[i]) /\ c.text = calls[i].text /\ c.state # "ok",
           c.kind = "load" /\ c.state = "ok" => text \subseteq c.text
    PROVE  WindowKeeps(e, [calls EXCEPT ![i] = c], stamp, text)
<1> DEFINE new == [calls EXCEPT ![i] = c]
<1>1. /\ DOMAIN new = DOMAIN calls /\ Len(new) = Len(calls) /\ new[i] = c
      /\ \A j \in DOMAIN calls : j # i => new[j] = calls[j]
    OBVIOUS
<1> HIDE DEF new
<1>2. StampsPast(e, new, stamp)
    BY <1>1 DEF WindowKeeps, StampsPast
<1>3. \A j \in DOMAIN new : SentKeeps(new[j], stamp, text)
    BY <1>1 DEF WindowKeeps, SentKeeps
<1>4. e.phase # "new"
    BY DEF WindowKeeps
<1>5. ASSUME Opened(e), NEW j \in DOMAIN new PROVE CallKeeps(e, new[j], stamp, text)
  <2>1. CallKeeps(e, calls[j], stamp, text)
      BY <1>1, <1>5 DEF WindowKeeps
  <2>2. CASE j # i
      BY <1>1, <2>1, <2>2 DEF CallKeeps, SaveKeeps
  <2>3. CASE j = i
      BY <1>1, <2>1, <2>3 DEF CallKeeps, SaveKeeps, LoadKeeps
  <2> QED
      BY <2>2, <2>3
<1>6. WindowKeeps(e, new, stamp, text)
    BY <1>2, <1>3, <1>4, <1>5 DEF WindowKeeps
<1> QED
    BY <1>6 DEF new

\* The row changes: every stamp that is about is older than the new one.
LEMMA OthersFallBehind ==
    ASSUME NEW e \in Editor, NEW calls \in Seq(Call), NEW stamp \in Nat, NEW text, NEW new,
           WindowKeeps(e, calls, stamp, text)
    PROVE  WindowKeeps(e, calls, stamp + 1, new)
<1>1. \A i \in DOMAIN calls : calls[i] \in Call
    OBVIOUS
<1>2. e.base # stamp + 1 /\ (e.base # NoStamp => e.base <= stamp + 1)
  <2>1. e.base \in Nat \cup {NoStamp}
      BY StampIsNat DEF Editor
  <2>2. e.base # NoStamp => e.base <= stamp
      BY DEF WindowKeeps, StampsPast
  <2> QED
      BY <2>1, <2>2, StampIsNat
<1>3. ASSUME NEW i \in DOMAIN calls
      PROVE  calls[i].base # stamp + 1 /\ (calls[i].base # NoStamp => calls[i].base <= stamp + 1)
  <2>1. calls[i].base \in Nat \cup {NoStamp}
      BY <1>1, StampIsNat DEF Call
  <2>2. calls[i].base # NoStamp => calls[i].base <= stamp
      BY DEF WindowKeeps, StampsPast
  <2> QED
      BY <2>1, <2>2, StampIsNat
<1>4. StampsPast(e, calls, stamp + 1) /\ ShownKeeps(e, stamp + 1, new)
    BY <1>2, <1>3 DEF StampsPast, ShownKeeps
<1>5. ASSUME NEW i \in DOMAIN calls
      PROVE  /\ SentKeeps(calls[i], stamp + 1, new)
             /\ Opened(e) => CallKeeps(e, calls[i], stamp + 1, new)
    BY <1>2, <1>3 DEF SentKeeps, CallKeeps, SaveKeeps, LoadKeeps, WindowKeeps
<1> QED
    BY <1>4, <1>5 DEF WindowKeeps

\* A window that has gone keeps nothing but what it has sent.
LEMMA GoneKeepsText ==
    ASSUME NEW e \in Editor, NEW calls \in Seq(Call), NEW stamp \in Nat, NEW text,
           WindowKeeps(e, calls, stamp, text), NEW f, f.phase = "closed", f.base = NoStamp,
           NEW more \in {<<>>, <<Ask("release")>>}
    PROVE  WindowKeeps(f, Leftover(calls) \o more, stamp, text)
<1> DEFINE left == Leftover(calls)
<1>1. /\ left \in Seq(Call) /\ Len(left) = Len(calls)
      /\ \A i \in DOMAIN left :
           /\ left[i].kind = calls[i].kind /\ left[i].text = calls[i].text
           /\ left[i].base = calls[i].base
           /\ left[i].state = "sent" => calls[i].state = "sent"
    BY LeftoverFacts
<1> HIDE DEF left
<1>2. more \in Seq(Call) /\ \A k \in DOMAIN more : more[k] = Ask("release")
  <2>1. CASE more = <<>>
      BY <2>1
  <2>2. CASE more = <<Ask("release")>>
    <3>1. more \in Seq(Call) /\ DOMAIN more = {1} /\ more[1] = Ask("release")
        BY <2>2, AskIsCall
    <3> QED
        BY <3>1
  <2> QED
      BY <2>1, <2>2
<1>3. \A j \in DOMAIN (left \o more) :
        \/ \E k \in DOMAIN left : (left \o more)[j] = left[k]
        \/ (left \o more)[j] = Ask("release")
  <2>1. Len(left) \in Nat /\ Len(more) \in Nat
      BY <1>1, <1>2
  <2>2. /\ Len(left \o more) = Len(left) + Len(more) /\ left \o more \in Seq(Call)
        /\ \A j \in 1..(Len(left) + Len(more)) :
             (left \o more)[j] = IF j <= Len(left) THEN left[j] ELSE more[j - Len(left)]
      BY <1>1, <1>2, ConcatProperties
  <2>3. ASSUME NEW j \in DOMAIN (left \o more)
        PROVE  \/ \E k \in DOMAIN left : (left \o more)[j] = left[k]
               \/ (left \o more)[j] = Ask("release")
    <3>1. j \in 1..(Len(left) + Len(more))
        BY <2>2
    <3>2. CASE j <= Len(left)
        BY <2>1, <2>2, <3>1, <3>2, <1>1
    <3>3. CASE ~(j <= Len(left))
      <4>1. j - Len(left) \in DOMAIN more
          BY <1>2, <2>1, <3>1, <3>3
      <4> QED
          BY <1>2, <2>2, <3>1, <3>3, <4>1
    <3> QED
        BY <3>2, <3>3
  <2> QED
      BY <2>3
<1>4. DOMAIN left = DOMAIN calls
    BY <1>1
<1>5. \A i \in DOMAIN left : /\ left[i].base # NoStamp => left[i].base <= stamp
                            /\ SentKeeps(left[i], stamp, text)
    BY <1>1, <1>4 DEF WindowKeeps, StampsPast, SentKeeps
<1>6. Ask("release").base = NoStamp /\ SentKeeps(Ask("release"), stamp, text)
    BY AskFacts DEF SentKeeps
<1>7. ~Opened(f) /\ f.phase # "new"
    BY DEF Opened
<1> QED
    BY <1>3, <1>5, <1>6, <1>7 DEF WindowKeeps, StampsPast, left

\* A window sends a call.
LEMMA PutKeepsText ==
    ASSUME NEW e \in Editor, NEW calls \in Seq(Call), NEW stamp \in Nat, NEW text,
           WindowKeeps(e, calls, stamp, text), Opened(e), NEW f, Opened(f),
           f.base = e.base, f.text = e.text, ShownKeeps(f, stamp, text),
           NEW c \in Call, c.base \in {e.base, NoStamp}, c.state = "sent",
           IsSave(c) => c.text \subseteq f.text,
           SentKeeps(c, stamp, text)
    PROVE  WindowKeeps(f, calls \o <<c>>, stamp, text)
<1> DEFINE new == calls \o <<c>>
<1>1. ASSUME NEW j \in DOMAIN new PROVE (\E k \in DOMAIN calls : new[j] = calls[k]) \/ new[j] = c
  <2>1. new = Append(calls, c)
      OBVIOUS
  <2> QED
      BY <2>1
<1> HIDE DEF new
<1>2. StampsPast(f, new, stamp)
    BY <1>1 DEF WindowKeeps, StampsPast
<1>3. \A j \in DOMAIN new : SentKeeps(new[j], stamp, text)
    BY <1>1 DEF WindowKeeps
<1>4. ASSUME NEW j \in DOMAIN new PROVE CallKeeps(f, new[j], stamp, text)
  <2>1. CASE new[j] = c
      BY <2>1 DEF CallKeeps, SaveKeeps, LoadKeeps
  <2>2. ASSUME NEW k \in DOMAIN calls, new[j] = calls[k] PROVE CallKeeps(f, new[j], stamp, text)
      BY <2>2 DEF WindowKeeps, CallKeeps, SaveKeeps, LoadKeeps
  <2> QED
      BY <1>1, <2>1, <2>2
<1>5. f.phase # "new"
    BY DEF Opened
<1> QED
    BY <1>2, <1>3, <1>4, <1>5 DEF WindowKeeps, new

\* An editor that keeps its stamp and shows no less.
LEMMA EditKeepsText ==
    ASSUME NEW e \in Editor, NEW calls \in Seq(Call), NEW stamp \in Nat, NEW text,
           WindowKeeps(e, calls, stamp, text), Opened(e), NEW f, f.phase = e.phase,
           f.base = e.base, e.text \subseteq f.text, ShownKeeps(f, stamp, text)
    PROVE  WindowKeeps(f, calls, stamp, text)
<1>1. Opened(f) /\ f.phase # "new" /\ StampsPast(f, calls, stamp)
    BY DEF Opened, WindowKeeps, StampsPast
<1>2. ASSUME NEW i \in DOMAIN calls PROVE CallKeeps(f, calls[i], stamp, text)
    BY DEF WindowKeeps, CallKeeps, SaveKeeps, LoadKeeps
<1> QED
    BY <1>1, <1>2 DEF WindowKeeps

LEMMA OthersLeaveCalls ==
    ASSUME WindowsTyped, NEW v \in Windows, Editors(v), NEW w \in Windows, w # v
    PROVE  net'[w] = net[w]
<1>1. UNCHANGED net \/ \E calls : net' = [net EXCEPT ![v] = calls]
  <2>1. ASSUME NEW i, Serve(v, i) \/ Handle(v, i) \/ Lose(v, i)
        PROVE  \E calls : net' = [net EXCEPT ![v] = calls]
      BY <2>1 DEF Serve, Acquire, Release, Fetch, SaveContent, Handle, Loaded, BeatAnswered,
            TakenOver, Reloaded, Saved, Unread, Lose, Answer, Reply, Finish
  <2> QED
      BY <2>1, ZenonT(60) DEF Editors, OpenWindow, Beat, TimerFires, Reload, Close, Vanish, Type, Save, Put
<1> QED
    BY <1>1, SMTT(40) DEF WindowsTyped

LEMMA OthersLeaveEditor ==
    ASSUME WindowsTyped, NEW v \in Windows, Editors(v), NEW w \in Windows, w # v
    PROVE  win'[w] = win[w]
<1>same. win' = win => win' = [win EXCEPT ![v] = win[v]]
    BY DEF WindowsTyped
<1>1. \E e : win' = [win EXCEPT ![v] = e]
  <2>1. ASSUME NEW i, Serve(v, i) \/ Handle(v, i) \/ Lose(v, i)
        PROVE  \E e : win' = [win EXCEPT ![v] = e]
    <3>1. CASE Serve(v, i) \/ Unread(v, i) \/ Lose(v, i)
        BY <1>same, <3>1 DEF Serve, Acquire, Release, Fetch, SaveContent, Unread, Lose
    <3>2. CASE Loaded(v, i) \/ TakenOver(v, i)
        BY <3>2 DEF Loaded, TakenOver
    <3>3. CASE BeatAnswered(v, i)
        BY <1>same, <3>3 DEF BeatAnswered, WindowsTyped
    <3>4. CASE Reloaded(v, i)
        BY <1>same, <3>4 DEF Reloaded
    <3>5. CASE Saved(v, i)
        BY <3>5 DEF Saved, WindowsTyped
    <3> QED
        BY <2>1, <3>1, <3>2, <3>3, <3>4, <3>5 DEF Handle
  <2>2. CASE Beat(v) \/ Reload(v)
      BY <1>same, <2>2 DEF Beat, Reload
  <2>3. CASE OpenWindow(v) \/ Close(v) \/ Vanish(v)
      BY <2>3 DEF OpenWindow, Close, Vanish
  <2>4. CASE TimerFires(v) \/ (\E e \in Edits : Type(v, e)) \/ (\E f \in BOOLEAN : Save(v, f))
      BY <2>4 DEF TimerFires, Type, Save
  <2> QED
      BY <2>1, <2>2, <2>3, <2>4 DEF Editors
<1> QED
    BY <1>1, SMTT(40) DEF WindowsTyped

LEMMA AppendNothing ==
    ASSUME NEW s \in Seq(Call)
    PROVE  s \o <<>> = s
    OBVIOUS

LEMMA OpenIsOpened == \A w \in Windows : Open(w) <=> Opened(win[w])
    BY DEF Open, Opened

TextTyped == WindowsTyped /\ DocTyped

LEMMA Here ==
    ASSUME NEW w \in Windows, TextTyped, TextInv(w)
    PROVE  /\ win[w] \in Editor /\ net[w] \in Seq(Call) /\ doc.stamp \in Nat
           /\ WindowKeeps(win[w], net[w], doc.stamp, doc.text)
           /\ Open(w) <=> Opened(win[w])
           /\ Opened(win[w]) => ShownKeeps(win[w], doc.stamp, doc.text)
    BY CallsTyped, StampIsNat, OpenIsOpened DEF TextTyped, DocTyped, TextInv, WindowKeeps

LEMMA OpenWindowKeepsText ==
    ASSUME NEW w \in Windows, TextTyped, TextInv(w), OpenWindow(w)
    PROVE  TextInv(w)'
<1>1. PICK s \in 0..doc.stamp :
        win' = [win EXCEPT ![w] = [NewEditor EXCEPT !.phase = "blank", !.base = s,
                                                    !.size = SizeOf[doc.text]]]
    BY DEF OpenWindow
<1> DEFINE f == [NewEditor EXCEPT !.phase = "blank", !.base = s, !.size = SizeOf[doc.text]]
           calls == <<Ask("load"), Ask("beat")>>
<1>2. f.phase = "blank" /\ f.base = s /\ f.text = f.saved
    BY DEF NewEditor
<1>3. s <= doc.stamp
    BY Here
<1>4. net[w] = <<>> /\ <<>> \o calls = calls
    BY Here DEF OpenWindow, WindowKeeps
<1>5. DOMAIN calls = {1, 2} /\ calls[1] = Ask("load") /\ calls[2] = Ask("beat")
    OBVIOUS
<1>6. \A i \in DOMAIN calls : /\ calls[i].base = NoStamp /\ calls[i].state = "sent"
                             /\ ~IsSave(calls[i]) /\ calls[i].kind # "save"
    BY <1>5, AskFacts DEF IsSave
<1>7. Steps(w, f, calls)
    BY <1>1, <1>4 DEF Steps, OpenWindow, Put
<1> HIDE DEF f, calls
<1>8. WindowKeeps(f, calls, doc.stamp, doc.text)
    BY <1>2, <1>3, <1>6
       DEF WindowKeeps, StampsPast, SentKeeps, ShownKeeps, CallKeeps, LoadKeeps, Opened
<1> QED
    BY <1>7, <1>8, StepKeepsText DEF OpenWindow, server, TextTyped

\* What is sent to save.
LEMMA SaveCallKeeps ==
    ASSUME NEW w \in Windows, TextTyped, TextInv(w), Open(w), NEW force \in BOOLEAN,
           force \/ Changed(w)
    PROVE  /\ SaveCall(w, force).state = "sent"
           /\ SaveCall(w, force).text = win[w].text
           /\ SaveCall(w, force).base \in {win[w].base, NoStamp}
           /\ SentKeeps(SaveCall(w, force), doc.stamp, doc.text)
    BY Here DEF SaveCall, SentKeeps, ShownKeeps, Changed

LEMMA SavingKeepsText ==
    ASSUME NEW w \in Windows, TextTyped, TextInv(w), UNCHANGED doc, Open(w), Room(w),
           NEW force \in BOOLEAN, force \/ Changed(w), Put(w, <<SaveCall(w, force)>>),
           NEW f, win' = [win EXCEPT ![w] = f], f.phase = win[w].phase,
           f.base = win[w].base, f.text = win[w].text, f.saved = win[w].saved
    PROVE  TextInv(w)'
<1> DEFINE c == SaveCall(w, force)
<1>2. Opened(f) /\ ShownKeeps(f, doc.stamp, doc.text)
    BY Here DEF Opened, ShownKeeps
<1>3. /\ c.state = "sent" /\ c.text = win[w].text /\ c.base \in {win[w].base, NoStamp}
      /\ c \in Call /\ SentKeeps(c, doc.stamp, doc.text)
    BY SaveCallKeeps, SaveCallTyped DEF TextTyped
<1> HIDE DEF c
<1>4. WindowKeeps(f, net[w] \o <<c>>, doc.stamp, doc.text)
    BY <1>2, <1>3, Here, PutKeepsText
<1>5. Steps(w, f, net[w] \o <<c>>)
    BY DEF Steps, Put, c
<1> QED
    BY <1>4, <1>5, StepKeepsText DEF TextTyped

LEMMA AskingKeepsText ==
    ASSUME NEW w \in Windows, TextTyped, TextInv(w), UNCHANGED <<doc, win>>,
           Open(w), Room(w), NEW kind \in {"beat", "reload"}, Put(w, <<Ask(kind)>>)
    PROVE  TextInv(w)'
<1>2. Ask(kind) \in Call /\ SentKeeps(Ask(kind), doc.stamp, doc.text) /\ ~IsSave(Ask(kind))
    BY AskFacts, AskIsCall DEF SentKeeps, IsSave
<1>3. WindowKeeps(win[w], net[w] \o <<Ask(kind)>>, doc.stamp, doc.text)
    BY <1>2, Here, PutKeepsText, AskFacts
<1>4. Steps(w, win[w], net[w] \o <<Ask(kind)>>)
    BY DEF Steps, Put, TextTyped, WindowsTyped
<1> QED
    BY <1>3, <1>4, StepKeepsText DEF TextTyped

\* The editor changes, its calls do not.
LEMMA EditingKeepsText ==
    ASSUME NEW w \in Windows, TextTyped, TextInv(w), UNCHANGED <<doc, net>>, Open(w),
           NEW f, win' = [win EXCEPT ![w] = f], f.phase = win[w].phase,
           f.base = win[w].base, win[w].text \subseteq f.text, f.saved = win[w].saved,
           f.phase = "ready" \/ f.text = win[w].text
    PROVE  TextInv(w)'
<1>1. ShownKeeps(f, doc.stamp, doc.text)
  <2>1. ShownKeeps(win[w], doc.stamp, doc.text)
      BY Here
  <2>2. doc.text \subseteq win[w].text => doc.text \subseteq f.text
      OBVIOUS
  <2> QED
      BY <2>1, <2>2 DEF ShownKeeps
<1>2. WindowKeeps(f, net[w], doc.stamp, doc.text)
    BY <1>1, Here, EditKeepsText
<1>3. Steps(w, f, net[w])
    BY DEF Steps, TextTyped, WindowsTyped
<1> QED
    BY <1>2, <1>3, StepKeepsText DEF TextTyped

LEMMA GesturesKeepText ==
    ASSUME NEW w \in Windows, TextTyped, TextInv(w),
           \/ Beat(w) \/ TimerFires(w) \/ Reload(w) \/ Close(w) \/ Vanish(w)
           \/ \E e \in Edits : Type(w, e)
           \/ \E force \in BOOLEAN : Save(w, force)
    PROVE  TextInv(w)'
<1>typed. win[w] \in Editor /\ win \in [Windows -> Editor]
    BY Here DEF TextTyped, WindowsTyped
<1>1. CASE Beat(w) \/ Reload(w)
    BY <1>1, AskingKeepsText DEF Beat, Reload, server
<1>2. CASE TimerFires(w)
  <2> DEFINE f == [win[w] EXCEPT !.timer = "off", !.saving = TRUE]
             g == [win[w] EXCEPT !.timer = "off"]
  <2>1. /\ f.phase = win[w].phase /\ f.base = win[w].base /\ f.text = win[w].text
        /\ f.saved = win[w].saved
        /\ g.phase = win[w].phase /\ g.base = win[w].base /\ g.text = win[w].text
        /\ g.saved = win[w].saved
      BY <1>typed DEF Editor
  <2>2. \/ /\ Put(w, <<SaveCall(w, FALSE)>>) /\ Changed(w)
           /\ win' = [win EXCEPT ![w] = f]
        \/ UNCHANGED net /\ win' = [win EXCEPT ![w] = g]
      BY <1>2, <1>typed DEF TimerFires
  <2>3. Open(w) /\ Room(w) /\ UNCHANGED doc
      BY <1>2 DEF TimerFires, server
  <2> HIDE DEF f, g
  <2> QED
      BY <2>1, <2>2, <2>3, SavingKeepsText, EditingKeepsText
<1>3. CASE Close(w) \/ Vanish(w)
  <2> DEFINE f == [NewEditor EXCEPT !.phase = "closed"]
  <2>1. f.phase = "closed" /\ f.base = NoStamp
      BY DEF NewEditor
  <2>2. PICK more \in {<<>>, <<Ask("release")>>} : Steps(w, f, Leftover(net[w]) \o more)
    <3>1. Leftover(net[w]) \o <<>> = Leftover(net[w])
        BY Here, LeftoverFacts, AppendNothing
    <3> QED
        BY <1>3, <3>1 DEF Close, Vanish, Steps
  <2> HIDE DEF f
  <2>3. WindowKeeps(f, Leftover(net[w]) \o more, doc.stamp, doc.text)
      BY <2>1, Here, GoneKeepsText
  <2> QED
      BY <1>3, <2>2, <2>3, StepKeepsText DEF Close, Vanish, server, TextTyped
<1>4. ASSUME NEW e \in Edits, Type(w, e) PROVE TextInv(w)'
  <2>1. PICK d, t :
          win' = [win EXCEPT ![w].text = win[w].text \cup {e}, ![w].dirty = d, ![w].timer = t]
      BY <1>4 DEF Type
  <2> DEFINE f == [win[w] EXCEPT !.text = win[w].text \cup {e}, !.dirty = d, !.timer = t]
  <2>2. win' = [win EXCEPT ![w] = f]
      BY <2>1, <1>typed
  <2>3. /\ f.phase = win[w].phase /\ f.base = win[w].base
        /\ f.text = win[w].text \cup {e} /\ f.saved = win[w].saved
      BY <1>typed DEF Editor
  <2>4. win[w].phase = "ready" /\ Open(w) /\ UNCHANGED <<doc, net>>
      BY <1>4 DEF Type, Open, server
  <2> HIDE DEF f
  <2> QED
      BY <2>2, <2>3, <2>4, EditingKeepsText
<1>5. ASSUME NEW force \in BOOLEAN, Save(w, force) PROVE TextInv(w)'
  <2> DEFINE f == [win[w] EXCEPT !.saving = TRUE]
  <2>1. /\ f.phase = win[w].phase /\ f.base = win[w].base /\ f.text = win[w].text
        /\ f.saved = win[w].saved
      BY <1>typed DEF Editor
  <2>2. win' = [win EXCEPT ![w] = f] /\ Put(w, <<SaveCall(w, force)>>) /\ UNCHANGED doc
        /\ Open(w) /\ Room(w) /\ (force \/ Changed(w))
      BY <1>5, <1>typed DEF Save, server
  <2> HIDE DEF f
  <2> QED
      BY <2>1, <2>2, SavingKeepsText
<1> QED
    BY <1>1, <1>2, <1>3, <1>4, <1>5

-----------------------------------------------------------------------------

LEMMA AnswerKeepsText ==
    ASSUME NEW w \in Windows, TextTyped, TextInv(w), UNCHANGED <<doc, win>>,
           NEW i \in DOMAIN net[w], NEW c \in Call, Answer(w, i, c),
           c.base \in {net[w][i].base, NoStamp},
           c.kind = "save" => c.state # "sent",
           IsSave(c) => IsSave(net[w][i]) /\ c.text = net[w][i].text /\ c.state # "ok",
           c.kind = "load" /\ c.state = "ok" => doc.text \subseteq c.text
    PROVE  TextInv(w)'
<1>1. WindowKeeps(win[w], [net[w] EXCEPT ![i] = c], doc.stamp, doc.text)
    BY Here, ReplyKeepsText
<1>2. Steps(w, win[w], [net[w] EXCEPT ![i] = c])
    BY DEF Steps, Answer, TextTyped, WindowsTyped
<1> QED
    BY <1>1, <1>2, StepKeepsText DEF TextTyped

LEMMA RefusalKeepsText ==
    ASSUME NEW w \in Windows, TextTyped, TextInv(w), UNCHANGED <<doc, win>>,
           NEW i \in DOMAIN net[w], NEW s \in {"ok", "denied", "missing", "failed"},
           Reply(w, i, s), IsSave(net[w][i]) => s # "ok", net[w][i].kind = "load" => s # "ok"
    PROVE  TextInv(w)'
<1> DEFINE c == [net[w][i] EXCEPT !.state = s]
<1>1. /\ c \in Call /\ c.kind = net[w][i].kind /\ c.text = net[w][i].text
      /\ c.base = net[w][i].base /\ c.state = s
    BY CallsTyped DEF Call, TextTyped
<1>2. Answer(w, i, c)
    BY DEF Reply
<1> HIDE DEF c
<1> QED
    BY <1>1, <1>2, AnswerKeepsText DEF IsSave

LEMMA FinishedKeepsText ==
    ASSUME NEW w \in Windows, TextTyped, TextInv(w), UNCHANGED doc, NEW i \in DOMAIN net[w],
           NEW more \in {<<>>, <<Ask("load")>>}, Finish(w, i, more),
           NEW f \in Editor, win' = [win EXCEPT ![w] = f],
           WindowKeeps(f, RemoveAt(net[w], i) \o more, doc.stamp, doc.text)
    PROVE  TextInv(w)'
<1>1. Steps(w, f, RemoveAt(net[w], i) \o more)
    BY DEF Steps, Finish
<1> QED
    BY <1>1, StepKeepsText DEF TextTyped

LEMMA DroppedKeepsText ==
    ASSUME NEW w \in Windows, TextTyped, TextInv(w), UNCHANGED <<doc, win>>,
           NEW i \in DOMAIN net[w], Finish(w, i, <<>>)
    PROVE  TextInv(w)'
<1>1. WindowKeeps(win[w], RemoveAt(net[w], i) \o <<>>, doc.stamp, doc.text)
    BY Here, DropKeepsText
<1>2. win' = [win EXCEPT ![w] = win[w]] /\ win[w] \in Editor
    BY Here DEF TextTyped, WindowsTyped
<1> QED
    BY <1>1, <1>2, FinishedKeepsText

\* save_content stores the text and hands out its stamp.
LEMMA StoredKeepsText ==
    ASSUME NEW w \in Windows, TextTyped, TextInv(w), UNCHANGED win, NEW i \in DOMAIN net[w],
           IsSave(net[w][i]),
           doc' = [doc EXCEPT !.stamp = doc.stamp + 1, !.text = net[w][i].text],
           Answer(w, i, [net[w][i] EXCEPT !.state = "ok", !.base = doc.stamp + 1])
    PROVE  TextInv(w)'
<1> DEFINE c == [net[w][i] EXCEPT !.state = "ok", !.base = doc.stamp + 1]
           new == [net[w] EXCEPT ![i] = c]
<1>1. doc'.stamp = doc.stamp + 1 /\ doc'.text = net[w][i].text
    BY DEF TextTyped, DocTyped
<1>2. /\ c.kind = net[w][i].kind /\ c.text = net[w][i].text
      /\ c.state = "ok" /\ c.base = doc.stamp + 1
    BY CallsTyped DEF Call, TextTyped
<1>3. WindowKeeps(win[w], net[w], doc.stamp + 1, net[w][i].text)
    BY Here, OthersFallBehind
<1>4. /\ DOMAIN new = DOMAIN net[w] /\ Len(new) = Len(net[w]) /\ new[i] = c
      /\ \A j \in DOMAIN net[w] : j # i => new[j] = net[w][j]
    BY Here
<1>5. net' = [net EXCEPT ![w] = new]
    BY DEF Answer
<1> HIDE DEF c, new
<1>6. WindowKeeps(win[w], new, doc.stamp + 1, net[w][i].text)
  <2>1. IsSave(c) /\ ~(c.state = "sent") /\ c.base <= doc.stamp + 1
      BY <1>2, Here DEF IsSave
  <2>2. StampsPast(win[w], new, doc.stamp + 1)
      BY <1>3, <1>4, <2>1 DEF WindowKeeps, StampsPast
  <2>3. \A j \in DOMAIN new : SentKeeps(new[j], doc.stamp + 1, net[w][i].text)
      BY <1>3, <1>4, <2>1 DEF WindowKeeps, SentKeeps
  <2>4. win[w].phase # "new"
      BY <1>3 DEF WindowKeeps
  <2>5. ASSUME Opened(win[w]), NEW j \in DOMAIN new
        PROVE  CallKeeps(win[w], new[j], doc.stamp + 1, net[w][i].text)
    <3>1. CallKeeps(win[w], net[w][j], doc.stamp + 1, net[w][i].text)
        BY <1>3, <1>4, <2>5 DEF WindowKeeps
    <3>2. CASE j # i
        BY <1>4, <3>1, <3>2 DEF CallKeeps, SaveKeeps
    <3>3. CASE j = i
        BY <1>2, <1>4, <2>1, <3>1, <3>3 DEF CallKeeps, SaveKeeps
    <3> QED
        BY <3>2, <3>3
  <2>6. ShownKeeps(win[w], doc.stamp + 1, net[w][i].text) \/ ~Opened(win[w])
      BY <1>3 DEF WindowKeeps
  <2> QED
      BY <2>2, <2>3, <2>4, <2>5, <2>6 DEF WindowKeeps
<1>7. win'[w] = win[w] /\ net'[w] = new
    BY <1>5 DEF TextTyped, WindowsTyped
<1> QED
    BY <1>1, <1>6, <1>7 DEF TextInv

LEMMA ServeKeepsText ==
    ASSUME NEW w \in Windows, TextTyped, TextInv(w), NEW i \in DOMAIN net[w], Serve(w, i)
    PROVE  TextInv(w)'
<1>call. net[w][i] \in Call /\ doc.text \in Text
    BY CallsTyped DEF TextTyped, DocTyped
<1>1. CASE Acquire(w, i)
  <2>1. PICK s \in {"ok", "denied", "missing"} : Reply(w, i, s)
      BY <1>1 DEF Acquire
  <2> QED
      BY <1>1, <2>1, RefusalKeepsText DEF Acquire, IsSave
<1>2. CASE Release(w, i)
  <2>1. RemoveAt(net[w], i) \o <<>> = RemoveAt(net[w], i)
      BY Here, RemoveAtFacts, AppendNothing
  <2>2. Finish(w, i, <<>>)
      BY <1>2, <2>1 DEF Release, Finish
  <2> QED
      BY <1>2, <2>2, DroppedKeepsText DEF Release
<1>3. CASE Fetch(w, i)
  <2> DEFINE c == [net[w][i] EXCEPT !.state = "ok", !.text = doc.text]
  <2>1. /\ c \in Call /\ c.kind = net[w][i].kind /\ c.text = doc.text
        /\ c.base = net[w][i].base /\ c.state = "ok"
      BY <1>call DEF Call
  <2>2. CASE Answer(w, i, c)
    <3> HIDE DEF c
    <3> QED
        BY <1>3, <2>1, <2>2, AnswerKeepsText DEF Fetch, IsSave, server
  <2>3. CASE Reply(w, i, "failed")
      BY <1>3, <2>3, RefusalKeepsText DEF Fetch, server
  <2> QED
      BY <1>3, <2>2, <2>3 DEF Fetch
<1>4. CASE SaveContent(w, i)
  <2>1. ASSUME NEW s \in {"failed", "denied"}, Reply(w, i, s), UNCHANGED doc
        PROVE  TextInv(w)'
      BY <1>4, <2>1, RefusalKeepsText DEF SaveContent
  <2> QED
      BY <1>4, <2>1, StoredKeepsText DEF SaveContent
<1> QED
    BY <1>1, <1>2, <1>3, <1>4 DEF Serve

LEMMA MoreTyped ==
    ASSUME NEW more \in {<<>>, <<Ask("load")>>}
    PROVE  more \in Seq(Call)
<1>1. <<>> \in Seq(Call) /\ <<Ask("load")>> \in Seq(Call)
    BY AskIsCall
<1> QED
    BY <1>1

\* An answer that changes marks of the editor only, or replaces it by one without a stamp.
LEMMA MarkedKeepsText ==
    ASSUME NEW w \in Windows, Apart(w), TextTyped, TextInv(w), UNCHANGED doc, NEW i \in DOMAIN net[w],
           Open(w), NEW more \in {<<>>, <<Ask("load")>>}, Finish(w, i, more),
           NEW f \in Editor, win' = [win EXCEPT ![w] = f], Opened(f),
           \/ f.base = NoStamp /\ net[w][i].kind \notin Quiet
           \/ /\ f.base = win[w].base /\ f.text = win[w].text /\ f.saved = win[w].saved
              /\ f.phase = win[w].phase \/ f.phase = "error"
    PROVE  TextInv(w)'
<1>1. ShownKeeps(f, doc.stamp, doc.text) /\ (f.base # NoStamp => f.base <= doc.stamp)
    BY Here, StampIsNat DEF ShownKeeps, WindowKeeps, StampsPast
<1>2. more \in Seq(Call)
    BY MoreTyped
<1>3. f.base \in {win[w].base, NoStamp}
    OBVIOUS
<1>4. SavesAlone(net[w])
    BY DEF Apart
<1>5. f.text = win[w].text \/ net[w][i].kind \notin Quiet
    OBVIOUS
<1>6. WindowKeeps(f, RemoveAt(net[w], i) \o more, doc.stamp, doc.text)
    BY <1>1, <1>2, <1>3, <1>4, <1>5, Here, FinishKeepsText
<1> QED
    BY <1>6, FinishedKeepsText

LEMMA LoadedKeepsText ==
    ASSUME NEW w \in Windows, Apart(w), TextTyped, TextInv(w), NEW i \in DOMAIN net[w], Loaded(w, i)
    PROVE  TextInv(w)'
<1> DEFINE c == net[w][i]
           e == win[w]
           f == [Show(e, c.text) EXCEPT !.phase = IF e.phase = "error" THEN "error" ELSE "ready"]
           g == [e EXCEPT !.phase = "error"]
<1>1. /\ Open(w) /\ c.kind = "load" /\ ~IsSave(c) /\ UNCHANGED doc /\ Finish(w, i, <<>>)
      /\ IF c.state = "ok" THEN win' = [win EXCEPT ![w] = f] ELSE win' = [win EXCEPT ![w] = g]
    BY DEF Loaded, Arrived, IsSave, server
<1>2. c \in Call /\ e \in Editor
    BY CallsTyped DEF TextTyped
<1>3. CASE c.state # "ok"
  <2>1. /\ g \in Editor /\ g.phase = "error" /\ g.base = e.base /\ g.text = e.text
        /\ g.saved = e.saved
      BY <1>2 DEF Editor
  <2> HIDE DEF g
  <2> QED
      BY <1>1, <1>3, <2>1, MarkedKeepsText DEF Opened
<1>4. CASE c.state = "ok"
  <2>1. /\ f \in Editor /\ f.phase \in {"error", "ready"} /\ f.base = e.base
        /\ f.text = c.text
      BY <1>2 DEF Editor, Call, Show
  <2> HIDE DEF f
  <2>2. LoadKeeps(e, c, doc.stamp, doc.text)
      BY <1>1, Here DEF WindowKeeps, CallKeeps
  <2>3. ShownKeeps(f, doc.stamp, doc.text) /\ (f.base # NoStamp => f.base <= doc.stamp)
      BY <1>1, <1>4, <2>1, <2>2, Here DEF LoadKeeps, ShownKeeps, WindowKeeps, StampsPast
  <2>4. <<>> \in Seq(Call) /\ Opened(f)
      BY <2>1 DEF Opened
  <2>5. SavesAlone(net[w]) /\ net[w][i].kind \notin Quiet
      BY <1>1 DEF Apart, Quiet
  <2>6. WindowKeeps(f, RemoveAt(net[w], i) \o <<>>, doc.stamp, doc.text)
      BY <1>1, <2>1, <2>3, <2>4, <2>5, Here, FinishKeepsText
  <2> QED
      BY <1>1, <1>4, <2>1, <2>6, FinishedKeepsText
<1> QED
    BY <1>3, <1>4

LEMMA BeatAnsweredKeepsText ==
    ASSUME NEW w \in Windows, Apart(w), TextTyped, TextInv(w), NEW i \in DOMAIN net[w], BeatAnswered(w, i)
    PROVE  TextInv(w)'
<1>1. Open(w) /\ UNCHANGED doc /\ win[w] \in Editor /\ win \in [Windows -> Editor]
    BY Here DEF BeatAnswered, Arrived, server, TextTyped, WindowsTyped
<1>2. CASE Answer(w, i, Ask("takeover")) /\ UNCHANGED win
    BY <1>1, <1>2, AnswerKeepsText, AskIsCall, AskFacts DEF IsSave
<1>3. CASE /\ Finish(w, i, <<>>)
           /\ \/ win' = [win EXCEPT ![w].lock = "mine"]
              \/ win' = [win EXCEPT ![w].lock = "theirs"]
              \/ win' = [win EXCEPT ![w].gone = TRUE]
              \/ win' = win
  <2>1. PICK f \in Editor :
          /\ win' = [win EXCEPT ![w] = f]
          /\ f.phase = win[w].phase /\ f.base = win[w].base
          /\ f.text = win[w].text /\ f.saved = win[w].saved
    <3> DEFINE Same(f) == /\ f \in Editor /\ f.phase = win[w].phase /\ f.base = win[w].base
                          /\ f.text = win[w].text /\ f.saved = win[w].saved
    <3>1. Same([win[w] EXCEPT !.lock = "mine"]) /\ Same([win[w] EXCEPT !.lock = "theirs"])
          /\ Same([win[w] EXCEPT !.gone = TRUE]) /\ Same(win[w])
        BY <1>1 DEF Editor
    <3>2. \/ win' = [win EXCEPT ![w] = [win[w] EXCEPT !.lock = "mine"]]
          \/ win' = [win EXCEPT ![w] = [win[w] EXCEPT !.lock = "theirs"]]
          \/ win' = [win EXCEPT ![w] = [win[w] EXCEPT !.gone = TRUE]]
          \/ win' = [win EXCEPT ![w] = win[w]]
        BY <1>1, <1>3
    <3>3. \E f : Same(f) /\ win' = [win EXCEPT ![w] = f]
      <4> HIDE DEF Same
      <4> QED
          BY <3>1, <3>2
    <3> QED
        BY <3>3
  <2>2. Opened(f)
      BY <1>1, <2>1, Here DEF Opened
  <2> QED
      BY <1>1, <1>3, <2>1, <2>2, MarkedKeepsText
<1>4. CASE Steps(w, [NewEditor EXCEPT !.phase = "closed", !.gone = TRUE], Leftover(net[w]))
  <2> DEFINE f == [NewEditor EXCEPT !.phase = "closed", !.gone = TRUE]
  <2>1. f.phase = "closed" /\ f.base = NoStamp
      BY DEF NewEditor
  <2>2. Leftover(net[w]) \o <<>> = Leftover(net[w])
      BY Here, LeftoverFacts, AppendNothing
  <2> HIDE DEF f
  <2>3. WindowKeeps(f, Leftover(net[w]), doc.stamp, doc.text)
      BY <2>1, <2>2, Here, GoneKeepsText
  <2> QED
      BY <1>1, <1>4, <2>3, StepKeepsText DEF TextTyped, f
<1> QED
    BY <1>2, <1>3, <1>4 DEF BeatAnswered, Steps

LEMMA FetchedKeepsText ==
    ASSUME NEW w \in Windows, Apart(w), TextTyped, TextInv(w), NEW i \in DOMAIN net[w],
           TakenOver(w, i) \/ Reloaded(w, i)
    PROVE  TextInv(w)'
<1> DEFINE e == win[w]
           c == net[w][i]
           f == [Show(e, c.text) EXCEPT
                   !.phase = IF e.phase = "error" THEN "error" ELSE "ready",
                   !.base = NoStamp, !.dirty = FALSE, !.conflict = FALSE, !.lock = "mine"]
           g == [Show(e, c.text) EXCEPT !.base = NoStamp, !.dirty = FALSE, !.conflict = FALSE]
           h == [e EXCEPT !.lock = "mine"]
<1>1. c \in Call /\ e \in Editor /\ Opened(e) /\ Open(w) /\ UNCHANGED doc /\ Finish(w, i, <<>>)
    BY Here, CallsTyped DEF TextTyped, TakenOver, Reloaded, Arrived, server
<1>2. \/ win' = [win EXCEPT ![w] = f] \/ win' = [win EXCEPT ![w] = g]
      \/ win' = [win EXCEPT ![w] = h] \/ win' = [win EXCEPT ![w] = e]
    BY DEF TakenOver, Reloaded, TextTyped, WindowsTyped
<1>3. /\ f \in Editor /\ f.phase \in {"error", "ready"} /\ f.base = NoStamp
      /\ g \in Editor /\ g.phase = e.phase /\ g.base = NoStamp
    BY <1>1 DEF Editor, Call, Show
<1>4. /\ h \in Editor /\ h.phase = e.phase /\ h.base = e.base /\ h.text = e.text
      /\ h.saved = e.saved
    BY <1>1 DEF Editor
<1> HIDE DEF f, g, h
<1>5. Opened(f) /\ Opened(g) /\ Opened(h)
    BY <1>1, <1>3, <1>4 DEF Opened
<1>6. net[w][i].kind \notin Quiet
    BY DEF TakenOver, Reloaded, Arrived, Quiet
<1> QED
    BY <1>1, <1>2, <1>3, <1>4, <1>5, <1>6, MarkedKeepsText

LEMMA SavedKeepsText ==
    ASSUME NEW w \in Windows, Apart(w), TextTyped, TextInv(w), NEW i \in DOMAIN net[w], Saved(w, i)
    PROVE  TextInv(w)'
<1> DEFINE e == win[w]
           c == net[w][i]
           f == [e EXCEPT !.base = c.base, !.saved = c.text, !.dirty = e.text # c.text,
                          !.conflict = FALSE, !.saving = FALSE, !.size = SizeOf[c.text]]
           g == [e EXCEPT !.conflict = TRUE, !.saving = FALSE]
           h == [e EXCEPT !.saving = FALSE]
<1>1. /\ c \in Call /\ e \in Editor /\ Opened(e) /\ Open(w) /\ UNCHANGED doc /\ IsSave(c)
      /\ SizeOf[c.text] \in Nat
    BY Here, CallsTyped, SizesTyped DEF TextTyped, Saved, Arrived, server, IsSave, Call
<1>2. PICK more \in {<<>>, <<Ask("load")>>} : Finish(w, i, more)
    BY DEF Saved
<1>3. \/ c.state = "ok" /\ win' = [win EXCEPT ![w] = f]
      \/ win' = [win EXCEPT ![w] = g]
      \/ win' = [win EXCEPT ![w] = h]
    BY DEF Saved, TextTyped, WindowsTyped
<1>4. f \in Editor /\ f.phase = e.phase /\ f.base = c.base /\ f.text = e.text
    BY <1>1 DEF Editor, Call
<1>5. /\ g \in Editor /\ g.phase = e.phase /\ g.base = e.base /\ g.text = e.text
      /\ g.saved = e.saved
      /\ h \in Editor /\ h.phase = e.phase /\ h.base = e.base /\ h.text = e.text
      /\ h.saved = e.saved
    BY <1>1 DEF Editor
<1> HIDE DEF f, g, h
<1>6. Opened(f) /\ Opened(g) /\ Opened(h)
    BY <1>1, <1>4, <1>5 DEF Opened
<1>7. CASE win' = [win EXCEPT ![w] = g] \/ win' = [win EXCEPT ![w] = h]
  <2>1. ASSUME NEW k \in Editor, win' = [win EXCEPT ![w] = k], Opened(k), k.base = e.base,
               k.text = e.text, k.saved = e.saved, k.phase = e.phase
        PROVE  TextInv(w)'
      BY <1>1, <1>2, <2>1, MarkedKeepsText
  <2> QED
      BY <1>5, <1>6, <1>7, <2>1
<1>8. CASE c.state = "ok" /\ win' = [win EXCEPT ![w] = f]
  <2>1. SaveKeeps(e, c, doc.stamp, doc.text)
      BY <1>1, Here DEF WindowKeeps, CallKeeps
  <2>2. ShownKeeps(f, doc.stamp, doc.text)
      BY <1>4, <1>8, <2>1 DEF SaveKeeps, ShownKeeps
  <2>3. f.base # NoStamp => f.base <= doc.stamp
      BY <1>4, Here DEF WindowKeeps, StampsPast
  <2>4. more \in Seq(Call)
      BY MoreTyped
  <2>5. SavesAlone(net[w]) /\ f.text = e.text
      BY <1>1, <1>4 DEF Apart
  <2>6. WindowKeeps(f, RemoveAt(net[w], i) \o more, doc.stamp, doc.text)
      BY <1>1, <1>4, <1>6, <2>2, <2>3, <2>4, <2>5, Here, FinishKeepsText
  <2> QED
      BY <1>1, <1>2, <1>4, <1>8, <2>6, FinishedKeepsText
<1> QED
    BY <1>3, <1>7, <1>8

\* The other windows may change the row only, and then the stamps of this one are old.
LEMMA OtherKeepsText ==
    ASSUME NEW w \in Windows, TextTyped, TextInv(w), NEW v \in Windows, v # w, Editors(v)
    PROVE  TextInv(w)'
<1>1. net'[w] = net[w]
    BY OthersLeaveCalls DEF TextTyped
<1>2. win'[w] = win[w]
    BY OthersLeaveEditor DEF TextTyped
<1>3. CASE UNCHANGED doc
    BY <1>1, <1>2, <1>3 DEF TextInv
<1>4. ASSUME NEW i \in DOMAIN net[v], SaveContent(v, i) PROVE TextInv(w)'
  <2>1. CASE doc' = [doc EXCEPT !.stamp = doc.stamp + 1, !.text = net[v][i].text]
    <3>1. doc'.stamp = doc.stamp + 1
        BY <2>1 DEF TextTyped, DocTyped
    <3>2. WindowKeeps(win[w], net[w], doc.stamp + 1, doc'.text)
        BY Here, OthersFallBehind
    <3> QED
        BY <1>1, <1>2, <3>1, <3>2 DEF TextInv
  <2> QED
      BY <1>3, <1>4, <2>1 DEF SaveContent
<1>5. UNCHANGED doc \/ \E i \in DOMAIN net[v] : SaveContent(v, i)
  <2>1. ASSUME NEW i, Acquire(v, i) \/ Release(v, i) \/ Fetch(v, i) \/ Handle(v, i) \/ Lose(v, i)
        PROVE  UNCHANGED doc
      BY <2>1 DEF Acquire, Release, Fetch, Handle, Loaded, BeatAnswered,
            TakenOver, Reloaded, Saved, Unread, Lose, server
  <2> QED
      BY <2>1, ZenonT(60) DEF Editors, Serve, OpenWindow, Beat, TimerFires, Reload, Close,
            Vanish, Type, Save, server
<1> QED
    BY <1>3, <1>4, <1>5

LEMMA NextKeepsText ==
    ASSUME NEW w \in Windows, Apart(w), TextTyped, TextInv(w), [Next]_vars
    PROVE  TextInv(w)'
<1>1. ASSUME UNCHANGED <<win, net>>, doc'.stamp = doc.stamp, doc'.text = doc.text
      PROVE  TextInv(w)'
    BY <1>1 DEF TextInv
<1>2. ASSUME NEW i \in DOMAIN net[w], Handle(w, i) \/ Lose(w, i)
      PROVE  TextInv(w)'
  <2>1. CASE Unread(w, i) \/ (Lose(w, i) /\ ~Open(w))
      BY <2>1, DroppedKeepsText DEF Unread, Lose, server
  <2>2. CASE Lose(w, i) /\ Open(w)
      BY <2>2, RefusalKeepsText DEF Lose, server
  <2> QED
      BY <1>2, <2>1, <2>2, LoadedKeepsText, BeatAnsweredKeepsText, FetchedKeepsText,
         SavedKeepsText DEF Handle
<1>3. ASSUME Editors(w) PROVE TextInv(w)'
    BY <1>2, <1>3, OpenWindowKeepsText, GesturesKeepText, ServeKeepsText DEF Editors
<1>4. CASE Others
    BY <1>1, <1>4
       DEF Others, Tick, RemoveStale, Trash, Purge, BackfillNode, TextTyped, DocTyped
<1> QED
    BY <1>1, <1>3, <1>4, OtherKeepsText DEF Next, vars

LEMMA InitTextInv ==
    ASSUME Init, NEW w \in Windows
    PROVE  TextInv(w)
<1>2. win[w] = NewEditor /\ net[w] = <<>>
    BY DEF Init
<1>3. NewEditor.base = NoStamp /\ ~Opened(NewEditor)
    BY DEF NewEditor, Opened
<1> QED
    BY <1>2, <1>3 DEF TextInv, WindowKeeps, StampsPast

\* save_content: a save that carries a stamp keeps what the others have saved, for any
\* number of windows, users and edits, any sizes and any loss and reordering of answers, and
\* whatever the other windows do, if its own window makes no other call for the text while a
\* save is under way; it may beat.  That is needed: a reload and a save at once suffice to
\* break it (StampLost.cfg).
THEOREM StampedSavesKeep ==
    ASSUME NEW w \in Windows
    PROVE  Spec /\ []Apart(w) => [][StampedSaveOf(w)]_vars
<1> DEFINE Inv == TextTyped /\ SharedTyped /\ TextInv(w)
<1>1. Init => Inv
    BY InitTyped, InitTextInv DEF TextTyped, SharedTyped
<1>2. Apart(w) /\ Inv /\ [Next]_vars => Inv'
    BY ServerTyped, NextTyped, NextKeepsText DEF TextTyped, SharedTyped
<1>3. ASSUME Inv, NEW i, SavesWith(w, i), SaveContent(w, i)
      PROVE  doc.text \subseteq doc'.text
  <2>1. SentKeeps(net[w][i], doc.stamp, doc.text)
      BY <1>3 DEF SavesWith, TextInv, WindowKeeps
  <2>2. CASE /\ doc' = [doc EXCEPT !.stamp = doc.stamp + 1, !.text = net[w][i].text]
             /\ ~Stale(net[w][i])
    <3>1. net[w][i].base = doc.stamp
        BY <1>3, <2>2 DEF SavesWith, Stale
    <3> QED
        BY <1>3, <2>1, <2>2, <3>1 DEF SentKeeps, SavesWith, TextTyped, DocTyped
  <2>3. CASE UNCHANGED doc
      BY <2>3
  <2> QED
      BY <1>3, <2>2, <2>3 DEF SaveContent
<1>4. Inv /\ [Next]_vars => [StampedSaveOf(w)]_vars
    BY <1>3 DEF StampedSaveOf
<1> HIDE DEF Inv
<1> QED
    BY <1>1, <1>2, <1>4, PTL DEF Spec

-----------------------------------------------------------------------------
\* A document that is gone

NewIsFresh == \A w \in Windows : win[w].phase = "new" => win[w] = NewEditor

LoudKinds == {"beat", "save", "force"}

Quieter(new, old) == Cardinality(Loud(new)) <= Cardinality(Loud(old))

LEMMA LoudIsFinite ==
    ASSUME NEW s \in Seq(Call)
    PROVE  IsFiniteSet(Loud(s)) /\ Cardinality(Loud(s)) \in Nat
<1>1. Loud(s) \subseteq 1..Len(s)
    BY DEF Loud
<1>2. 1 \in Int /\ Len(s) \in Int
    OBVIOUS
<1>3. IsFiniteSet(1..Len(s))
    BY <1>2, FS_Interval
<1> QED
    BY <1>1, <1>3, FS_Subset, FS_CardinalityType

LEMMA SameCalls ==
    ASSUME NEW s \in Seq(Call)
    PROVE  Quieter(s, s)
    BY LoudIsFinite DEF Quieter

\* Calls that keep their places are not more.
LEMMA InPlaceIsQuieter ==
    ASSUME NEW s \in Seq(Call), NEW t \in Seq(Call), Loud(t) \subseteq Loud(s)
    PROVE  Quieter(t, s)
    BY LoudIsFinite, FS_Subset DEF Quieter

LEMMA ReplacedIsQuieter ==
    ASSUME NEW s \in Seq(Call), NEW i \in DOMAIN s, NEW c \in Call,
           c.kind = s[i].kind \/ c.kind \notin LoudKinds
    PROVE  Quieter([s EXCEPT ![i] = c], s)
<1>1. [s EXCEPT ![i] = c] \in Seq(Call)
    OBVIOUS
<1>2. Loud([s EXCEPT ![i] = c]) \subseteq Loud(s)
    BY DEF Loud, LoudKinds
<1> QED
    BY <1>1, <1>2, InPlaceIsQuieter

\* What follows the calls is not loud.
LEMMA AppendedIsQuieter ==
    ASSUME NEW s \in Seq(Call), NEW t \in Seq(Call), Quieter(t, s),
           NEW more \in Seq(Call), \A k \in DOMAIN more : more[k].kind \notin LoudKinds
    PROVE  Quieter(t \o more, s)
<1>1. /\ t \o more \in Seq(Call) /\ Len(t \o more) = Len(t) + Len(more)
      /\ \A j \in 1..(Len(t) + Len(more)) :
           (t \o more)[j] = IF j <= Len(t) THEN t[j] ELSE more[j - Len(t)]
    BY ConcatProperties
<1>2. Len(t) \in Nat /\ Len(more) \in Nat
    OBVIOUS
<1>3. ASSUME NEW j \in Loud(t \o more) PROVE j \in Loud(t)
  <2>1. j \in 1..(Len(t) + Len(more)) /\ (t \o more)[j].kind \in LoudKinds
      BY <1>1 DEF Loud, LoudKinds
  <2>2. CASE j <= Len(t)
      BY <1>1, <1>2, <2>1, <2>2 DEF Loud, LoudKinds
  <2>3. CASE ~(j <= Len(t))
    <3>1. j - Len(t) \in DOMAIN more
        BY <1>2, <2>1, <2>3
    <3> QED
        BY <1>1, <2>1, <2>3, <3>1
  <2> QED
      BY <2>2, <2>3
<1>4. Quieter(t \o more, t)
    BY <1>1, <1>3, InPlaceIsQuieter
<1> QED
  <2>1. /\ Cardinality(Loud(t \o more)) \in Nat /\ Cardinality(Loud(t)) \in Nat
        /\ Cardinality(Loud(s)) \in Nat
      BY <1>1, LoudIsFinite
  <2> QED
      BY <1>4, <2>1 DEF Quieter

LEMMA RemovedIsQuieter ==
    ASSUME NEW s \in Seq(Call), NEW i \in DOMAIN s
    PROVE  Quieter(RemoveAt(s, i), s)
<1> DEFINE rest == RemoveAt(s, i)
           place == [j \in Loud(rest) |-> IF j < i THEN j ELSE j + 1]
<1>1. /\ rest \in Seq(Call) /\ Len(rest) = Len(s) - 1
      /\ \A j \in 1..(Len(s) - 1) : rest[j] = IF j < i THEN s[j] ELSE s[j + 1]
    BY RemoveAtFacts
<1>2. i \in 1..Len(s) /\ Len(s) \in Nat
    OBVIOUS
<1> HIDE DEF rest
<1>3. \A j \in Loud(rest) : j \in 1..(Len(s) - 1) /\ rest[j].kind \in LoudKinds
    BY <1>1 DEF Loud, LoudKinds
<1>4. ASSUME NEW j \in Loud(rest) PROVE place[j] \in Loud(s)
  <2>1. place[j] = IF j < i THEN j ELSE j + 1
      OBVIOUS
  <2>2. place[j] \in 1..Len(s) /\ rest[j] = s[place[j]]
      BY <1>1, <1>2, <1>3, <2>1
  <2> HIDE DEF place
  <2> QED
      BY <1>3, <2>2 DEF Loud, LoudKinds
<1>5. \A j, k \in Loud(rest) : place[j] = place[k] => j = k
    BY <1>2, <1>3
<1>6. place \in Injection(Loud(rest), Loud(s))
    BY <1>4, <1>5 DEF Injection, IsInjective
<1> QED
    BY <1>6, LoudIsFinite, FS_Injection DEF Quieter, rest

\* A window that knows that the document is gone asks for nothing loud.
LEMMA GoneStaysQuiet ==
    ASSUME TextTyped, NewIsFresh, NEW w \in Windows, win[w].gone, Editors(w)
    PROVE  Quieter(net'[w], net[w])
<1>typed. win[w] \in Editor /\ net[w] \in Seq(Call) /\ net \in [Windows -> Seq(Call)]
    BY CallsTyped DEF TextTyped, WindowsTyped
<1>old. UNCHANGED net => Quieter(net'[w], net[w])
    BY <1>typed, SameCalls
<1>0. ~OpenWindow(w)
  <2>1. ~NewEditor.gone
      BY DEF NewEditor
  <2> QED
      BY <2>1 DEF OpenWindow, NewIsFresh
<1>1. ~Beat(w) /\ (\A e \in Edits : ~Type(w, e)) /\ (\A force \in BOOLEAN : ~Save(w, force))
    BY DEF Beat, Type, Save, ReadOnly
<1>2. CASE TimerFires(w)
    BY <1>2, <1>old DEF TimerFires, ReadOnly
<1>3. CASE Reload(w)
  <2>1. <<Ask("reload")>> \in Seq(Call) /\ \A k \in DOMAIN <<Ask("reload")>> :
          <<Ask("reload")>>[k].kind \notin LoudKinds
      BY AskIsCall, AskFacts DEF LoudKinds
  <2>2. Quieter(net[w] \o <<Ask("reload")>>, net[w])
      BY <1>typed, <2>1, SameCalls, AppendedIsQuieter
  <2> QED
      BY <1>3, <1>typed, <2>2 DEF Reload, Put
<1>4. Quieter(Leftover(net[w]), net[w])
  <2>1. Loud(Leftover(net[w])) \subseteq Loud(net[w])
      BY <1>typed, LeftoverFacts DEF Loud
  <2> QED
      BY <1>typed, <2>1, LeftoverFacts, InPlaceIsQuieter
<1>5. CASE Close(w) \/ Vanish(w)
  <2>1. Leftover(net[w]) \o <<>> = Leftover(net[w])
      BY <1>typed, LeftoverFacts, AppendNothing
  <2>2. net'[w] = Leftover(net[w])
      BY <1>5, <1>typed, <2>1 DEF Close, Vanish
  <2> QED
      BY <1>4, <2>2
<1>6. ASSUME NEW i \in DOMAIN net[w], NEW c \in Call, Answer(w, i, c),
             c.kind = net[w][i].kind \/ c.kind \notin LoudKinds
      PROVE  Quieter(net'[w], net[w])
    BY <1>6, <1>typed, ReplacedIsQuieter DEF Answer
<1>7. ASSUME NEW i \in DOMAIN net[w], NEW s, Reply(w, i, s),
             s \in {"ok", "denied", "missing", "failed"}
      PROVE  Quieter(net'[w], net[w])
  <2>1. /\ [net[w][i] EXCEPT !.state = s] \in Call
        /\ [net[w][i] EXCEPT !.state = s].kind = net[w][i].kind
      BY <1>7, CallsTyped DEF Call, TextTyped
  <2> QED
      BY <1>6, <1>7, <2>1 DEF Reply
<1>8. ASSUME NEW i \in DOMAIN net[w], NEW more \in {<<>>, <<Ask("load")>>}, Finish(w, i, more)
      PROVE  Quieter(net'[w], net[w])
  <2>1. Ask("load").kind \notin LoudKinds
      BY AskFacts DEF LoudKinds
  <2>2. more \in Seq(Call) /\ \A k \in DOMAIN more : more[k].kind \notin LoudKinds
    <3>1. CASE more = <<>>
        BY <3>1, MoreTyped
    <3>2. CASE more = <<Ask("load")>>
      <4>1. DOMAIN more = {1} /\ more[1] = Ask("load")
          BY <3>2
      <4> QED
          BY <2>1, <4>1, MoreTyped
    <3> QED
        BY <3>1, <3>2
  <2>3. RemoveAt(net[w], i) \in Seq(Call)
      BY <1>typed, RemoveAtFacts
  <2>4. Quieter(RemoveAt(net[w], i) \o more, net[w])
      BY <1>typed, <2>2, <2>3, RemovedIsQuieter, AppendedIsQuieter
  <2> QED
      BY <1>8, <1>typed, <2>4 DEF Finish
<1>9. ASSUME NEW i \in DOMAIN net[w], Serve(w, i) PROVE Quieter(net'[w], net[w])
  <2>1. CASE Release(w, i)
      BY <1>typed, <2>1, RemovedIsQuieter DEF Release
  <2>2. CASE Acquire(w, i)
      BY <1>7, <2>2 DEF Acquire
  <2>3. CASE Fetch(w, i)
    <3> DEFINE c == [net[w][i] EXCEPT !.state = "ok", !.text = doc.text]
    <3>3. net[w][i] \in Call /\ doc.text \in Text
        BY CallsTyped DEF TextTyped, DocTyped
    <3>1. c \in Call /\ c.kind = net[w][i].kind
        BY <3>3 DEF Call
    <3>2. Reply(w, i, "failed") \/ Answer(w, i, c)
        BY <2>3 DEF Fetch
    <3> HIDE DEF c
    <3> QED
        BY <1>6, <1>7, <3>1, <3>2
  <2>4. CASE SaveContent(w, i)
    <3> DEFINE c == [net[w][i] EXCEPT !.state = "ok", !.base = doc.stamp + 1]
    <3>1. doc.stamp # MaxStamp => c \in Call /\ c.kind = net[w][i].kind
      <4>1. doc.stamp # MaxStamp => doc.stamp + 1 \in Stamp
          BY EditingAssumption DEF TextTyped, DocTyped, Stamp
      <4>2. net[w][i] \in Call
          BY CallsTyped DEF TextTyped
      <4> QED
          BY <4>1, <4>2 DEF Call
    <3>2. \/ \E s \in {"failed", "denied"} : Reply(w, i, s)
          \/ doc.stamp # MaxStamp /\ Answer(w, i, c)
        BY <2>4 DEF SaveContent
    <3> HIDE DEF c
    <3> QED
        BY <1>6, <1>7, <3>1, <3>2
  <2> QED
      BY <1>9, <2>1, <2>2, <2>3, <2>4 DEF Serve
<1>10. ASSUME NEW i \in DOMAIN net[w], Handle(w, i) \/ Lose(w, i)
       PROVE  Quieter(net'[w], net[w])
  <2>1. CASE BeatAnswered(w, i)
    <3>1. Ask("takeover") \in Call /\ Ask("takeover").kind \notin LoudKinds
        BY AskIsCall, AskFacts DEF LoudKinds
    <3>2. CASE Answer(w, i, Ask("takeover"))
        BY <1>6, <3>1, <3>2
    <3>3. CASE net' = [net EXCEPT ![w] = Leftover(net[w])]
        BY <1>4, <1>typed, <3>3
    <3> QED
        BY <1>8, <2>1, <3>2, <3>3 DEF BeatAnswered
  <2>2. CASE Lose(w, i)
      BY <1>7, <1>8, <2>2 DEF Lose
  <2>3. CASE Loaded(w, i) \/ TakenOver(w, i) \/ Reloaded(w, i) \/ Saved(w, i) \/ Unread(w, i)
      BY <1>8, <2>3 DEF Loaded, TakenOver, Reloaded, Saved, Unread
  <2> QED
      BY <1>10, <2>1, <2>2, <2>3 DEF Handle
<1> QED
    BY <1>0, <1>1, <1>2, <1>3, <1>5, <1>9, <1>10 DEF Editors

LEMMA NextKeepsFresh ==
    ASSUME WindowsTyped, NewIsFresh, [Next]_vars
    PROVE  NewIsFresh'
<1>1. ASSUME UNCHANGED win PROVE NewIsFresh'
    BY <1>1 DEF NewIsFresh
<1>2. ASSUME NEW w \in Windows, NEW f, win' = [win EXCEPT ![w] = f], f.phase # "new"
      PROVE  NewIsFresh'
    BY <1>2, SMTT(40) DEF NewIsFresh, WindowsTyped
<1>3. ASSUME NEW w \in Windows, Editors(w) PROVE NewIsFresh'
  <2>typed. win[w] \in Editor /\ win \in [Windows -> Editor]
      BY CallsTyped DEF WindowsTyped
  <2>1. ASSUME Open(w), NEW f, win' = [win EXCEPT ![w] = f], f.phase = win[w].phase
        PROVE  NewIsFresh'
    <3>1. f.phase # "new"
        BY <2>1 DEF Open
    <3> QED
        BY <1>2, <2>1, <3>1
  <2>2. CASE OpenWindow(w)
    <3>1. PICK s : win' = [win EXCEPT ![w] = [NewEditor EXCEPT !.phase = "blank", !.base = s,
                                                !.size = SizeOf[doc.text]]]
        BY <2>2 DEF OpenWindow
    <3>2. [NewEditor EXCEPT !.phase = "blank", !.base = s,
                            !.size = SizeOf[doc.text]].phase = "blank"
        BY DEF NewEditor
    <3> QED
        BY <1>2, <3>1, <3>2
  <2>3. CASE Close(w) \/ Vanish(w)
    <3>1. [NewEditor EXCEPT !.phase = "closed"].phase = "closed"
        BY DEF NewEditor
    <3> QED
        BY <1>2, <2>3, <3>1 DEF Close, Vanish
  <2>4. CASE Beat(w) \/ Reload(w)
      BY <1>1, <2>4 DEF Beat, Reload
  <2>5. CASE TimerFires(w)
    <3>1. /\ [win[w] EXCEPT !.timer = "off", !.saving = TRUE].phase = win[w].phase
          /\ [win[w] EXCEPT !.timer = "off"].phase = win[w].phase
        BY <2>typed DEF Editor
    <3>2. \/ win' = [win EXCEPT ![w] = [win[w] EXCEPT !.timer = "off", !.saving = TRUE]]
          \/ win' = [win EXCEPT ![w] = [win[w] EXCEPT !.timer = "off"]]
        BY <2>5, <2>typed DEF TimerFires
    <3> QED
        BY <2>1, <2>5, <3>1, <3>2 DEF TimerFires
  <2>6. ASSUME NEW e \in Edits, Type(w, e) PROVE NewIsFresh'
    <3>1. PICK d, t : win' = [win EXCEPT ![w].text = win[w].text \cup {e}, ![w].dirty = d,
                                         ![w].timer = t]
        BY <2>6 DEF Type
    <3>2. win' = [win EXCEPT ![w] = [win[w] EXCEPT !.text = win[w].text \cup {e}, !.dirty = d,
                                                   !.timer = t]]
        BY <2>typed, <3>1
    <3>3. [win[w] EXCEPT !.text = win[w].text \cup {e}, !.dirty = d, !.timer = t].phase
            = win[w].phase
        BY <2>typed DEF Editor
    <3> QED
        BY <2>1, <2>6, <3>2, <3>3 DEF Type, Open
  <2>7. ASSUME NEW force \in BOOLEAN, Save(w, force) PROVE NewIsFresh'
    <3>1. /\ win' = [win EXCEPT ![w] = [win[w] EXCEPT !.saving = TRUE]]
          /\ [win[w] EXCEPT !.saving = TRUE].phase = win[w].phase
        BY <2>7, <2>typed DEF Save, Editor
    <3> QED
        BY <2>1, <2>7, <3>1 DEF Save
  <2>8. ASSUME NEW i \in DOMAIN net[w], Serve(w, i) \/ Lose(w, i) \/ Unread(w, i)
        PROVE NewIsFresh'
      BY <1>1, <2>8 DEF Serve, Acquire, Release, Fetch, SaveContent, Lose, Unread
  <2>9. ASSUME NEW i \in DOMAIN net[w], NEW kinds, Arrived(w, i, kinds),
               Loaded(w, i) \/ BeatAnswered(w, i) \/ TakenOver(w, i)
                 \/ Reloaded(w, i) \/ Saved(w, i)
        PROVE  NewIsFresh'
    <3> DEFINE e == win[w]
               c == net[w][i]
    <3>1. e \in Editor /\ e.phase # "new" /\ Open(w)
        BY <2>9, <2>typed DEF Arrived, Open
    <3>2. CASE Loaded(w, i)
      <4>1. /\ [e EXCEPT !.phase = "error"].phase = "error"
            /\ [Show(e, c.text) EXCEPT
                   !.phase = IF e.phase = "error" THEN "error" ELSE "ready"].phase # "new"
          BY <3>1 DEF Show, Editor
      <4> QED
          BY <1>2, <3>2, <4>1 DEF Loaded
    <3>3. CASE BeatAnswered(w, i)
      <4>1. /\ [e EXCEPT !.lock = "mine"].phase = e.phase
            /\ [e EXCEPT !.lock = "theirs"].phase = e.phase
            /\ [e EXCEPT !.gone = TRUE].phase = e.phase
            /\ [NewEditor EXCEPT !.phase = "closed", !.gone = TRUE].phase = "closed"
          BY <3>1 DEF Editor, NewEditor
      <4>2. \/ UNCHANGED win
            \/ win' = [win EXCEPT ![w] = [e EXCEPT !.lock = "mine"]]
            \/ win' = [win EXCEPT ![w] = [e EXCEPT !.lock = "theirs"]]
            \/ win' = [win EXCEPT ![w] = [e EXCEPT !.gone = TRUE]]
            \/ win' = [win EXCEPT ![w] = [NewEditor EXCEPT !.phase = "closed", !.gone = TRUE]]
          BY <2>typed, <3>3 DEF BeatAnswered
      <4> QED
          BY <1>1, <1>2, <3>1, <4>1, <4>2
    <3>4. CASE TakenOver(w, i) \/ Reloaded(w, i)
      <4>1. /\ [Show(e, c.text) EXCEPT
                   !.phase = IF e.phase = "error" THEN "error" ELSE "ready",
                   !.base = NoStamp, !.dirty = FALSE, !.conflict = FALSE,
                   !.lock = "mine"].phase # "new"
            /\ [e EXCEPT !.lock = "mine"].phase = e.phase
            /\ [Show(e, c.text) EXCEPT !.base = NoStamp, !.dirty = FALSE,
                                       !.conflict = FALSE].phase = e.phase
          BY <3>1 DEF Show, Editor
      <4>2. CASE TakenOver(w, i)
        <5>1. \/ win' = [win EXCEPT ![w] = [Show(e, c.text) EXCEPT
                    !.phase = IF e.phase = "error" THEN "error" ELSE "ready",
                    !.base = NoStamp, !.dirty = FALSE, !.conflict = FALSE, !.lock = "mine"]]
              \/ win' = [win EXCEPT ![w] = [e EXCEPT !.lock = "mine"]]
            BY <4>2 DEF TakenOver
        <5> QED
            BY <1>2, <3>1, <4>1, <5>1
      <4>3. CASE Reloaded(w, i)
        <5>1. \/ UNCHANGED win
              \/ win' = [win EXCEPT ![w] = [Show(e, c.text) EXCEPT
                    !.base = NoStamp, !.dirty = FALSE, !.conflict = FALSE]]
            BY <4>3 DEF Reloaded
        <5> QED
            BY <1>1, <1>2, <3>1, <4>1, <5>1
      <4> QED
          BY <3>4, <4>2, <4>3
    <3>5. CASE Saved(w, i)
      <4>1. /\ [e EXCEPT !.base = c.base, !.saved = c.text, !.dirty = e.text # c.text,
                         !.conflict = FALSE, !.saving = FALSE,
                         !.size = SizeOf[c.text]].phase = e.phase
            /\ [e EXCEPT !.conflict = TRUE, !.saving = FALSE].phase = e.phase
            /\ [e EXCEPT !.saving = FALSE].phase = e.phase
          BY <3>1 DEF Editor
      <4>2. \/ win' = [win EXCEPT ![w] = [e EXCEPT
                  !.base = c.base, !.saved = c.text, !.dirty = e.text # c.text,
                  !.conflict = FALSE, !.saving = FALSE, !.size = SizeOf[c.text]]]
            \/ win' = [win EXCEPT ![w] = [e EXCEPT !.conflict = TRUE, !.saving = FALSE]]
            \/ win' = [win EXCEPT ![w] = [e EXCEPT !.saving = FALSE]]
          BY <2>typed, <3>5 DEF Saved
      <4> QED
          BY <1>2, <3>1, <4>1, <4>2
    <3> QED
        BY <2>9, <3>2, <3>3, <3>4, <3>5
  <2> QED
      BY <1>3, <2>2, <2>3, <2>4, <2>5, <2>6, <2>7, <2>8, <2>9
         DEF Editors, Handle, Loaded, BeatAnswered, TakenOver, Reloaded, Saved
<1>4. CASE Others
    BY <1>1, <1>4 DEF Others, Tick, RemoveStale, Trash, Purge, BackfillNode
<1> QED
    BY <1>1, <1>3, <1>4 DEF Next, vars

\* A window that knows that the document is gone neither beats nor saves any more, for any
\* windows, bounds, losses and order of answers (ViewerPanel.tsx: the lock effect, doSave).
THEOREM GoneStays == Spec => GoneIsQuiet
<1> DEFINE I == TextTyped /\ SharedTyped /\ NewIsFresh
<1>1. Init => I
    BY InitTyped DEF TextTyped, SharedTyped, NewIsFresh, Init
<1>2. I /\ [Next]_vars => I'
    BY ServerTyped, NextTyped, NextKeepsFresh DEF TextTyped, SharedTyped
<1>3. ASSUME I, Next, NEW w \in Windows, win[w].gone
      PROVE  Quieter(net'[w], net[w])
  <2>1. net[w] \in Seq(Call)
      BY <1>3, CallsTyped DEF TextTyped
  <2>2. CASE UNCHANGED net
      BY <2>1, <2>2, SameCalls
  <2>3. ASSUME NEW v \in Windows, Editors(v) PROVE Quieter(net'[w], net[w])
    <3>1. CASE v = w
        BY <1>3, <2>3, <3>1, GoneStaysQuiet
    <3>2. CASE v # w
        BY <1>3, <2>1, <2>3, <3>2, OthersLeaveCalls, SameCalls DEF TextTyped
    <3> QED
        BY <3>1, <3>2
  <2> QED
      BY <1>3, <2>2, <2>3 DEF Next, Others, Tick, RemoveStale, Trash, Purge, BackfillNode
<1>4. I /\ [Next]_vars =>
        [\A w \in Windows :
           win[w].gone => Cardinality(Loud(net'[w])) <= Cardinality(Loud(net[w]))]_vars
    BY <1>3 DEF Quieter
<1> QED
    BY <1>1, <1>2, <1>4, PTL DEF Spec, GoneIsQuiet
=============================================================================
