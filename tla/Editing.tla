------------------------------ MODULE Editing ------------------------------
(***************************************************************************)
(* One text document, the browser windows that edit it, the edit lock      *)
(* (services/locks.py), the stamp that guards a save (api/nodes.py,        *)
(* save_content) and the content index that follows the body               *)
(* (services/search_index.py).  A request runs in one write transaction    *)
(* (db.py), so the server's part of a call is one step; the call, the      *)
(* server's part and the handling of the answer in the browser are three.  *)
(*                                                                         *)
(* Text is the set of edits it contains: typing adds one.                  *)
(***************************************************************************)
EXTENDS Integers, SequencesExt

CONSTANTS
    Windows,    \* tabs that show the document
    Users, Nobody,
    UserOf,     \* who sits at a window
    Edits,      \* what may be typed
    At,         \* the window where it is typed
    NoStamp,    \* base_updated_at: null
    SizeOf,     \* size of a text
    Ttl,        \* LOCK_TTL, in heartbeats
    Autosave,   \* the windows whose switch is on
    Events,     \* what else happens to the row: it is trashed ("trash"), it was not indexed ("index")
    InOrder,    \* answers reach a window in the order of its calls
    MaxStamp, MaxCalls, MaxLosses  \* bounds: writes of the row, calls under way in a window, lost messages

ASSUME EditingAssumption ==
    /\ UserOf \in [Windows -> Users]
    /\ At \in [Edits -> Windows]
    /\ Nobody \notin Users
    /\ Ttl \in Nat \ {0}
    /\ NoStamp \notin Nat
    /\ SizeOf \in [SUBSET Edits -> Nat]
    /\ Autosave \subseteq Windows
    /\ Events \subseteq {"trash", "index"}
    /\ InOrder \in BOOLEAN
    /\ {MaxStamp, MaxCalls, MaxLosses} \subseteq Nat

VARIABLES
    doc,        \* the row and its body
    index,      \* the rows of node_content_fts
    backfill,   \* the thread that indexes at start
    lock,       \* the row of edit_locks
    win,        \* the editors
    net,        \* calls of each window that are not finished, in the order made
    typed,      \* the edits made so far
    lost,       \* how many messages were lost
    lease       \* ghost: heartbeats since the lock was given to a window

vars == <<doc, index, backfill, lock, win, net, typed, lost, lease>>
server == <<doc, index, lock, lease>>

Text == SUBSET Edits
Stamp == 0..MaxStamp
NoLock == [user |-> Nobody, age |-> Ttl]

Editor == [phase: {"new", "blank", "ready", "error", "closed"},
           text: Text, saved: Text, base: Stamp \cup {NoStamp}, size: Nat,
           dirty: BOOLEAN, saving: BOOLEAN, conflict: BOOLEAN, gone: BOOLEAN,
           lock: {"unknown", "mine", "theirs"}, timer: {"off", "live", "dead"}]

NewEditor == [phase |-> "new", text |-> {}, saved |-> {}, base |-> NoStamp,
              size |-> 0, dirty |-> FALSE, saving |-> FALSE, conflict |-> FALSE,
              gone |-> FALSE, lock |-> "unknown", timer |-> "off"]

Call == [kind: {"load", "beat", "takeover", "reload", "save", "force", "release"},
         state: {"sent", "ok", "denied", "missing", "failed"},
         text: Text, base: Stamp \cup {NoStamp}]

Ask(kind) == [kind |-> kind, state |-> "sent", text |-> {}, base |-> NoStamp]

Open(w) == win[w].phase \in {"blank", "ready", "error"}
ReadOnly(w) == win[w].gone \/ win[w].lock = "theirs"
Room(w) == Len(net[w]) < MaxCalls
Beating(w) == \E i \in DOMAIN net[w] : net[w][i].kind \in {"beat", "takeover"}
Put(w, calls) == net' = [net EXCEPT ![w] = net[w] \o calls]

Init ==
    /\ doc = [state |-> "live", stamp |-> 0, text |-> {}]
    /\ \/ "index" \in Events /\ index = {} /\ backfill = "listed"
       \/ index = {{}} /\ backfill = "done"
    /\ lock = NoLock
    /\ win = [w \in Windows |-> NewEditor]
    /\ net = [w \in Windows |-> <<>>]
    /\ typed = {}
    /\ lost = 0
    /\ lease = [w \in Windows |-> Ttl]

----------------------------------------------------------------------------
(* The editor *)

\* A tab opens with the row of a listing, which may be old.
OpenWindow(w) ==
    /\ win[w].phase = "new"
    /\ \E s \in 0..doc.stamp :
         win' = [win EXCEPT ![w] = [NewEditor EXCEPT !.phase = "blank", !.base = s,
                                                     !.size = SizeOf[doc.text]]]
    /\ Put(w, <<Ask("load"), Ask("beat")>>)
    /\ UNCHANGED <<server, backfill, typed, lost>>

\* Mutant: deletion does not stop the interval
BeatMutant(w) ==
    /\ Open(w) /\ ~Beating(w) /\ Room(w)
    /\ Put(w, <<Ask("beat")>>)
    /\ UNCHANGED <<server, backfill, win, typed, lost>>

\* The interval of ten seconds.
Beat(w) ==
    /\ Open(w) /\ ~win[w].gone
    /\ ~Beating(w) /\ Room(w)
    /\ Put(w, <<Ask("beat")>>)
    /\ UNCHANGED <<server, backfill, win, typed, lost>>

\* onChange: the timer keeps the doSave of the render it was set in.
Type(w, e) ==
    /\ win[w].phase = "ready" /\ ~ReadOnly(w)
    /\ At[e] = w /\ e \notin typed
    /\ typed' = typed \cup {e}
    /\ win' = [win EXCEPT
         ![w].text = win[w].text \cup {e},
         ![w].dirty = win[w].text \cup {e} # win[w].saved,
         ![w].timer = IF w \in Autosave /\ ~win[w].conflict
                      THEN IF win[w].saving THEN "dead" ELSE "live"
                      ELSE win[w].timer]
    /\ UNCHANGED <<server, backfill, net, lost>>

\* What doSave sends; base is null when the user overwrites.
SaveCall(w, force) ==
    [kind |-> IF force THEN "force" ELSE "save", state |-> "sent",
     text |-> win[w].text, base |-> IF force THEN NoStamp ELSE win[w].base]

Changed(w) == win[w].text # win[w].saved

\* The button, Ctrl+S and "overwrite" of the banner.
Save(w, force) ==
    /\ Open(w) /\ Room(w)
    /\ ~win[w].saving /\ ~ReadOnly(w)
    /\ IF force THEN win[w].conflict ELSE Changed(w)
    /\ win' = [win EXCEPT ![w].saving = TRUE]
    /\ Put(w, <<SaveCall(w, force)>>)
    /\ UNCHANGED <<server, backfill, typed, lost>>

\* A timer set while a save was under way finds saving = TRUE for ever.
TimerFires(w) ==
    /\ Open(w) /\ win[w].timer # "off" /\ Room(w)
    /\ IF win[w].timer = "live" /\ ~ReadOnly(w) /\ Changed(w)
       THEN /\ win' = [win EXCEPT ![w].timer = "off", ![w].saving = TRUE]
            /\ Put(w, <<SaveCall(w, FALSE)>>)
       ELSE /\ win' = [win EXCEPT ![w].timer = "off"]
            /\ UNCHANGED net
    /\ UNCHANGED <<server, backfill, typed, lost>>

\* "Load the server's version" of the banner.
Reload(w) ==
    /\ Open(w) /\ win[w].conflict /\ Room(w)
    /\ Put(w, <<Ask("reload")>>)
    /\ UNCHANGED <<server, backfill, win, typed, lost>>

\* A window that goes drops its calls; the server may still get the ones that change it.
Leftover(calls) ==
    [i \in DOMAIN calls |->
       IF calls[i].kind \in {"beat", "save", "force"} /\ calls[i].state = "sent"
       THEN calls[i] ELSE [calls[i] EXCEPT !.state = "failed"]]

Close(w) ==
    /\ Open(w)
    /\ win' = [win EXCEPT ![w] = [NewEditor EXCEPT !.phase = "closed"]]
    /\ net' = [net EXCEPT ![w] = Leftover(net[w]) \o
                 (IF win[w].gone THEN <<>> ELSE <<Ask("release")>>)]
    /\ UNCHANGED <<server, backfill, typed, lost>>

\* The browser is killed or its machine sleeps: no release is sent.
Vanish(w) ==
    /\ Open(w)
    /\ win' = [win EXCEPT ![w] = [NewEditor EXCEPT !.phase = "closed"]]
    /\ net' = [net EXCEPT ![w] = Leftover(net[w])]
    /\ UNCHANGED <<server, backfill, typed, lost>>

----------------------------------------------------------------------------
(* The server *)

Tick ==
    /\ lock.user # Nobody \/ \E w \in Windows : lease[w] < Ttl
    /\ lock.age < Ttl \/ \E w \in Windows : lease[w] < Ttl
    /\ lock' = [lock EXCEPT !.age = IF lock.age < Ttl THEN lock.age + 1 ELSE Ttl]
    /\ lease' = [w \in Windows |-> IF lease[w] < Ttl THEN lease[w] + 1 ELSE Ttl]
    /\ UNCHANGED <<doc, index, backfill, win, net, typed, lost>>

\* Mutant: a lock never expires
FreshMutant == TRUE
\* _is_fresh
Fresh == lock.age < Ttl

Answer(w, i, c) == net' = [net EXCEPT ![w] = [net[w] EXCEPT ![i] = c]]
Reply(w, i, state) == Answer(w, i, [net[w][i] EXCEPT !.state = state])

\* acquire_edit_lock: get_node_checked, then locks.acquire.
Acquire(w, i) ==
    /\ i \in DOMAIN net[w] /\ net[w][i].kind = "beat" /\ net[w][i].state = "sent"
    /\ IF doc.state # "live" THEN Reply(w, i, "missing") /\ UNCHANGED <<lock, lease>>
       ELSE IF lock.user \in {Nobody, UserOf[w]} \/ ~Fresh
       THEN /\ lock' = [user |-> UserOf[w], age |-> 0]
            /\ lease' = [lease EXCEPT ![w] = 0]
            /\ Reply(w, i, "ok")
       ELSE Reply(w, i, "denied") /\ UNCHANGED <<lock, lease>>
    /\ UNCHANGED <<doc, index, backfill, win, typed, lost>>

\* Mutant: anybody's lock is released
ReleaseMutant(w, i) ==
    /\ i \in DOMAIN net[w] /\ net[w][i].kind = "release"
    /\ lock' = NoLock
    /\ lease' = [v \in Windows |-> IF UserOf[v] = UserOf[w] THEN Ttl ELSE lease[v]]
    /\ net' = [net EXCEPT ![w] = RemoveAt(net[w], i)]
    /\ UNCHANGED <<doc, index, backfill, win, typed, lost>>

\* release: only one's own lock; every window of the user has lost its lease.
Release(w, i) ==
    /\ i \in DOMAIN net[w] /\ net[w][i].kind = "release"
    /\ IF lock.user = UserOf[w]
       THEN /\ lock' = NoLock
            /\ lease' = [v \in Windows |-> IF UserOf[v] = UserOf[w] THEN Ttl ELSE lease[v]]
       ELSE UNCHANGED <<lock, lease>>
    /\ net' = [net EXCEPT ![w] = RemoveAt(net[w], i)]
    /\ UNCHANGED <<doc, index, backfill, win, typed, lost>>

\* get_active, called by GET /lock, removes a lock that is not fresh.
RemoveStale ==
    /\ lock.user # Nobody /\ ~Fresh
    /\ lock' = NoLock
    /\ UNCHANGED <<doc, index, backfill, win, net, typed, lost, lease>>

Fetch(w, i) ==
    /\ i \in DOMAIN net[w]
    /\ net[w][i].kind \in {"load", "takeover", "reload"} /\ net[w][i].state = "sent"
    /\ IF doc.state = "live"
       THEN Answer(w, i, [net[w][i] EXCEPT !.state = "ok", !.text = doc.text])
       ELSE Reply(w, i, "failed")
    /\ UNCHANGED <<server, backfill, win, typed, lost>>

IsSave(c) == c.kind \in {"save", "force"}

\* Mutant: the comparison the wrong way round
StaleMutant(c) == c.base # NoStamp /\ c.base > doc.stamp
\* A stamp that is not sent is not compared.
Stale(c) == c.base # NoStamp /\ c.base # doc.stamp

\* save_content: refused, or body, stamp and index change together.
SaveContent(w, i) ==
    /\ i \in DOMAIN net[w] /\ IsSave(net[w][i]) /\ net[w][i].state = "sent"
    /\ LET c == net[w][i] IN
       IF doc.state # "live" THEN Reply(w, i, "failed") /\ UNCHANGED <<doc, index>>
       ELSE IF Stale(c) THEN Reply(w, i, "denied") /\ UNCHANGED <<doc, index>>
       ELSE IF doc.stamp = MaxStamp  \* the bound; a text that is too large fails like this
       THEN Reply(w, i, "failed") /\ UNCHANGED <<doc, index>>
       ELSE /\ doc' = [doc EXCEPT !.stamp = doc.stamp + 1, !.text = c.text]
            /\ index' = {c.text}
            /\ Answer(w, i, [c EXCEPT !.state = "ok", !.base = doc.stamp + 1])
    /\ UNCHANGED <<backfill, lock, win, typed, lost, lease>>

Trash ==
    /\ "trash" \in Events /\ doc.state = "live"
    /\ doc' = [doc EXCEPT !.state = "trash"]
    /\ UNCHANGED <<index, backfill, lock, win, net, typed, lost, lease>>

\* purge_subtree takes the lock and the index row with the node.
Purge ==
    /\ doc.state = "trash"
    /\ doc' = [doc EXCEPT !.state = "purged"]
    /\ index' = {}
    /\ lock' = NoLock
    /\ lease' = [w \in Windows |-> Ttl]
    /\ UNCHANGED <<backfill, win, net, typed, lost>>

\* backfill: the ids were listed at start, each row is read again when its turn comes.
\* Mutant: the thread indexes the text it saw at start
BackfillNodeMutant ==
    /\ backfill = "listed"
    /\ backfill' = "done"
    /\ index' \in IF doc.state = "purged" THEN {index} ELSE {{{}}}
    /\ UNCHANGED <<doc, lock, win, net, typed, lost, lease>>

\* index_node: a body that cannot be read leaves no row.
BackfillNode ==
    /\ backfill = "listed"
    /\ backfill' = "done"
    /\ index' \in IF doc.state = "purged" THEN {index} ELSE {{doc.text}, {}}
    /\ UNCHANGED <<doc, lock, win, net, typed, lost, lease>>

----------------------------------------------------------------------------
(* Answers *)

\* The call leaves the list, or is followed by others.
Finish(w, i, more) == net' = [net EXCEPT ![w] = RemoveAt(net[w], i) \o more]

\* An answer that may be handled now.
Arrived(w, i, kinds) ==
    /\ i \in DOMAIN net[w] /\ Open(w)
    /\ net[w][i].kind \in kinds /\ net[w][i].state # "sent"
    /\ InOrder => i = 1

Show(e, t) == [e EXCEPT !.text = t, !.saved = t]

Loaded(w, i) ==
    /\ Arrived(w, i, {"load"})
    /\ win' = [win EXCEPT ![w] =
         IF net[w][i].state # "ok" THEN [win[w] EXCEPT !.phase = "error"]
         ELSE [Show(win[w], net[w][i].text) EXCEPT
                 !.phase = IF win[w].phase = "error" THEN "error" ELSE "ready"]]
    /\ Finish(w, i, <<>>)
    /\ UNCHANGED <<server, backfill, typed, lost>>

\* The answer of acquireLock.  A window that was waiting first fetches the text.
BeatAnswered(w, i) ==
    /\ Arrived(w, i, {"beat"})
    /\ \/ /\ net[w][i].state = "ok" /\ win[w].lock = "theirs"
          /\ Answer(w, i, Ask("takeover"))
          /\ UNCHANGED win
       \/ /\ net[w][i].state = "ok" /\ win[w].lock # "theirs"
          /\ win' = [win EXCEPT ![w].lock = "mine"]
          /\ Finish(w, i, <<>>)
       \/ /\ net[w][i].state = "denied"
          /\ win' = [win EXCEPT ![w].lock = "theirs"]
          /\ Finish(w, i, <<>>)
       \/ /\ net[w][i].state = "missing" /\ win[w].dirty
          /\ win' = [win EXCEPT ![w].gone = TRUE]
          /\ Finish(w, i, <<>>)
       \/ /\ net[w][i].state = "missing" /\ ~win[w].dirty  \* handleTabDeleted closes the tab
          /\ win' = [win EXCEPT ![w] = [NewEditor EXCEPT !.phase = "closed", !.gone = TRUE]]
          /\ net' = [net EXCEPT ![w] = Leftover(net[w])]
       \/ /\ net[w][i].state = "failed"
          /\ Finish(w, i, <<>>) /\ UNCHANGED win
    /\ UNCHANGED <<server, backfill, typed, lost>>

\* The text was fetched for good, without a stamp; or the fetch failed and nothing is replaced.
TakenOver(w, i) ==
    /\ Arrived(w, i, {"takeover"})
    /\ win' = [win EXCEPT ![w] =
         IF net[w][i].state = "ok"
         THEN [Show(win[w], net[w][i].text) EXCEPT
                 !.phase = IF win[w].phase = "error" THEN "error" ELSE "ready",
                 !.base = NoStamp, !.dirty = FALSE, !.conflict = FALSE, !.lock = "mine"]
         ELSE [win[w] EXCEPT !.lock = "mine"]]
    /\ Finish(w, i, <<>>)
    /\ UNCHANGED <<server, backfill, typed, lost>>

Reloaded(w, i) ==
    /\ Arrived(w, i, {"reload"})
    /\ win' = IF net[w][i].state # "ok" THEN win
              ELSE [win EXCEPT ![w] = [Show(win[w], net[w][i].text) EXCEPT
                      !.base = NoStamp, !.dirty = FALSE, !.conflict = FALSE]]
    /\ Finish(w, i, <<>>)
    /\ UNCHANGED <<server, backfill, typed, lost>>

\* A size that differs from the row the tab had makes the load effect run again.
Saved(w, i) ==
    /\ Arrived(w, i, {"save", "force"})
    /\ LET c == net[w][i] IN
       \/ /\ c.state = "ok"
          /\ win' = [win EXCEPT ![w] = [win[w] EXCEPT
               !.base = c.base, !.saved = c.text, !.dirty = win[w].text # c.text,
               !.conflict = FALSE, !.saving = FALSE, !.size = SizeOf[c.text]]]
          /\ Finish(w, i, IF SizeOf[c.text] # win[w].size THEN <<Ask("load")>> ELSE <<>>)
       \/ /\ c.state = "denied"
          /\ win' = [win EXCEPT ![w].conflict = TRUE, ![w].saving = FALSE]
          /\ Finish(w, i, <<>>)
       \/ /\ c.state = "failed"
          /\ win' = [win EXCEPT ![w].saving = FALSE]
          /\ Finish(w, i, <<>>)
    /\ UNCHANGED <<server, backfill, typed, lost>>

\* A request or its answer is lost: the call fails, whatever the server did.
Lose(w, i) ==
    /\ lost < MaxLosses
    /\ i \in DOMAIN net[w] /\ net[w][i].state # "failed"
    /\ lost' = lost + 1
    /\ IF Open(w) THEN Reply(w, i, "failed") ELSE Finish(w, i, <<>>)
    /\ UNCHANGED <<server, backfill, win, typed>>

\* Nobody reads the answer of a window that has closed.
Unread(w, i) ==
    /\ ~Open(w) /\ i \in DOMAIN net[w] /\ net[w][i].state # "sent"
    /\ Finish(w, i, <<>>)
    /\ UNCHANGED <<server, backfill, win, typed, lost>>

----------------------------------------------------------------------------
Serve(w, i) == Acquire(w, i) \/ Release(w, i) \/ Fetch(w, i) \/ SaveContent(w, i)
Handle(w, i) == Loaded(w, i) \/ BeatAnswered(w, i) \/ TakenOver(w, i)
                  \/ Reloaded(w, i) \/ Saved(w, i) \/ Unread(w, i)

Editors(w) ==
    \/ OpenWindow(w) \/ Beat(w) \/ TimerFires(w) \/ Reload(w) \/ Close(w) \/ Vanish(w)
    \/ \E e \in Edits : Type(w, e)
    \/ \E force \in BOOLEAN : Save(w, force)
    \/ \E i \in DOMAIN net[w] : Serve(w, i) \/ Handle(w, i) \/ Lose(w, i)

Others == Tick \/ RemoveStale \/ Trash \/ Purge \/ BackfillNode

Next == Others \/ \E w \in Windows : Editors(w)

\* Time passes, the interval of an open tab runs, and what was sent arrives.  The
\* interval waits for no other call: it needs strong fairness because MaxCalls makes it wait.
Fairness ==
    /\ WF_vars(Tick)
    /\ \A w \in Windows :
         /\ SF_vars(Beat(w))
         /\ WF_vars(\E i \in DOMAIN net[w] : Serve(w, i))
         /\ WF_vars(\E i \in DOMAIN net[w] : Handle(w, i))

Spec == Init /\ [][Next]_vars /\ Fairness

----------------------------------------------------------------------------
(* Properties *)

EditTypeOK ==
    /\ doc \in [state: {"live", "trash", "purged"}, stamp: Stamp, text: Text]
    /\ index \in SUBSET Text
    /\ lock \in [user: Users \cup {Nobody}, age: 0..Ttl]
    /\ lease \in [Windows -> 0..Ttl]
    /\ win \in [Windows -> Editor]
    /\ net \in [Windows -> Seq(Call)]

\* locks.py: whoever was given the lock keeps it for LOCK_TTL, unless a window of
\* the same user gave it back; until then nobody else is told that he may edit.
OneLease ==
    \A v, w \in Windows :
      lease[v] < Ttl /\ lease[w] < Ttl => UserOf[v] = UserOf[w]

\* search_index.py: a search by content finds the body that is there, or nothing;
\* the backfill thread and a save that overlaps it do not leave an old text.
IndexFollowsBody == index \subseteq {doc.text}

\* save_content: a save that carries a stamp keeps what the others have written.  (As long
\* as a window waits for each answer: in StampLost.cfg it reloads and overwrites at once.)
SavesWith(w, i) ==
    /\ i \in DOMAIN net[w] /\ net[w][i].kind = "save"
    /\ net[w][i].state = "sent" /\ net[w][i].base # NoStamp

StampedSaveOf(w) ==
    \A i \in DOMAIN net[w] :
        SavesWith(w, i) /\ SaveContent(w, i) => doc.text \subseteq doc'.text

StampedSaveKeepsText == [][\A w \in Windows : StampedSaveOf(w)]_vars

\* docs/SPEC.md: a save is guarded by the stamp, so what one user has saved is gone
\* only when another one chose to overwrite it.
NothingSavedIsLost ==
    [][\/ doc.text \subseteq doc'.text
       \/ \E w \in Windows, i \in 1..MaxCalls :
            i \in DOMAIN net[w] /\ net[w][i].kind = "force" /\ SaveContent(w, i)]_vars

\* ViewerPanel, onChange: "unsaved" is shown only while the text differs from what was
\* saved; nothing but the user's own choice takes typed text out of the editor.
DirtyMeansChanged == \A w \in Windows : win[w].dirty => Changed(w)

\* ViewerPanel: a window that knows the document is gone neither beats nor saves any more.
Loud(calls) == {i \in DOMAIN calls : calls[i].kind \in {"beat", "save", "force"}}
GoneIsQuiet ==
    [][\A w \in Windows :
         win[w].gone => Cardinality(Loud(net'[w])) <= Cardinality(Loud(net[w]))]_vars

\* The banner "you take over when the other has finished": a window that is left
\* alone with a document becomes its editor, even if the other one just vanished.
Alone(w) == Open(w) /\ doc.state = "live" /\ \A v \in Windows \ {w} : ~Open(v)
WaiterTakesOver ==
    \A w \in Windows : <>[]Alone(w) => <>[](Open(w) /\ win[w].lock = "mine")
=============================================================================
