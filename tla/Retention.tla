----------------------------- MODULE Retention -----------------------------
(***************************************************************************)
(* The trash over time: items that were put there are erased by the sweep   *)
(* of main.py, at start and every six hours, once they are older than the   *)
(* retention.  One transaction erases everything that is due, and a single  *)
(* foreign key it does not know of undoes it all.  The device logins hold    *)
(* such a key (device_auths.node_id), and no code deletes their rows.       *)
(*                                                                          *)
(* An item stands for something a user trashed, with all that is below it.  *)
(***************************************************************************)
EXTENDS DeviceLogin

CONSTANT Item

VARIABLES item,    \* where each item is
          used,    \* does a share link, star, view, edit lock or token point to it?
          scope    \* the item that the approval of a login names, or Null

vars == <<login, poll, minted, active, item, used, scope>>

Trash == {i \in Item : item[i] \in {"fresh", "due"}}
Due == {i \in Item : item[i] = "due"}

\* Rows that no code removes and that name something in the set.
Held(items) == \E l \in Login : scope[l] \in items

-----------------------------------------------------------------------------
\* An approval for one folder, which get_node_checked must find, or for a whole
\* space.
ApproveFor(l, s) ==
    /\ s # Null => item[s] = "live"
    /\ Approve(l)
    /\ scope' = [scope EXCEPT ![l] = s]
    /\ UNCHANGED <<item, used>>

Use(i) ==
    /\ item[i] = "live"
    /\ used' = [used EXCEPT ![i] = TRUE]
    /\ UNCHANGED <<loginVars, item, scope>>

Delete(i) ==
    /\ item[i] = "live"
    /\ item' = [item EXCEPT ![i] = "fresh"]
    /\ UNCHANGED <<loginVars, used, scope>>

\* The retention passes.
Age(i) ==
    /\ item[i] = "fresh"
    /\ item' = [item EXCEPT ![i] = "due"]
    /\ UNCHANGED <<loginVars, used, scope>>

Restore(i) ==
    /\ i \in Trash
    /\ item' = [item EXCEPT ![i] = "live"]
    /\ UNCHANGED <<loginVars, used, scope>>

\* Mutant: only the rows of the items go.
EraseUnlessUsed(gone) ==
    /\ ~ Held(gone) /\ \A i \in gone : ~ used[i]
    /\ item' = [i \in Item |-> IF i \in gone THEN "gone" ELSE item[i]]
    /\ UNCHANGED <<loginVars, used, scope>>

\* Mutant: nothing enforces the foreign keys.
EraseRegardless(gone) ==
    /\ item' = [i \in Item |-> IF i \in gone THEN "gone" ELSE item[i]]
    /\ used' = [i \in Item |-> used[i] /\ i \notin gone]
    /\ UNCHANGED <<loginVars, scope>>

\* purge_subtree for every item of the set, in one transaction: all or nothing.
Erase(gone) ==
    /\ ~ Held(gone)
    /\ item' = [i \in Item |-> IF i \in gone THEN "gone" ELSE item[i]]
    /\ used' = [i \in Item |-> used[i] /\ i \notin gone]
    /\ UNCHANGED <<loginVars, scope>>

Purge(i) == i \in Trash /\ Erase({i})

Sweep == Due # {} /\ Erase(Due)

-----------------------------------------------------------------------------
Init ==
    /\ LoginInit
    /\ item = [i \in Item |-> "live"]
    /\ used = [i \in Item |-> FALSE]
    /\ scope = [l \in Login |-> Null]

Next ==
    \/ LoginNext /\ UNCHANGED <<item, used, scope>>
    \/ \E l \in Login, s \in Item \cup {Null} : ApproveFor(l, s)
    \/ \E i \in Item : Use(i) \/ Delete(i) \/ Age(i) \/ Restore(i) \/ Purge(i)
    \/ Sweep

\* The sweep comes round every six hours.  Seconds pass, a terminal polls until it
\* is told to stop, and the server is not killed at every one of its polls.
Fairness ==
    /\ WF_vars(Sweep)
    /\ \A l \in Login : WF_vars(Cool(l) /\ UNCHANGED <<item, used, scope>>)
    /\ \A l \in Login : SF_vars((\E p \in Poll : PollStart(p, l)) /\ UNCHANGED <<item, used, scope>>)
    /\ \A p \in Poll : SF_vars(PollFinish(p) /\ UNCHANGED <<item, used, scope>>)

Spec == Init /\ [][Next]_vars /\ Fairness

-----------------------------------------------------------------------------
RTypeOK ==
    /\ LoginTypeOK
    /\ item \in [Item -> {"live", "fresh", "due", "gone"}]
    /\ used \in [Item -> BOOLEAN]
    /\ scope \in [Login -> Item \cup {Null}]

\* A scope always names an item that exists: an approval, and the token that is
\* minted from it later, never points to something erased in between.
ScopeExists == \A l \in Login : scope[l] # Null => item[scope[l]] # "gone"

\* While no approved login names anything in the trash, whatever is due is
\* erased, however it was used before (docs/SPEC.md D17), unless it is restored.
DueIsErased ==
    [](~ Held(Trash)) => \A i \in Item : (item[i] = "due") ~> (item[i] # "due")

Waiting(l) ==
    login[l] # Null /\ login[l].status = "approved" /\ ~ login[l].expired /\ active

Settled(l) ==
    login[l] # Null /\ (login[l].expired \/ minted[l] > 0 \/ ~ active)

\* An approval reaches the terminal, unless it expires first or the approver is
\* disabled: neither the interval between polls nor a poll that died half-way
\* keeps a login waiting.
ApprovalArrives ==
    \A l \in Login : Waiting(l) ~> Settled(l)

\* docs/SPEC.md 3.7: what has been in the trash for the retention is erased by
\* itself.  Here only: no set of items stays due for ever.
NothingStaysDue == \A items \in (SUBSET Item) \ {{}} : ~ <>[](Due = items)
=============================================================================
