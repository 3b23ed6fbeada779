----------------------------- MODULE FileStore -----------------------------
(***************************************************************************)
(* What FileSharer promises of the bodies of its files, as a user sees it:  *)
(* a file has one content, whole, from the moment it appears until it is    *)
(* replaced by a saved version or erased for good.  Nothing else, not even a *)
(* request that fails half-way or a restart, changes or loses a content.    *)
(***************************************************************************)
CONSTANTS File, Content

VARIABLE content      \* a function from the files there are to their contents

\* An upload or a copy: any number of new files at once, and no change to others.
Add ==
    \E new \in (SUBSET (File \ DOMAIN content)) \ {{}} :
        \E given \in [new -> Content] :
            content' = [f \in DOMAIN content \cup new |->
                           IF f \in new THEN given[f] ELSE content[f]]

\* A save from the editor.
Replace ==
    \E f \in DOMAIN content, c \in Content : content' = [content EXCEPT ![f] = c]

\* A purge, the sweep of the trash, the deletion of a team.
Erase ==
    \E gone \in (SUBSET DOMAIN content) \ {{}} :
        content' = [f \in DOMAIN content \ gone |-> content[f]]

Init == content = [f \in {} |-> {}]

Next == Add \/ Replace \/ Erase

Spec == Init /\ [][Next]_content
=============================================================================
