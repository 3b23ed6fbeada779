------------------------------- MODULE Share -------------------------------
(***************************************************************************)
(* One share link (services/shares.py, api/shares.py), the item it leads   *)
(* to, and the people who download it without an account (api/public.py,   *)
(* services/serving.py).  A request is one write transaction (db.py); the  *)
(* body is sent after the commit, piece by piece, and the connection may   *)
(* break at any piece.                                                     *)
(*                                                                         *)
(* A body is the Size pieces of one version of the item; the versions of a *)
(* file have as many pieces, and an archive of a folder is of version 0.   *)
(***************************************************************************)
EXTENDS Integers, Sequences, FiniteSets

CONSTANTS
    Scripts,     \* people who use the one-line command (assets/get.sh.tmpl)
    Resumers,    \* programs that go on where a connection broke, by a Range request
    Splitters,   \* programs that ask for the pieces in an order of their own
    Limits,      \* max_downloads of the link
    Kinds,       \* what is shared: "file", "folder"
    Backends,    \* where bodies are: "local", "r2"
    Size,
    MaxVersion, MaxBreaks  \* bounds: saves of the file, broken connections

ASSUME ShareAssumption ==
    /\ IsFiniteSet(Scripts \cup Resumers \cup Splitters)
    /\ Scripts \cap Resumers = {} /\ (Scripts \cup Resumers) \cap Splitters = {}
    /\ Limits \subseteq Nat \ {0} /\ Limits # {}
    /\ Kinds \subseteq {"file", "folder"} /\ Backends \subseteq {"local", "r2"}
    /\ Size \in Nat \ {0} /\ {MaxVersion, MaxBreaks} \subseteq Nat

VARIABLES
    backend,
    link,     \* the row of share_links
    node,     \* the item
    client,
    breaks

vars == <<backend, link, node, client, breaks>>

Clients == Scripts \cup Resumers \cup Splitters
Version == 0..MaxVersion
NoSum == -1
NoPart == -1
Pieces == 1..Size

\* parts: what it has; version: of the last answer, which If-Range names; next, last: what
\* of that answer is still to come; bare (ghost): it has had a range sent to go with what
\* it had, without If-Range.
Fresh == [phase |-> "idle", sum |-> NoSum, parts |-> [i \in Pieces |-> NoPart], version |-> 0,
          next |-> 1, last |-> Size, opened |-> FALSE, bare |-> FALSE]

Held(c) == {i \in Pieces : client[c].parts[i] # NoPart}
Missing(c) == Pieces \ Held(c)

Init ==
    /\ backend \in Backends
    /\ link \in [state : {"open"}, limit : Limits, count : {0}]
    /\ node \in [kind : Kinds, state : {"live"}, version : {0}]
    /\ client = [c \in Clients |-> Fresh]
    /\ breaks = 0

----------------------------------------------------------------------------
(* The item and the link *)

\* The item, or a folder above it, is put in the trash.
Trash ==
    /\ node.state = "live"
    /\ \E how \in {"deleted", "hidden"} : node' = [node EXCEPT !.state = how]
    /\ UNCHANGED <<backend, link, client, breaks>>

Restore ==
    /\ node.state \in {"deleted", "hidden"}
    /\ node' = [node EXCEPT !.state = "live"]
    /\ UNCHANGED <<backend, link, client, breaks>>

\* purge_subtree: the links go with the item.
Purge ==
    /\ node.state \in {"deleted", "hidden"}
    /\ node' = [node EXCEPT !.state = "purged"]
    /\ link' = [link EXCEPT !.state = "none"]
    /\ UNCHANGED <<backend, client, breaks>>

\* save_content: the old body is deleted.
Save ==
    /\ node.state = "live" /\ node.kind = "file" /\ node.version < MaxVersion
    /\ node' = [node EXCEPT !.version = @ + 1]
    /\ UNCHANGED <<backend, link, client, breaks>>

Revoke ==
    /\ link.state \in {"open", "expired"}
    /\ link' = [link EXCEPT !.state = "revoked"]
    /\ UNCHANGED <<backend, node, client, breaks>>

Expire ==
    /\ link.state = "open"
    /\ link' = [link EXCEPT !.state = "expired"]
    /\ UNCHANGED <<backend, node, client, breaks>>

\* A start of the server, ninety days later.
CleanupStaleShares ==
    /\ link.state \in {"revoked", "expired"}
    /\ link' = [link EXCEPT !.state = "none"]
    /\ UNCHANGED <<backend, node, client, breaks>>

----------------------------------------------------------------------------
(* Requests *)

\* resolve_share
Resolved == link.state = "open" /\ node.state = "live"

\* A GET of the item: the Range header, if it asks for less than all of it, and whether it
\* has an If-Range.
Request == [from : Pieces, to : Pieces, checked : BOOLEAN]
IsRange(r) == r.from > 1 \/ r.to < Size

\* What client c may ask for: what it lacks, from the beginning unless it splits.
Requests(c) ==
    {r \in Request :
        /\ r.from \in Missing(c) /\ r.from <= r.to
        /\ r.checked => Held(c) # {}
        /\ c \notin Splitters => r.to = Size /\ 1..(r.from - 1) \subseteq Held(c)}

\* Mutant: a range that starts at the first byte is a continuation, too
ContinuesMutant(r) == IsRange(r)

\* is_range_continuation: the range starts after the first byte; whether anything was
\* counted before is not asked.
Continues(r) == r.from > 1

\* Mutant: every request counts
GrantedMutant(r) == Resolved /\ link.count < link.limit

\* consume_download
Granted(r) == Resolved /\ (Continues(r) \/ link.count < link.limit)

\* Mutant: If-Range is ignored on every backend
WholeMutant(c, r) == ~ IsRange(r) \/ node.kind = "folder"

\* The answer is the whole body: an archive is always made whole; FileResponse sends all of
\* a file that is not the one If-Range names, and what a bare range asks for; _stream does
\* not look at If-Range.
Whole(c, r) ==
    \/ ~ IsRange(r)
    \/ node.kind = "folder"
    \/ backend = "local" /\ r.checked /\ client[c].version # node.version

Script(c) ==
    /\ c \in Scripts /\ client[c].phase = "idle"
    /\ client' = [client EXCEPT
            ![c].phase = IF Resolved THEN "ready" ELSE "failed",
            ![c].sum = IF Resolved /\ node.kind = "file" THEN node.version ELSE NoSum]
    /\ UNCHANGED <<backend, link, node, breaks>>

Asks(c) == client[c].phase \in (IF c \in Scripts THEN {"ready"} ELSE {"idle", "broken"})

\* share_download, share_tar: who gets the whole body starts again with it.
Download(c, r) ==
    /\ Asks(c) /\ Granted(r)
    /\ link' = IF Continues(r) THEN link ELSE [link EXCEPT !.count = @ + 1]
    /\ LET m == client[c]
           new == IF Whole(c, r)
                  THEN [parts |-> Fresh.parts, next |-> 1, last |-> Size, bare |-> FALSE]
                  ELSE [parts |-> m.parts, next |-> r.from, last |-> r.to,
                        bare |-> m.bare \/ (Held(c) # {} /\ ~ r.checked)]
       IN  client' = [client EXCEPT ![c] =
               [m EXCEPT !.phase = "receiving", !.version = node.version, !.opened = FALSE,
                         !.parts = new.parts, !.next = new.next, !.last = new.last,
                         !.bare = new.bare]]
    /\ UNCHANGED <<backend, node, breaks>>

Refuse(c, r) ==
    /\ Asks(c) /\ ~Granted(r)
    /\ client' = [client EXCEPT ![c] = [Fresh EXCEPT !.phase = "failed"]]
    /\ UNCHANGED <<backend, link, node, breaks>>

----------------------------------------------------------------------------
(* Bodies *)

\* The body of the answer is opened when it is sent; a file of an archive
\* that is not there any more is left out of it.
Readable(c) ==
    \/ client[c].opened
    \/ node.kind = "folder"
    \/ node.version = client[c].version /\ node.state # "purged"

\* An answer that is complete leaves the client with all pieces, or to ask for others.
Receive(c) ==
    /\ client[c].phase = "receiving" /\ Readable(c)
    /\ LET m == client[c]
           parts == [m.parts EXCEPT ![m.next] = m.version]
           rest == m.next < m.last
           all == \A i \in Pieces : parts[i] # NoPart
       IN  client' = [client EXCEPT ![c] =
               [m EXCEPT !.parts = parts, !.opened = TRUE,
                         !.next = IF rest THEN m.next + 1 ELSE m.next,
                         !.phase = IF rest THEN m.phase
                                   ELSE IF all THEN "finished" ELSE "broken"]]
    /\ UNCHANGED <<backend, link, node, breaks>>

\* The one-line command does not try again (set -e).
BrokenOff(c) ==
    client' = [client EXCEPT ![c] =
        IF c \in Scripts THEN [Fresh EXCEPT !.phase = "failed"] ELSE [@ EXCEPT !.phase = "broken"]]

BodyGone(c) ==
    /\ client[c].phase = "receiving" /\ ~Readable(c)
    /\ BrokenOff(c)
    /\ UNCHANGED <<backend, link, node, breaks>>

Break(c) ==
    /\ client[c].phase = "receiving" /\ breaks < MaxBreaks
    /\ breaks' = breaks + 1
    /\ BrokenOff(c)
    /\ UNCHANGED <<backend, link, node>>

Owner == Trash \/ Restore \/ Purge \/ Save \/ Revoke \/ Expire \/ CleanupStaleShares
Ask(c) == Script(c) \/ \E r \in Requests(c) : Download(c, r) \/ Refuse(c, r)
Answer(c) == Receive(c) \/ BodyGone(c)

Next == Owner \/ \E c \in Clients : Ask(c) \/ Answer(c) \/ Break(c)
Spec == Init /\ [][Next]_vars

\* A program that resumes asks again; what is sent arrives.
FairSpec == Spec /\ \A c \in Resumers : WF_vars(Ask(c)) /\ WF_vars(Answer(c))

----------------------------------------------------------------------------
(* Properties *)

\* Every variable has its type.
ShareTypeOK ==
    /\ backend \in Backends
    /\ link.state \in {"open", "revoked", "expired", "none"}
    /\ link.limit \in Limits /\ link.count \in 0..link.limit
    /\ node.kind \in Kinds /\ node.version \in Version
    /\ node.state \in {"live", "deleted", "hidden", "purged"}
    /\ \A c \in Clients :
          /\ client[c].phase \in {"idle", "ready", "receiving", "broken", "failed", "finished"}
          /\ client[c].sum \in Version \cup {NoSum}
          /\ client[c].parts \in [Pieces -> Version \cup {NoPart}]
          /\ client[c].next \in Pieces /\ client[c].last \in Pieces

\* The first piece is sent to no more clients than downloads were counted, the ones under
\* way included, and no more are counted than the limit, however connections break and are
\* resumed (consume_download).  Left out are the programs that ask for a later piece first
\* and are sent the whole instead: an archive, or a file that was saved (RangeFirst.cfg).
AtBeginning(c) == 1 \in Held(c) \/ (client[c].phase = "receiving" /\ client[c].next = 1)
SentInPieces(c) == c \in Splitters => node.kind = "file" /\ node.version = 0
CopiesWithinLimit ==
    /\ Cardinality({c \in Clients : AtBeginning(c) /\ SentInPieces(c)}) <= link.count
    /\ link.count <= link.limit

\* From a local disk, pieces of two versions of a file never make one copy, unless the
\* client has asked for more without saying what it had (RangeMixes.cfg).
LocalCopyIsOneVersion ==
    \A c \in Clients :
        backend = "local" /\ client[c].phase = "finished" /\ ~ client[c].bare =>
            \A i, j \in Pieces : client[c].parts[i] = client[c].parts[j]

\* Something arrived, all of it of a version that stays.
HasSome(c) ==
    /\ Held(c) # {} /\ node.kind = "file" /\ node.version = MaxVersion
    /\ \A i \in Held(c) : client[c].parts[i] = MaxVersion

\* A file of which something arrived is finished, although its download has
\* used up the limit, unless the link is closed or the item hidden
\* (shares.py, is_range_continuation: no download is counted twice).
ResumeFinishes ==
    \A c \in Resumers : HasSome(c) ~> client[c].phase = "finished" \/ ~Resolved

----------------------------------------------------------------------------
(* What is said of a link, or could be expected, and does not hold *)

\* The one-line command says "ok" only for the file whose checksum it was
\* given (api/public.py:170, get.sh.tmpl:62-69).
OkIsChecked ==
    \A c \in Scripts :
        client[c].phase = "finished" /\ client[c].sum # NoSum =>
            \A i \in Pieces : client[c].parts[i] = client[c].sum

\* shares.py:125: what passes uncounted goes on with a download that was counted.
EveryCopyIsCounted == Cardinality({c \in Clients : client[c].phase = "finished"}) <= link.count

\* A copy is of one version, wherever the bodies are and however it was asked for.
CopyIsOneVersion ==
    \A c \in Clients : client[c].phase = "finished" =>
        \A i, j \in Pieces : client[c].parts[i] = client[c].parts[j]
=============================================================================
