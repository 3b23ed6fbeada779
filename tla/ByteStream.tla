----------------------------- MODULE ByteStream -----------------------------
(***************************************************************************)
(* What a download of an archive promises: the entries of the plan in      *)
(* their order, each of them whole, a file that cannot be opened left out; *)
(* it ends well only after the trailer.                                    *)
(***************************************************************************)
EXTENDS Integers, Sequences

CONSTANT Plan  \* the entries: whether it is a file, and its size in chunks

VARIABLES out, end

Entries == DOMAIN Plan
Trailer == <<Len(Plan) + 1, 0>>
Flush == <<0, 0>>     \* what the compressor still holds when packing fails
Start == <<0, 1>>     \* before the first entry
Chunks == {Trailer, Flush} \cup UNION {{<<i, k>> : k \in 0..Plan[i].size} : i \in Entries}

Last == IF out = <<>> THEN Start ELSE out[Len(out)]

\* The entry of chunk c is complete.
Whole(c) ==
    \/ c = Start
    \/ c[1] \in Entries /\ c[2] = Plan[c[1]].size

\* Only files may be missing between entries i and j.
Skippable(i, j) == \A n \in Entries : i < n /\ n < j => Plan[n].file

Follows(c, d) ==
    \/ d[1] = c[1] /\ d[2] = c[2] + 1 /\ d \in Chunks
    \/ /\ Whole(c) /\ d[2] = 0 /\ d[1] > c[1]
       /\ Skippable(c[1], d[1])
    \/ d = Flush /\ c # Trailer

BSInit == out = <<>> /\ end = "none"

Deliver(d) ==
    /\ end = "none" /\ Last # Flush /\ Follows(Last, d)
    /\ out' = Append(out, d)
    /\ UNCHANGED end

End ==
    /\ end = "none"
    /\ end' \in {"failed", "left"} \cup (IF Last = Trailer THEN {"done"} ELSE {})
    /\ UNCHANGED out

BSNext == End \/ \E d \in Chunks : Deliver(d)
BSSpec == BSInit /\ [][BSNext]_<<out, end>>
=============================================================================
