----------------------------- MODULE TarStream -----------------------------
(***************************************************************************)
(* services/tar_stream.py: a thread packs the entries of a plan and puts   *)
(* the chunks into a bounded queue; the generator behind the response      *)
(* takes them out; bodies are opened ahead of time.                        *)
(*                                                                         *)
(* Entry i is written as the chunks <<i, 0>> (its header), <<i, 1>>, ...   *)
(***************************************************************************)
EXTENDS Integers, Sequences, FiniteSets, Functions

CONSTANTS
    Plan,           \* the entries, collected before the thread starts
    Capacity,       \* QUEUE_CHUNKS
    PrefetchMax,    \* PREFETCH_MAX
    PrefetchBytes,  \* PREFETCH_BYTES, in chunks
    ReadsFail,      \* a body may break off while it is packed
    Stalls          \* the client may take nothing for a second

VARIABLES
    prod,     \* the packing thread: where it is, at which chunk, whether it is inside put()
    ahead,    \* entries whose body was opened in advance and not used yet
    body,     \* the entry whose body is being packed
    queue,
    stop,     \* the event that ends the thread
    reader,   \* the generator: in get(), at its yield, in its finally, over
    got,      \* what the client received
    outcome,  \* how the response ended
    lost      \* (ghost) end items given up while the client took nothing for a second

vars == <<prod, ahead, body, queue, stop, reader, got, outcome, lost>>

Done == <<-1, 0>>  \* the end marker
Err == <<-1, 1>>   \* the exception, passed on

\* An end without the error that was given up counts as the failure that it is.
Ended == IF outcome = "done" /\ Err \in lost THEN "failed" ELSE outcome

Stream == INSTANCE ByteStream WITH out <- got, end <- Ended

ASSUME TarAssumption ==
    /\ Plan \in Seq([file: BOOLEAN, size: Nat])
    /\ Capacity \in Nat \ {0} /\ PrefetchMax \in Nat \ {0} /\ PrefetchBytes \in Nat
    /\ {ReadsFail, Stalls} \subseteq BOOLEAN

Entries == DOMAIN Plan
Files == {i \in Entries : Plan[i].file}

----------------------------------------------------------------------------
(* Opening ahead *)

Bytes(S) == SumFunctionOnSet([i \in Entries |-> Plan[i].size], S)

\* The first one is opened whatever its size.
MayOpen(A) == Cardinality(A) < PrefetchMax /\ (A = {} \/ Bytes(A) < PrefetchBytes)

\* fill, with the bodies A open, when entry i is finished.
Fill(A, i) ==
    LET rest == {f \in Files : i < f /\ \A a \in A : a < f}
    IN  A \cup {f \in rest : \A g \in rest :
                    g <= f => MayOpen(A \cup {h \in rest : h < g})}

----------------------------------------------------------------------------
(* The thread *)

At(where, i, k) == [at |-> where, chunk |-> <<i, k>>, waits |-> FALSE]
I == prod.chunk[1]
K == prod.chunk[2]

Free == Len(queue) < Capacity
Writing == prod.at \in {"write", "flush"}

Init ==
    /\ prod = At("entry", 1, 0)
    /\ ahead = Fill({}, 0)
    /\ body = {}
    /\ queue = <<>>
    /\ stop = FALSE
    /\ reader = "get"
    /\ got = <<>>
    /\ outcome = "none"
    /\ lost = {}

\* Mutant: the next bodies are opened before the entry is packed
StartEntryMutant ==
    /\ prod.at = "entry"
    /\ prod' = [prod EXCEPT !.at = "write"]
    /\ IF I \in Files THEN body' = {I} /\ ahead' = Fill(ahead \ {I}, I)
                      ELSE UNCHANGED <<body, ahead>>
    /\ UNCHANGED <<queue, stop, reader, got, outcome, lost>>

StartEntry ==
    /\ prod.at = "entry"
    /\ prod' = [prod EXCEPT !.at = "write"]
    /\ IF I \in Files THEN body' = {I} /\ ahead' = ahead \ {I}
                      ELSE UNCHANGED <<body, ahead>>
    /\ UNCHANGED <<queue, stop, reader, got, outcome, lost>>

\* The body cannot be opened; it may have been replaced or erased since the
\* plan was made.
Skip ==
    /\ prod.at = "entry" /\ I \in Files
    /\ prod' = At("entry", I + 1, 0)
    /\ ahead' = Fill(ahead \ {I}, I)
    /\ UNCHANGED <<body, queue, stop, reader, got, outcome, lost>>

\* _QueueSink.write looks at the event before every try of half a second.
Try ==
    /\ Writing /\ ~prod.waits /\ ~stop
    /\ prod' = [prod EXCEPT !.waits = TRUE]
    /\ UNCHANGED <<ahead, body, queue, stop, reader, got, outcome, lost>>

TryAgain ==
    /\ Writing /\ prod.waits /\ ~Free
    /\ prod' = [prod EXCEPT !.waits = FALSE]
    /\ UNCHANGED <<ahead, body, queue, stop, reader, got, outcome, lost>>

Abort ==
    /\ Writing /\ ~prod.waits /\ stop
    /\ prod' = At("mark", I, K)
    /\ body' = {} /\ ahead' = {}
    /\ UNCHANGED <<queue, stop, reader, got, outcome, lost>>

\* What the thread does next: it reports the error, the trailer was the last chunk, the
\* entry goes on, or it is complete.
AfterChunk ==
    \/ prod.at = "flush" /\ prod' = At("error", I, K) /\ UNCHANGED <<body, ahead>>
    \/ /\ prod.at = "write" /\ prod.chunk = Stream!Trailer
       /\ prod' = At("mark", I, K) /\ UNCHANGED <<body, ahead>>
    \/ /\ prod.at = "write" /\ prod.chunk # Stream!Trailer /\ K < Plan[I].size
       /\ prod' = At("write", I, K + 1) /\ UNCHANGED <<body, ahead>>
    \/ /\ prod.at = "write" /\ prod.chunk # Stream!Trailer /\ K = Plan[I].size
       /\ prod' = At("entry", I + 1, 0)
       /\ body' = {}
       /\ ahead' = IF I \in Files THEN Fill(ahead, I) ELSE ahead

Write ==
    /\ Writing /\ prod.waits /\ Free
    /\ queue' = Append(queue, IF prod.at = "flush" THEN Stream!Flush ELSE prod.chunk)
    /\ AfterChunk
    /\ UNCHANGED <<stop, reader, got, outcome, lost>>

\* tarfile closes its stream on the way out: what the compressor holds is written.
ReadFails ==
    /\ ReadsFail
    /\ prod.at = "write" /\ body # {} /\ K > 0 /\ ~prod.waits
    /\ prod' = At("flush", I, K)
    /\ body' = {} /\ ahead' = {}
    /\ UNCHANGED <<queue, stop, reader, got, outcome, lost>>

\* Mutant: the last item is put without waiting
GivesUpMutant == ~Free

\* put(..., timeout=1), Full ignored: after a second in which nothing was taken.
GivesUp == ~Free /\ (reader = "over" \/ (Stalls /\ reader = "yield"))

PutLast(item, next) ==
    /\ \/ Free /\ queue' = Append(queue, item) /\ UNCHANGED lost
       \/ /\ GivesUp /\ UNCHANGED queue
          /\ lost' = IF reader = "yield" THEN lost \cup {item} ELSE lost
    /\ prod' = At(next, I, K)
    /\ UNCHANGED <<ahead, body, stop, reader, got, outcome>>

\* Mutant: the exception is logged and not passed on
PutErrorMutant ==
    /\ prod.at = "error"
    /\ prod' = At("mark", I, K)
    /\ UNCHANGED <<ahead, body, queue, stop, reader, got, outcome, lost>>

PutError == prod.at = "error" /\ PutLast(Err, "mark")
PutMark == prod.at = "mark" /\ PutLast(Done, "ended")

Producer == StartEntry \/ Skip \/ Try \/ TryAgain \/ Abort \/ Write
            \/ ReadFails \/ PutError \/ PutMark

----------------------------------------------------------------------------
(* The generator *)

\* Mutant: the thread is not told
FinishMutant(how) == outcome' = how /\ reader' = "drain" /\ UNCHANGED stop

\* The finally clause starts.
Finish(how) == outcome' = how /\ stop' = TRUE /\ reader' = "drain"

Get ==
    /\ reader = "get" /\ queue # <<>>
    /\ queue' = Tail(queue)
    /\ \/ Head(queue) = Done /\ Finish("done") /\ UNCHANGED got
       \/ Head(queue) = Err /\ Finish("failed") /\ UNCHANGED got
       \/ /\ Head(queue) \notin {Done, Err}
          /\ got' = Append(got, Head(queue))
          /\ reader' = "yield"
          /\ UNCHANGED <<stop, outcome>>
    /\ UNCHANGED <<prod, ahead, body, lost>>

\* The server sent the chunk and wants the next one.
Resume ==
    /\ reader = "yield"
    /\ reader' = "get"
    /\ UNCHANGED <<prod, ahead, body, queue, stop, got, outcome, lost>>

\* A generator can be closed at its yield only.
Leave ==
    /\ reader = "yield"
    /\ Finish("left")
    /\ UNCHANGED <<prod, ahead, body, queue, got, lost>>

Drain ==
    /\ reader = "drain"
    /\ IF prod.at = "ended" \/ queue = <<>>
         THEN reader' = "over" /\ UNCHANGED queue
         ELSE queue' = Tail(queue) /\ UNCHANGED reader
    /\ UNCHANGED <<prod, ahead, body, stop, got, outcome, lost>>

Consumer == Get \/ Resume \/ Leave \/ Drain
Next == Producer \/ Consumer
Spec == Init /\ [][Next]_vars

\* Threads run; a client that is still there takes what it is sent.
FairSpec == Spec /\ WF_vars(Producer) /\ WF_vars(Get \/ Drain) /\ WF_vars(Resume)

----------------------------------------------------------------------------
(* Properties *)

\* Every variable has its type; the queue holds at most QUEUE_CHUNKS chunks.
TarTypeOK ==
    /\ prod.at \in {"entry", "write", "flush", "error", "mark", "ended"}
    /\ I \in 1..(Len(Plan) + 1) /\ K \in Nat /\ prod.waits \in BOOLEAN
    /\ ahead \subseteq Files /\ body \subseteq Files
    /\ queue \in Seq(Stream!Chunks \cup {Done, Err}) /\ Len(queue) <= Capacity
    /\ got \in Seq(Stream!Chunks)
    /\ reader \in {"get", "yield", "drain", "over"}
    /\ stop \in BOOLEAN /\ outcome \in {"none", "done", "failed", "left"}
    /\ lost \subseteq {Done, Err}

\* The thread never waits for a body that nobody has opened or that it has
\* lost count of (futures.pop), and never holds more than PREFETCH_MAX
\* bodies, the one it is packing included (tar_stream.py:45).
OpenBounded ==
    /\ Cardinality(ahead \cup body) <= PrefetchMax
    /\ (prod.at = "entry" /\ I \in Files) => I \in ahead

\* What the client gets is an archive of the plan, in order and whole but for files that
\* could not be opened; it ends well only after the trailer, or where the error was given up
\* because the client took nothing for a second (TarCut.cfg).
ImplementsByteStream == Stream!BSSpec

\* Whatever happens to the client, the thread ends (tar_stream.py:213:
\* otherwise threads pile up).
ThreadEnds == outcome # "none" ~> prod.at = "ended"

\* A client that stays is told how the archive ended, and the generator ends, unless the end
\* marker itself was given up because the client took nothing for a second (TarHang.cfg).
ClientIsTold == <>(reader = "over" \/ Done \in lost)

----------------------------------------------------------------------------
(* What a client that stays is owed, and is not given after a second without taking anything *)

\* A client that stays is told how the archive ended: the end marker is put last, whatever
\* happened before (tar_stream.py:184-191).
AlwaysTold == <>(reader = "over")

\* What a failed archive owes the client: the error, never a good end
\* (tar_stream.py:186: the exception is passed on as it is).
ErrorIsPassedOn == outcome = "done" => \A n \in DOMAIN got : got[n] # Stream!Flush
=============================================================================
