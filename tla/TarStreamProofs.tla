--------------------------- MODULE TarStreamProofs ---------------------------
(***************************************************************************)
(* The pipeline implements ByteStream, its queue is bounded and so are the  *)
(* bodies it holds, for any plan, any capacity and any bound, whether or    *)
(* not the client takes something every second.                             *)
(***************************************************************************)
EXTENDS TarStream, SequenceTheorems, FiniteSetTheorems, WellFoundedInduction, TLAPS

Data == Stream!Chunks
Item == Data \cup {Done, Err}
Places == {"entry", "write", "flush", "error", "mark", "ended"}

-----------------------------------------------------------------------------
\* Types

\* The chunk in hand is one of an entry, or the trailer.
InPlan ==
    /\ prod.chunk = Stream!Trailer \/ (I \in Entries /\ K \in 0..Plan[I].size)
    /\ prod.at = "flush" => I \in Entries

\* The generator has said how it ended when it is over, and the thread is told then.
Told ==
    /\ outcome = "none" <=> reader \in {"get", "yield"}
    /\ stop => outcome # "none"

Types ==
    /\ prod \in [at: Places, chunk: Nat \X Nat, waits: BOOLEAN]
    /\ InPlan
    /\ ahead \subseteq Files /\ body \subseteq Files
    /\ queue \in Seq(Item) /\ Len(queue) <= Capacity
    /\ got \in Seq(Data)
    /\ reader \in {"get", "yield", "drain", "over"}
    /\ stop \in BOOLEAN
    /\ outcome \in {"none", "done", "failed", "left"}
    /\ lost \in SUBSET {Done, Err}
    /\ Told

LEMMA PlanOk ==
    /\ Plan \in Seq([file: BOOLEAN, size: Nat]) /\ Len(Plan) \in Nat
    /\ Entries = 1..Len(Plan)
    /\ \A i \in Entries : Plan[i].size \in Nat /\ Plan[i].file \in BOOLEAN
    /\ Capacity \in Nat \ {0} /\ PrefetchMax \in Nat \ {0} /\ PrefetchBytes \in Nat
<1>1. Plan \in Seq([file: BOOLEAN, size: Nat])
    BY TarAssumption
<1>2. Len(Plan) \in Nat /\ Entries = 1..Len(Plan)
    BY <1>1, LenProperties DEF Entries
<1>3. \A i \in Entries : Plan[i] \in [file: BOOLEAN, size: Nat]
    BY <1>1, <1>2, ElementOfSeq
<1> QED
    BY <1>1, <1>2, <1>3, TarAssumption

LEMMA ChunkOf ==
    /\ Stream!Trailer \in Data /\ Stream!Flush \in Data
    /\ \A i \in Entries : \A k \in 0..Plan[i].size : <<i, k>> \in Data
    /\ Stream!Trailer = <<Len(Plan) + 1, 0>> /\ Stream!Flush = <<0, 0>> /\ Stream!Start = <<0, 1>>
    BY DEF Data, Stream!Chunks, Stream!Trailer, Stream!Flush, Stream!Start, Stream!Entries, Entries

LEMMA DataShape ==
    ASSUME NEW c \in Data
    PROVE  /\ c \in Nat \X Nat
           /\ \/ c = Stream!Trailer \/ c = Stream!Flush
              \/ c[1] \in Entries /\ c[2] \in 0..Plan[c[1]].size
<1>1. c = Stream!Trailer \/ c = Stream!Flush
      \/ \E i \in Entries : \E k \in 0..Plan[i].size : c = <<i, k>>
    BY DEF Data, Stream!Chunks, Stream!Entries, Entries
<1>2. CASE c = Stream!Trailer \/ c = Stream!Flush
    BY <1>2, PlanOk, ChunkOf
<1>3. CASE \E i \in Entries : \E k \in 0..Plan[i].size : c = <<i, k>>
    BY <1>3, PlanOk
<1> QED
    BY <1>1, <1>2, <1>3

LEMMA MarksAreNoData ==
    /\ Done \notin Data /\ Err \notin Data /\ Done # Err
    /\ Done # Stream!Start /\ Err # Stream!Start
    BY DataShape, ChunkOf DEF Done, Err

LEMMA Appended ==
    ASSUME NEW S, NEW s \in Seq(S), NEW e \in S
    PROVE  /\ Append(s, e) \in Seq(S) /\ Len(Append(s, e)) = Len(s) + 1
           /\ Append(s, e)[Len(s) + 1] = e /\ Append(s, e) # <<>>
           /\ \A n \in 1..Len(s) : Append(s, e)[n] = s[n]
    OBVIOUS

LEMMA Headed ==
    ASSUME NEW S, NEW s \in Seq(S), s # <<>>
    PROVE  /\ Head(s) \in S /\ Head(s) = s[1] /\ Tail(s) \in Seq(S)
           /\ Len(s) \in Nat \ {0} /\ Len(Tail(s)) = Len(s) - 1
           /\ \A n \in 1..Len(Tail(s)) : Tail(s)[n] = s[n + 1]
    BY HeadTailProperties, EmptySeq

LEMMA FilledFiles ==
    ASSUME NEW A \in SUBSET Files, NEW i
    PROVE  Fill(A, i) \subseteq Files
    BY DEF Fill

LEMMA InitTypes == Init => Types
<1> SUFFICES ASSUME Init
             PROVE  Types
    OBVIOUS
<1>1. prod = [at |-> "entry", chunk |-> <<1, 0>>, waits |-> FALSE]
    BY DEF Init, At
<1>2. InPlan
    BY <1>1, PlanOk, ChunkOf DEF InPlan, I, K
<1>3. ahead \subseteq Files
    BY FilledFiles DEF Init
<1>4. prod \in [at: Places, chunk: Nat \X Nat, waits: BOOLEAN]
    BY <1>1 DEF Places
<1>5. queue \in Seq(Item) /\ Len(queue) <= Capacity /\ got \in Seq(Data)
    BY PlanOk, EmptySeq DEF Init
<1>6. Told /\ stop \in BOOLEAN
    BY DEF Init, Told
<1> QED
    BY <1>2, <1>3, <1>4, <1>5, <1>6 DEF Init, Types

LEMMA ProdIs ==
    ASSUME Types
    PROVE  prod = [at |-> prod.at, chunk |-> <<I, K>>, waits |-> prod.waits]
           /\ I \in Nat /\ K \in Nat /\ prod.chunk = <<I, K>>
    BY DEF Types, I, K

\* The thread takes another place.
LEMMA ProdMoves ==
    ASSUME Types, NEW at \in Places, NEW i \in Nat, NEW k \in Nat, prod' = At(at, i, k)
    PROVE  /\ prod' \in [at: Places, chunk: Nat \X Nat, waits: BOOLEAN]
           /\ prod'.at = at /\ I' = i /\ K' = k /\ prod'.chunk = <<i, k>>
    BY DEF At, I, K

LEMMA TypesStep == Types /\ [Next]_vars => Types'
<1> SUFFICES ASSUME Types, [Next]_vars
             PROVE  Types'
    OBVIOUS
<1> USE DEF Places
<1>1. CASE StartEntry
  <2>1. prod.at = "entry" /\ prod' = [prod EXCEPT !.at = "write"]
        /\ UNCHANGED <<queue, stop, reader, got, outcome, lost>>
      BY <1>1 DEF StartEntry
  <2>2. prod' \in [at: Places, chunk: Nat \X Nat, waits: BOOLEAN] /\ prod'.at = "write"
        /\ I' = I /\ K' = K /\ prod'.chunk = prod.chunk
      BY <2>1 DEF Types, I, K
  <2>3. ahead' \subseteq Files /\ body' \subseteq Files
      BY <1>1 DEF StartEntry, Types
  <2>4. InPlan'
      BY <2>2 DEF Types, InPlan
  <2> QED
      BY <2>1, <2>2, <2>3, <2>4 DEF Types, Told
<1>2. CASE Skip
  <2>1. I \in Entries /\ prod' = At("entry", I + 1, 0) /\ UNCHANGED <<body, queue, stop, reader, got, outcome, lost>>
        /\ ahead' = Fill(ahead \ {I}, I)
      BY <1>2 DEF Skip, Files
  <2>2. prod' \in [at: Places, chunk: Nat \X Nat, waits: BOOLEAN] /\ prod'.at = "entry"
        /\ I' = I + 1 /\ K' = 0 /\ prod'.chunk = <<I + 1, 0>>
      BY <2>1, ProdMoves, ProdIs
  <2>3. InPlan'
    <3>1. I + 1 = Len(Plan) + 1 \/ I + 1 \in Entries
        BY <2>1, PlanOk
    <3>2. I + 1 \in Entries => 0 \in 0..Plan[I + 1].size
        BY PlanOk
    <3> QED
        BY <2>2, <3>1, <3>2, ChunkOf DEF InPlan
  <2>4. ahead' \subseteq Files
      BY <2>1, FilledFiles DEF Types
  <2> QED
      BY <2>1, <2>2, <2>3, <2>4 DEF Types, Told
<1>3. CASE Try \/ TryAgain
  <2>1. /\ prod' = [prod EXCEPT !.waits = TRUE] \/ prod' = [prod EXCEPT !.waits = FALSE]
        /\ UNCHANGED <<ahead, body, queue, stop, reader, got, outcome, lost>>
      BY <1>3 DEF Try, TryAgain
  <2>2. prod' \in [at: Places, chunk: Nat \X Nat, waits: BOOLEAN] /\ prod'.at = prod.at
        /\ I' = I /\ K' = K /\ prod'.chunk = prod.chunk
      BY <2>1 DEF Types, I, K
  <2>3. InPlan'
      BY <2>2 DEF Types, InPlan
  <2> QED
      BY <2>1, <2>2, <2>3 DEF Types, Told
<1>4. CASE Abort \/ ReadFails
  <2>1. /\ prod' = At("mark", I, K) \/ (prod' = At("flush", I, K) /\ K > 0)
        /\ ahead' = {} /\ body' = {} /\ UNCHANGED <<queue, stop, reader, got, outcome, lost>>
      BY <1>4 DEF Abort, ReadFails
  <2>2. /\ prod' \in [at: Places, chunk: Nat \X Nat, waits: BOOLEAN]
        /\ prod'.at = "mark" \/ (prod'.at = "flush" /\ K > 0)
        /\ I' = I /\ K' = K /\ prod'.chunk = prod.chunk
      BY <2>1, ProdMoves, ProdIs
  <2>3. InPlan'
      BY <2>2, ProdIs, ChunkOf DEF Types, InPlan
  <2> QED
      BY <2>1, <2>2, <2>3 DEF Types, Told
<1>5. CASE Write
  <2>1. /\ Len(queue) < Capacity /\ UNCHANGED <<stop, reader, got, outcome, lost>>
        /\ queue' = Append(queue, IF prod.at = "flush" THEN Stream!Flush ELSE prod.chunk)
        /\ AfterChunk
      BY <1>5 DEF Write, Free
  <2>2. (IF prod.at = "flush" THEN Stream!Flush ELSE prod.chunk) \in Item
    <3>1. prod.chunk = Stream!Trailer \/ (I \in Entries /\ K \in 0..Plan[I].size)
        BY DEF Types, InPlan
    <3>2. prod.chunk \in Data
        BY <3>1, ChunkOf, ProdIs
    <3> QED
        BY <3>2, ChunkOf DEF Item
  <2>3. queue' \in Seq(Item) /\ Len(queue') <= Capacity
      BY <2>1, <2>2, Appended, PlanOk, LenProperties DEF Types
  <2>4. CASE prod' = At("error", I, K) \/ prod' = At("mark", I, K)
    <3>1. prod' \in [at: Places, chunk: Nat \X Nat, waits: BOOLEAN] /\ prod'.at \in {"error", "mark"}
          /\ I' = I /\ K' = K /\ prod'.chunk = prod.chunk
        BY <2>4, ProdMoves, ProdIs
    <3>2. InPlan'
        BY <3>1 DEF Types, InPlan
    <3>3. UNCHANGED <<body, ahead>>
        BY <2>1, <2>4 DEF AfterChunk, At
    <3> QED
        BY <2>1, <2>3, <3>1, <3>2, <3>3 DEF Types, Told
  <2>5. CASE prod.chunk # Stream!Trailer /\ K < Plan[I].size /\ prod' = At("write", I, K + 1)
             /\ UNCHANGED <<body, ahead>>
    <3>1. prod' \in [at: Places, chunk: Nat \X Nat, waits: BOOLEAN] /\ prod'.at = "write"
          /\ I' = I /\ K' = K + 1 /\ prod'.chunk = <<I, K + 1>>
        BY <2>5, ProdMoves, ProdIs
    <3>2. I \in Entries /\ K + 1 \in 0..Plan[I].size
        BY <2>5, ProdIs, PlanOk, SMTT(40) DEF Types, InPlan
    <3>3. InPlan'
        BY <3>1, <3>2 DEF InPlan
    <3> QED
        BY <2>1, <2>3, <2>5, <3>1, <3>3 DEF Types, Told
  <2>6. CASE prod.chunk # Stream!Trailer /\ prod' = At("entry", I + 1, 0) /\ body' = {}
             /\ ahead' = IF I \in Files THEN Fill(ahead, I) ELSE ahead
    <3>1. prod' \in [at: Places, chunk: Nat \X Nat, waits: BOOLEAN] /\ prod'.at = "entry"
          /\ I' = I + 1 /\ K' = 0 /\ prod'.chunk = <<I + 1, 0>>
        BY <2>6, ProdMoves, ProdIs
    <3>2. I \in Entries
        BY <2>6 DEF Types, InPlan
    <3>3. InPlan'
        BY <3>1, <3>2, PlanOk, ChunkOf DEF InPlan
    <3>4. ahead' \subseteq Files
        BY <2>6, FilledFiles DEF Types
    <3> QED
        BY <2>1, <2>3, <2>6, <3>1, <3>3, <3>4 DEF Types, Told
  <2> QED
      BY <2>1, <2>4, <2>5, <2>6 DEF AfterChunk
<1>6. CASE PutError \/ PutMark
  <2>1. PICK item \in {Done, Err}, next \in {"mark", "ended"} : PutLast(item, next)
      BY <1>6 DEF PutError, PutMark
  <2>2. /\ prod' = At(next, I, K) /\ UNCHANGED <<ahead, body, stop, reader, got, outcome>>
        /\ lost' \in {lost, lost \cup {item}}
        /\ (Len(queue) < Capacity /\ queue' = Append(queue, item)) \/ UNCHANGED queue
      BY <2>1 DEF PutLast, Free
  <2>3. prod' \in [at: Places, chunk: Nat \X Nat, waits: BOOLEAN] /\ prod'.at = next
        /\ I' = I /\ K' = K /\ prod'.chunk = prod.chunk
      BY <2>2, ProdMoves, ProdIs
  <2>4. InPlan'
      BY <2>3 DEF Types, InPlan
  <2>5. queue' \in Seq(Item) /\ Len(queue') <= Capacity
    <3>1. queue \in Seq(Item) /\ Len(queue) <= Capacity /\ Len(queue) \in Nat /\ item \in Item
        BY LenProperties DEF Types, Item
    <3>2. CASE Len(queue) < Capacity /\ queue' = Append(queue, item)
        BY <3>1, <3>2, Appended, PlanOk
    <3>3. CASE UNCHANGED queue
        BY <3>1, <3>3
    <3> QED
        BY <2>2, <3>2, <3>3
  <2> QED
      BY <2>2, <2>3, <2>4, <2>5 DEF Types, Told
<1>7. CASE Get
  <2>1. /\ reader = "get" /\ queue # <<>> /\ queue' = Tail(queue) /\ UNCHANGED <<prod, ahead, body, lost>>
        /\ \/ Finish("done") /\ UNCHANGED got
           \/ Finish("failed") /\ UNCHANGED got
           \/ /\ Head(queue) \notin {Done, Err} /\ got' = Append(got, Head(queue))
              /\ reader' = "yield" /\ UNCHANGED <<stop, outcome>>
      BY <1>7 DEF Get
  <2>2. queue' \in Seq(Item) /\ Len(queue') <= Capacity /\ Head(queue) \in Item
      BY <2>1, Headed, PlanOk DEF Types
  <2>3. got' \in Seq(Data)
    <3>1. got \in Seq(Data)
        BY DEF Types
    <3>2. Head(queue) \in Data => Append(got, Head(queue)) \in Seq(Data)
        BY <3>1, Appended
    <3> QED
        BY <2>1, <2>2, <3>1, <3>2 DEF Item
  <2>4. InPlan'
      BY <2>1 DEF Types, InPlan, I, K
  <2>5. /\ Told' /\ stop' \in BOOLEAN /\ outcome' \in {"none", "done", "failed", "left"}
        /\ reader' \in {"get", "yield", "drain", "over"}
    <3>1. CASE Finish("done") \/ Finish("failed")
        BY <3>1 DEF Finish, Told
    <3>2. CASE reader' = "yield" /\ UNCHANGED <<stop, outcome>>
        BY <2>1, <3>2 DEF Types, Told
    <3> QED
        BY <2>1, <3>1, <3>2
  <2> QED
      BY <2>1, <2>2, <2>3, <2>4, <2>5 DEF Types
<1>8. CASE Resume \/ Leave
  <2>1. UNCHANGED <<prod, ahead, body, queue, got, lost>>
      BY <1>8 DEF Resume, Leave
  <2>2. InPlan'
      BY <2>1 DEF Types, InPlan, I, K
  <2>3. /\ Told' /\ stop' \in BOOLEAN /\ outcome' \in {"none", "done", "failed", "left"}
        /\ reader' \in {"get", "yield", "drain", "over"}
    <3>1. CASE Resume
        BY <3>1 DEF Resume, Types, Told
    <3>2. CASE Leave
        BY <3>2 DEF Leave, Finish, Told
    <3> QED
        BY <1>8, <3>1, <3>2
  <2> QED
      BY <2>1, <2>2, <2>3 DEF Types
<1>9. CASE Drain
  <2>1. UNCHANGED <<prod, ahead, body, stop, got, outcome, lost>> /\ reader = "drain"
        /\ reader' \in {"drain", "over"}
        /\ (queue' = queue \/ (queue # <<>> /\ queue' = Tail(queue)))
      BY <1>9 DEF Drain
  <2>2. InPlan'
      BY <2>1 DEF Types, InPlan, I, K
  <2>3. queue' \in Seq(Item) /\ Len(queue') <= Capacity
    <3>1. queue \in Seq(Item) /\ Len(queue) <= Capacity
        BY DEF Types
    <3>2. queue # <<>> => Tail(queue) \in Seq(Item) /\ Len(Tail(queue)) <= Capacity
        BY <3>1, Headed, PlanOk
    <3> QED
        BY <2>1, <3>1, <3>2
  <2> QED
      BY <2>1, <2>2, <2>3 DEF Types, Told
<1>10. CASE UNCHANGED vars
  <2>1. InPlan'
      BY <1>10 DEF Types, InPlan, I, K, vars
  <2> QED
      BY <1>10, <2>1 DEF Types, Told, vars
<1> QED
    BY <1>1, <1>2, <1>3, <1>4, <1>5, <1>6, <1>7, <1>8, <1>9, <1>10 DEF Next, Producer, Consumer

-----------------------------------------------------------------------------
\* The pipeline: what was sent, what waits in the queue, and the chunk in hand follow one
\* another as ByteStream asks.

Sent == Stream!Last
Prev(n) == IF n = 1 THEN Sent ELSE queue[n - 1]
Newest == IF queue = <<>> THEN Sent ELSE queue[Len(queue)]

\* The mark comes after the trailer or the error, which may be among what was given up, L.
BeforeMark(c, L) == c \in {Stream!Trailer, Err} \/ (c = Stream!Flush /\ Err \in L)

\* d may come after c: a chunk that follows it, or the mark after the trailer or an error.
MayFollow(c, d, L) ==
    /\ d \in Data => /\ c \in Data \cup {Stream!Start} /\ c # Stream!Flush
                     /\ Stream!Follows(c, d)
    /\ d = Done => BeforeMark(c, L)

Chain == \A n \in 1..Len(queue) : MayFollow(Prev(n), queue[n], lost)

\* The entry before the i-th is complete, up to files that were left out.
Ready(c, i) ==
    /\ c \in Data \cup {Stream!Start} /\ c # Stream!Flush
    /\ Stream!Whole(c) /\ c[1] < i /\ Stream!Skippable(c[1], i)

InHand ==
    /\ prod.at = "entry" => K = 0 /\ Ready(Newest, I)
    /\ prod.at = "write" => IF K = 0 THEN Ready(Newest, I) ELSE Newest = <<I, K - 1>>
    /\ prod.at = "flush" => /\ Newest \in Data \cup {Stream!Start}
                            /\ Newest \notin {Stream!Flush, Stream!Trailer}
    /\ prod.at = "error" => Newest = Stream!Flush
    /\ prod.at = "mark" => BeforeMark(Newest, lost)

Links == outcome = "none" => Chain /\ InHand

LEMMA MoreLost ==
    ASSUME NEW L, NEW M, L \subseteq M, NEW c, NEW d, MayFollow(c, d, L)
    PROVE  MayFollow(c, d, M)
    BY DEF MayFollow, BeforeMark

LEMMA SentIs ==
    ASSUME Types
    PROVE  Sent \in Data \cup {Stream!Start}
<1>1. got \in Seq(Data)
    BY DEF Types
<1>2. got # <<>> => Len(got) \in 1..Len(got)
    BY <1>1, EmptySeq
<1>3. got # <<>> => got[Len(got)] \in Data
    BY <1>1, <1>2, ElementOfSeq
<1> QED
    BY <1>3 DEF Sent, Stream!Last

LEMMA FilesAreFiles == Files = {i \in Entries : Plan[i].file} /\ Stream!Entries = Entries
    BY DEF Files, Stream!Entries, Entries

LEMMA InitLinks == Init => Links
<1> SUFFICES ASSUME Init
             PROVE  Chain /\ InHand
    BY DEF Links
<1>1. prod.at = "entry" /\ I = 1 /\ K = 0
    BY DEF Init, At, I, K
<1>2. Newest = Stream!Start
    BY DEF Init, Newest, Sent, Stream!Last
<1>3. Ready(Stream!Start, 1)
  <2>1. Stream!Start # Stream!Flush /\ Stream!Start[1] = 0
      BY ChunkOf
  <2>2. Stream!Skippable(0, 1)
      BY PlanOk, FilesAreFiles DEF Stream!Skippable
  <2> QED
      BY <2>1, <2>2 DEF Ready, Stream!Whole
<1>4. Chain
    BY DEF Init, Chain
<1> QED
    BY <1>1, <1>2, <1>3, <1>4 DEF InHand

\* Nothing is put and nothing is taken.
LEMMA SamePipe ==
    ASSUME UNCHANGED <<queue, got>>, lost \subseteq lost'
    PROVE  /\ Sent' = Sent /\ Newest' = Newest
           /\ Chain => Chain'
<1>1. Sent' = Sent
    BY DEF Sent, Stream!Last
<1>2. ASSUME Chain, NEW n \in 1..Len(queue)
      PROVE  MayFollow(Prev(n), queue[n], lost')
    BY <1>2, MoreLost DEF Chain
<1>3. \A n : Prev(n)' = Prev(n)
    BY <1>1 DEF Prev
<1> QED
    BY <1>1, <1>2, <1>3 DEF Newest, Chain

\* Something that may follow is put.
LEMMA PipeGrows ==
    ASSUME Types, Chain, NEW c \in Item, MayFollow(Newest, c, lost'),
           queue' = Append(queue, c), UNCHANGED got, lost \subseteq lost'
    PROVE  Chain' /\ Newest' = c
<1>1. Sent' = Sent
    BY DEF Sent, Stream!Last
<1>2. /\ queue \in Seq(Item) /\ Len(queue) \in Nat
      /\ Len(queue') = Len(queue) + 1 /\ queue'[Len(queue) + 1] = c /\ queue' # <<>>
      /\ \A n \in 1..Len(queue) : queue'[n] = queue[n]
    BY Appended, LenProperties DEF Types
<1>3. Newest' = c
    BY <1>2 DEF Newest
<1>4. ASSUME NEW n \in 1..Len(queue')
      PROVE  MayFollow(Prev(n)', queue'[n], lost')
  <2>1. CASE n \in 1..Len(queue)
    <3>1. Prev(n)' = Prev(n)
        BY <1>1, <1>2, <2>1 DEF Prev
    <3> QED
        BY <1>2, <2>1, <3>1, MoreLost DEF Chain
  <2>2. CASE n = Len(queue) + 1
    <3>1. Prev(n)' = Newest
      <4>1. CASE queue = <<>>
          BY <1>1, <2>2, <4>1, EmptySeq DEF Prev, Newest
      <4>2. CASE queue # <<>>
        <5>1. Len(queue) \in 1..Len(queue) /\ n # 1
            BY <1>2, <2>2, <4>2, EmptySeq
        <5> QED
            BY <1>2, <2>2, <4>2, <5>1 DEF Prev, Newest
      <4> QED
          BY <4>1, <4>2
    <3> QED
        BY <1>2, <2>2, <3>1
  <2> QED
      BY <1>2, <2>1, <2>2
<1>5. Chain'
    BY <1>4 DEF Chain
<1> QED
    BY <1>3, <1>5

\* The first chunk of the queue is sent.
LEMMA PipeMoves ==
    ASSUME Types, Chain, queue # <<>>, Head(queue) \in Data,
           got' = Append(got, Head(queue)), queue' = Tail(queue), UNCHANGED lost
    PROVE  Chain' /\ Newest' = Newest
<1>1. /\ queue \in Seq(Item) /\ Head(queue) = queue[1] /\ Len(queue) \in Nat \ {0}
      /\ queue' \in Seq(Item) /\ Len(queue') = Len(queue) - 1
      /\ \A n \in 1..Len(queue') : queue'[n] = queue[n + 1]
    BY Headed DEF Types
<1>2. Sent' = queue[1]
    BY <1>1, Appended DEF Types, Sent, Stream!Last
<1>3. Newest' = Newest
  <2>1. CASE Len(queue) = 1
    <3>1. queue' = <<>>
        BY <1>1, <2>1, EmptySeq
    <3> QED
        BY <1>2, <2>1, <3>1 DEF Newest
  <2>2. CASE Len(queue) # 1
    <3>1. Len(queue') \in 1..Len(queue') /\ queue' # <<>>
        BY <1>1, <2>2, EmptySeq
    <3> QED
        BY <1>1, <3>1 DEF Newest
  <2> QED
      BY <2>1, <2>2
<1>4. ASSUME NEW n \in 1..Len(queue')
      PROVE  MayFollow(Prev(n)', queue'[n], lost')
  <2>1. n + 1 \in 1..Len(queue) /\ n \in Nat /\ n + 1 # 1
      BY <1>1
  <2>2. Prev(n)' = Prev(n + 1)
    <3>1. CASE n = 1
        BY <1>2, <3>1 DEF Prev
    <3>2. CASE n # 1
      <4>1. n - 1 \in 1..Len(queue')
          BY <1>1, <2>1, <3>2
      <4>2. queue'[n - 1] = queue[(n - 1) + 1]
          BY <1>1, <4>1
      <4> QED
          BY <2>1, <3>2, <4>2 DEF Prev
    <3> QED
        BY <3>1, <3>2
  <2>3. MayFollow(Prev(n + 1), queue[n + 1], lost)
      BY <2>1 DEF Chain
  <2> QED
      BY <1>1, <2>2, <2>3
<1>5. Chain'
    BY <1>4 DEF Chain
<1> QED
    BY <1>3, <1>5

\* The chunk in hand may follow, whatever it is.
LEMMA HandFollows ==
    ASSUME Types, InHand, prod.at = "write"
    PROVE  prod.chunk \in Data /\ MayFollow(Newest, prod.chunk, lost)
<1>1. /\ prod.chunk = <<I, K>> /\ I \in Nat /\ K \in Nat
      /\ prod.chunk = Stream!Trailer \/ (I \in Entries /\ K \in 0..Plan[I].size)
    BY ProdIs DEF Types, InPlan
<1>2. prod.chunk \in Data /\ prod.chunk # Done
    BY <1>1, ChunkOf, MarksAreNoData
<1>3. CASE K = 0
  <2>1. Ready(Newest, I)
      BY <1>3 DEF InHand
  <2>2. Stream!Follows(Newest, prod.chunk)
      BY <1>1, <1>3, <2>1 DEF Ready, Stream!Follows
  <2> QED
      BY <1>2, <2>1, <2>2 DEF Ready, MayFollow
<1>4. CASE K # 0
  <2>1. Newest = <<I, K - 1>> /\ I \in Entries /\ K - 1 \in 0..Plan[I].size
      BY <1>1, <1>4, ChunkOf, PlanOk DEF InHand
  <2>2. Newest \in Data /\ Newest # Stream!Flush
      BY <2>1, ChunkOf, PlanOk
  <2>3. Stream!Follows(Newest, prod.chunk)
      BY <1>1, <1>2, <2>1 DEF Stream!Follows, Data
  <2> QED
      BY <1>2, <2>2, <2>3 DEF MayFollow
<1> QED
    BY <1>3, <1>4

-----------------------------------------------------------------------------
\* The pipeline stays linked

\* The thread goes on without putting anything.
LEMMA ThreadGoesOn ==
    ASSUME Links, UNCHANGED <<queue, got, outcome, lost>>, outcome = "none" => InHand'
    PROVE  Links'
    BY SamePipe DEF Links

LEMMA ReadyMoves ==
    ASSUME NEW c, NEW i \in Nat, Ready(c, i), i \in Files
    PROVE  Ready(c, i + 1)
<1>1. c[1] \in Nat
    BY DataShape, ChunkOf DEF Ready
<1>2. \A n \in Stream!Entries : c[1] < n /\ n < i + 1 => Plan[n].file
  <2> SUFFICES ASSUME NEW n \in Stream!Entries, c[1] < n, n < i + 1
               PROVE  Plan[n].file
      OBVIOUS
  <2>1. n \in Nat
      BY PlanOk, FilesAreFiles
  <2>2. CASE n < i
      BY <2>2 DEF Ready, Stream!Skippable
  <2>3. CASE n = i
      BY <2>3, FilesAreFiles
  <2> QED
      BY <2>1, <2>2, <2>3
<1> QED
    BY <1>1, <1>2 DEF Ready, Stream!Skippable

LEMMA WriteLinks ==
    ASSUME Types, Links, Write
    PROVE  Links'
<1> SUFFICES ASSUME outcome = "none"
             PROVE  Links'
    BY DEF Write, Links
<1>1. Chain /\ InHand
    BY DEF Links
<1> DEFINE c == IF prod.at = "flush" THEN Stream!Flush ELSE prod.chunk
<1>2. /\ prod.at \in {"write", "flush"} /\ UNCHANGED <<got, outcome, lost>>
      /\ queue' = Append(queue, c) /\ AfterChunk
    BY DEF Write, Writing
<1>3. c \in Data /\ MayFollow(Newest, c, lost')
  <2>1. CASE prod.at = "write"
      BY <1>1, <1>2, <2>1, HandFollows
  <2>2. CASE prod.at = "flush"
    <3>1. Newest \in Data \cup {Stream!Start} /\ Newest \notin {Stream!Flush, Stream!Trailer}
        BY <1>1, <2>2 DEF InHand
    <3>2. Stream!Follows(Newest, Stream!Flush)
        BY <3>1 DEF Stream!Follows
    <3> QED
        BY <2>2, <3>1, <3>2, ChunkOf, MarksAreNoData DEF MayFollow
  <2> QED
      BY <1>2, <2>1, <2>2
<1>4. Chain' /\ Newest' = c
    BY <1>1, <1>2, <1>3, PipeGrows DEF Item
<1>5. prod = [at |-> prod.at, chunk |-> <<I, K>>, waits |-> prod.waits] /\ prod.chunk = <<I, K>>
      /\ I \in Nat /\ K \in Nat
    BY ProdIs
<1>6. InHand'
  <2>1. CASE prod.at = "flush" /\ prod' = At("error", I, K)
    <3>1. prod'.at = "error"
        BY <1>5, <2>1, ProdMoves DEF Places
    <3> QED
        BY <1>4, <2>1, <3>1 DEF InHand
  <2>2. CASE prod.at = "write" /\ prod.chunk = Stream!Trailer /\ prod' = At("mark", I, K)
    <3>1. prod'.at = "mark"
        BY <1>5, <2>2, ProdMoves DEF Places
    <3> QED
        BY <1>4, <2>2, <3>1 DEF InHand, BeforeMark
  <2>3. CASE prod.at = "write" /\ prod.chunk # Stream!Trailer /\ prod' = At("write", I, K + 1)
    <3>1. prod'.at = "write" /\ I' = I /\ K' = K + 1
        BY <1>5, <2>3, ProdMoves DEF Places
    <3>2. Newest' = <<I', K' - 1>> /\ K' # 0
        BY <1>4, <1>5, <2>3, <3>1
    <3> QED
        BY <3>1, <3>2 DEF InHand
  <2>4. CASE /\ prod.at = "write" /\ prod.chunk # Stream!Trailer /\ K = Plan[I].size
             /\ prod' = At("entry", I + 1, 0)
    <3>1. prod'.at = "entry" /\ I' = I + 1 /\ K' = 0
        BY <1>5, <2>4, ProdMoves DEF Places
    <3>2. Newest' = <<I, K>> /\ I \in Entries /\ I # 0
        BY <1>4, <1>5, <2>4, PlanOk DEF Types, InPlan
    <3>3. Ready(<<I, K>>, I + 1)
      <4>1. <<I, K>> \in Data /\ <<I, K>> # Stream!Flush
          BY <1>3, <1>5, <2>4, <3>2, ChunkOf
      <4>2. Stream!Whole(<<I, K>>) /\ Stream!Skippable(I, I + 1)
          BY <2>4, <3>2, PlanOk, FilesAreFiles DEF Stream!Whole, Stream!Skippable
      <4> QED
          BY <1>5, <4>1, <4>2 DEF Ready
    <3>4. Ready(Newest', I')
        BY <3>1, <3>2, <3>3
    <3> QED
        BY <3>1, <3>4 DEF InHand, Ready
  <2> QED
      BY <1>2, <2>1, <2>2, <2>3, <2>4 DEF AfterChunk
<1> QED
    BY <1>4, <1>6 DEF Links

LEMMA PutLastLinks ==
    ASSUME Types, Links, PutError \/ PutMark
    PROVE  Links'
<1> SUFFICES ASSUME outcome = "none"
             PROVE  Links'
    BY DEF PutError, PutMark, PutLast, Links
<1>1. Chain /\ InHand /\ reader # "over"
    BY DEF Links, Types, Told
<1>2. PICK item, next :
          /\ \/ prod.at = "error" /\ item = Err /\ next = "mark"
             \/ prod.at = "mark" /\ item = Done /\ next = "ended"
          /\ PutLast(item, next)
    BY DEF PutError, PutMark
<1>3. prod' = At(next, I, K) /\ prod'.at = next /\ UNCHANGED <<got, outcome>>
    BY <1>2 DEF PutLast, At
<1>4. item \in Item /\ MayFollow(Newest, item, lost)
    BY <1>1, <1>2, MarksAreNoData DEF InHand, MayFollow, BeforeMark, Item
<1>5. CASE queue' = Append(queue, item) /\ UNCHANGED lost
  <2>1. Chain' /\ Newest' = item
      BY <1>1, <1>3, <1>4, <1>5, PipeGrows
  <2>2. InHand'
      BY <1>2, <1>3, <2>1 DEF InHand, BeforeMark
  <2> QED
      BY <2>1, <2>2 DEF Links
\* The error or the mark is given up: it counts as lost.
<1>6. CASE UNCHANGED queue /\ lost' = lost \cup {item}
  <2>1. Chain' /\ Newest' = Newest
      BY <1>1, <1>3, <1>6, SamePipe
  <2>2. InHand'
      BY <1>1, <1>2, <1>3, <1>6, <2>1 DEF InHand, BeforeMark
  <2> QED
      BY <2>1, <2>2 DEF Links
<1> QED
    BY <1>1, <1>2, <1>5, <1>6 DEF PutLast, GivesUp

LEMMA LinksStep == Types /\ Links /\ [Next]_vars => Links'
<1> SUFFICES ASSUME Types, Links, [Next]_vars
             PROVE  Links'
    OBVIOUS
<1>1. CASE StartEntry
  <2>1. prod.at = "entry" /\ prod' = [prod EXCEPT !.at = "write"] /\ UNCHANGED <<queue, got, outcome, lost>>
      BY <1>1 DEF StartEntry
  <2>2. prod'.at = "write" /\ I' = I /\ K' = K
      BY <2>1 DEF Types, I, K
  <2>3. ASSUME outcome = "none"
        PROVE  InHand'
    <3>1. K = 0 /\ Ready(Newest, I)
        BY <2>1, <2>3 DEF Links, InHand
    <3>2. Newest' = Newest
        BY <2>1, SamePipe
    <3>3. Ready(Newest, I)'
        BY <2>2, <3>1, <3>2 DEF Ready
    <3> QED
        BY <2>2, <3>1, <3>3 DEF InHand
  <2> QED
      BY <2>1, <2>3, ThreadGoesOn
<1>2. CASE Skip
  <2>1. prod.at = "entry" /\ I \in Files /\ prod' = At("entry", I + 1, 0)
        /\ UNCHANGED <<queue, got, outcome, lost>>
      BY <1>2 DEF Skip
  <2>2. prod'.at = "entry" /\ I' = I + 1 /\ K' = 0
      BY <2>1, ProdIs, ProdMoves DEF Places
  <2>3. ASSUME outcome = "none"
        PROVE  InHand'
    <3>1. Ready(Newest, I)
        BY <2>1, <2>3 DEF Links, InHand
    <3>2. Ready(Newest, I + 1)
        BY <2>1, <3>1, ProdIs, ReadyMoves
    <3>3. Newest' = Newest
        BY <2>1, SamePipe
    <3>4. Ready(Newest, I)'
        BY <2>2, <3>2, <3>3 DEF Ready
    <3> QED
        BY <2>2, <3>4 DEF InHand
  <2> QED
      BY <2>1, <2>3, ThreadGoesOn
<1>3. CASE Try \/ TryAgain
  <2>1. /\ prod' = [prod EXCEPT !.waits = TRUE] \/ prod' = [prod EXCEPT !.waits = FALSE]
        /\ UNCHANGED <<queue, got, outcome, lost>>
      BY <1>3 DEF Try, TryAgain
  <2>2. prod'.at = prod.at /\ I' = I /\ K' = K /\ lost' = lost
      BY <2>1 DEF Types, I, K
  <2>3. Newest' = Newest
      BY <2>1, SamePipe
  <2>4. InHand => InHand'
      BY <2>2, <2>3 DEF InHand, BeforeMark, Ready
  <2> QED
      BY <2>1, <2>4, ThreadGoesOn DEF Links
<1>4. CASE Abort
  <2>1. outcome # "none" /\ UNCHANGED <<queue, got, outcome, lost>>
      BY <1>4 DEF Abort, Types, Told
  <2> QED
      BY <2>1 DEF Links
<1>5. CASE ReadFails
  <2>1. prod.at = "write" /\ K > 0 /\ prod' = At("flush", I, K) /\ UNCHANGED <<queue, got, outcome, lost>>
      BY <1>5 DEF ReadFails
  <2>2. prod'.at = "flush"
      BY <2>1 DEF At
  <2>3. ASSUME outcome = "none"
        PROVE  InHand'
    <3>1. Newest = <<I, K - 1>> /\ I \in Entries /\ K - 1 \in 0..Plan[I].size /\ I # 0
          /\ I # Len(Plan) + 1
        BY <2>1, <2>3, ProdIs, ChunkOf, PlanOk, SMTT(40) DEF Links, InHand, Types, InPlan
    <3>2. Newest \in Data /\ Newest \notin {Stream!Flush, Stream!Trailer}
        BY <3>1, ChunkOf
    <3>3. Newest' = Newest
        BY <2>1, SamePipe
    <3> QED
        BY <2>2, <3>2, <3>3 DEF InHand
  <2> QED
      BY <2>1, <2>3, ThreadGoesOn
<1>6. CASE Get
  <2>1. CASE outcome' # "none"
      BY <2>1 DEF Links
  <2>2. CASE outcome' = "none"
    <3>1. /\ queue # <<>> /\ queue' = Tail(queue) /\ UNCHANGED <<prod, outcome, lost>>
          /\ Head(queue) \notin {Done, Err} /\ got' = Append(got, Head(queue))
        BY <1>6, <2>2 DEF Get, Finish
    <3>2. Head(queue) \in Data
        BY <3>1, Headed DEF Types, Item
    <3>3. Chain /\ InHand
        BY <2>2, <3>1 DEF Links
    <3>4. Chain' /\ Newest' = Newest
        BY <3>1, <3>2, <3>3, PipeMoves
    <3>5. InHand'
        BY <3>1, <3>3, <3>4 DEF InHand, Ready, I, K
    <3> QED
        BY <3>4, <3>5 DEF Links
  <2> QED
      BY <2>1, <2>2
<1>7. CASE Leave \/ Drain
  <2>1. outcome' # "none"
      BY <1>7 DEF Leave, Finish, Drain, Types, Told
  <2> QED
      BY <2>1 DEF Links
<1>8. CASE Resume \/ UNCHANGED vars
  <2>1. UNCHANGED <<prod, queue, got, outcome, lost>>
      BY <1>8 DEF Resume, vars
  <2>2. Newest' = Newest
      BY <2>1, SamePipe
  <2>3. InHand => InHand'
      BY <2>1, <2>2 DEF InHand, Ready, I, K
  <2> QED
      BY <2>1, <2>3, ThreadGoesOn DEF Links
<1> QED
    BY <1>1, <1>2, <1>3, <1>4, <1>5, <1>6, <1>7, <1>8, WriteLinks, PutLastLinks
    DEF Next, Producer, Consumer

-----------------------------------------------------------------------------
\* Taking a chunk out of the queue delivers it, taking a mark out ends the stream, and
\* nothing else is seen by the client.
LEMMA StepDelivers ==
    ASSUME Types, Links, [Next]_vars
    PROVE  [Stream!BSNext]_<<got, Ended>>
<1>1. CASE Get
  <2>1. /\ outcome = "none" /\ Ended = "none" /\ queue # <<>> /\ Chain /\ UNCHANGED lost
      BY <1>1 DEF Get, Types, Told, Links, Ended
  <2>2. MayFollow(Sent, Head(queue), lost) /\ Head(queue) \in Item
    <3>1. 1 \in 1..Len(queue) /\ Head(queue) = queue[1] /\ Head(queue) \in Item
        BY <2>1, Headed DEF Types
    <3> QED
        BY <2>1, <3>1 DEF Chain, Prev
  <2>3. CASE Head(queue) = Done
    <3>1. outcome' \in {"done", "failed"} /\ UNCHANGED got
        BY <1>1, <2>3, MarksAreNoData DEF Get, Finish
    <3>2. Sent = Stream!Trailer \/ Err \in lost'
        BY <2>1, <2>2, <2>3, SentIs, MarksAreNoData DEF MayFollow, BeforeMark
    <3>3. Ended' \in {"failed", "left"} \cup (IF Stream!Last = Stream!Trailer THEN {"done"} ELSE {})
        BY <3>1, <3>2 DEF Sent, Ended
    <3>4. Stream!End
        BY <2>1, <3>1, <3>3 DEF Stream!End
    <3> QED
        BY <3>4 DEF Stream!BSNext
  <2>4. CASE Head(queue) = Err
    <3>1. Ended' = "failed" /\ UNCHANGED got
        BY <1>1, <2>4, MarksAreNoData DEF Get, Finish, Ended
    <3>2. Stream!End
        BY <2>1, <3>1 DEF Stream!End
    <3> QED
        BY <3>2 DEF Stream!BSNext
  <2>5. CASE Head(queue) \in Data
    <3>1. got' = Append(got, Head(queue)) /\ UNCHANGED Ended
        BY <1>1, <2>5, MarksAreNoData DEF Get, Ended
    <3>2. Stream!Deliver(Head(queue))
        BY <2>1, <2>2, <2>5, <3>1 DEF MayFollow, Sent, Stream!Deliver
    <3> QED
        BY <2>5, <3>2 DEF Stream!BSNext, Data
  <2> QED
      BY <2>2, <2>3, <2>4, <2>5 DEF Item
<1>2. CASE Leave
  <2>1. Ended = "none" /\ Ended' = "left" /\ UNCHANGED got
      BY <1>2 DEF Leave, Finish, Types, Told, Ended
  <2>2. Stream!End
      BY <2>1 DEF Stream!End
  <2> QED
      BY <2>2 DEF Stream!BSNext
\* Something is given up before the response has ended, or it does not matter any more.
<1>3. CASE PutError \/ PutMark
  <2>1. UNCHANGED <<got, outcome, reader>> /\ (lost' = lost \/ reader = "yield")
      BY <1>3 DEF PutError, PutMark, PutLast
  <2>2. UNCHANGED Ended
      BY <2>1 DEF Types, Told, Ended
  <2> QED
      BY <2>1, <2>2
<1>4. CASE ~ Get /\ ~ Leave /\ ~ PutError /\ ~ PutMark
  <2>1. UNCHANGED <<got, outcome, lost>>
      BY <1>4 DEF Next, Producer, Consumer, StartEntry, Skip, Try, TryAgain, Abort, Write,
         ReadFails, Resume, Drain, vars
  <2> QED
      BY <2>1 DEF Ended
<1> QED
    BY <1>1, <1>2, <1>3, <1>4

\* The queue never holds more than QUEUE_CHUNKS chunks, so a slow client costs no memory,
\* and every variable has its type (tar_stream.py:33).
THEOREM QueueIsBounded == Spec => []TarTypeOK
<1>1. Types => TarTypeOK
  <2> SUFFICES ASSUME Types
               PROVE  TarTypeOK
      OBVIOUS
  <2>1. I \in 1..(Len(Plan) + 1) /\ K \in Nat
    <3>1. prod.chunk = <<I, K>> /\ K \in Nat
        BY ProdIs
    <3>2. CASE prod.chunk = Stream!Trailer
        BY <3>1, <3>2, PlanOk, ChunkOf
    <3>3. CASE I \in Entries
        BY <3>1, <3>3, PlanOk
    <3> QED
        BY <3>1, <3>2, <3>3 DEF Types, InPlan
  <2> QED
      BY <2>1 DEF Types, TarTypeOK, Places, Item, Data
<1> QED
    BY <1>1, InitTypes, TypesStep, PTL DEF Spec

\* What the client gets is an archive of the plan: in order, each entry whole, files that
\* could not be opened left out, and a good end only after the trailer, or where the error
\* was given up because the client took nothing for a second, for any plan and any size of
\* the queue (stream_tar_gz).
THEOREM ArchiveIsDelivered == Spec => ImplementsByteStream
<1>1. Init => Stream!BSInit
    BY DEF Init, Ended, Stream!BSInit
<1>2. Types /\ Links /\ [Next]_vars => (Types /\ Links)'
    BY TypesStep, LinksStep
<1>3. Types /\ Links /\ [Next]_vars => [Stream!BSNext]_<<got, Ended>>
    BY StepDelivers
<1>4. Init => Types /\ Links
    BY InitTypes, InitLinks
<1> QED
    BY <1>1, <1>2, <1>3, <1>4, PTL DEF Spec, ImplementsByteStream, Stream!BSSpec

-----------------------------------------------------------------------------
\* Opening ahead: what is open is the next files of the plan, without a gap.

Below == OpToRel(<, Nat)

LEMMA LeastOne ==
    ASSUME NEW T \in SUBSET Nat, T # {}
    PROVE  \E x \in T : \A y \in T : x <= y
<1>1. IsWellFoundedOn(Below, Nat)
    BY NatLessThanWellFounded DEF Below
<1>2. \A x, y \in Nat : y < x => <<y, x>> \in Below
    BY DEF Below, OpToRel
<1> HIDE DEF Below
<1>3. PICK x \in T : \A y \in T : ~ (<<y, x>> \in Below)
    BY <1>1, WFMin
<1>4. \A y \in T : x <= y
  <2> SUFFICES ASSUME NEW y \in T
               PROVE  x <= y
      OBVIOUS
  <2>1. x \in Nat /\ y \in Nat /\ ~ (y < x)
      BY <1>2, <1>3
  <2> QED
      BY <2>1
<1> QED
    BY <1>4

LEMMA GreatestFile ==
    ASSUME NEW S \in SUBSET Files, S # {}
    PROVE  \E m \in S : \A f \in S : f <= m
<1> DEFINE T == {Len(Plan) - f : f \in S}
<1>1. \A f \in S : f \in 1..Len(Plan)
    BY PlanOk DEF Files
<1>2. T \subseteq Nat /\ T # {}
    BY <1>1, PlanOk
<1>3. PICK x \in T : \A y \in T : x <= y
    BY <1>2, LeastOne
<1>4. PICK m \in S : x = Len(Plan) - m
    OBVIOUS
<1>5. ASSUME NEW f \in S
      PROVE  f <= m
  <2>1. Len(Plan) - f \in T
      OBVIOUS
  <2>2. Len(Plan) - m <= Len(Plan) - f
      BY <1>3, <1>4, <2>1
  <2> QED
      BY <1>1, <2>2, PlanOk
<1> QED
    BY <1>5

\* The bodies A are the first of the files from the l-th entry on.
First(A, l) ==
    /\ \A a \in A : l <= a
    /\ \A f \in Files : l <= f /\ f \notin A => \A a \in A : a < f

\* If there is any such file, one is open.
Some(A, l) == A = {} => \A f \in Files : f < l

Window ==
    /\ Cardinality(ahead \cup body) <= PrefetchMax
    /\ prod.at = "entry" => body = {} /\ First(ahead, I) /\ Some(ahead, I)
    /\ prod.at = "write" => First(ahead, I + 1) /\ (I \in Files \/ Some(ahead, I + 1))

LEMMA FilesFinite ==
    ASSUME NEW A \in SUBSET Files
    PROVE  IsFiniteSet(A) /\ Cardinality(A) \in Nat /\ \A a \in A : a \in Nat \ {0}
<1>1. A \subseteq 1..Len(Plan)
    BY PlanOk DEF Files
<1>2. IsFiniteSet(1..Len(Plan))
    BY FS_Interval, PlanOk
<1>3. IsFiniteSet(A)
    BY <1>1, <1>2, FS_Subset
<1> QED
    BY <1>1, <1>3, FS_CardinalityType, PlanOk

LEMMA FilesNat == \A f \in Files : f \in Nat \ {0}
    BY PlanOk DEF Files

LEMMA FewerFiles ==
    ASSUME NEW A \in SUBSET Files, NEW B \in SUBSET A
    PROVE  Cardinality(B) <= Cardinality(A) /\ Cardinality(A) \in Nat /\ Cardinality(B) \in Nat
    BY FilesFinite, FS_Subset

\* fill opens the next files, at least one if there is any, and never too many.
LEMMA FillOpens ==
    ASSUME NEW i \in Nat, NEW A \in SUBSET Files, First(A, i + 1),
           Cardinality(A) <= PrefetchMax
    PROVE  /\ First(Fill(A, i), i + 1) /\ Some(Fill(A, i), i + 1)
           /\ Cardinality(Fill(A, i)) <= PrefetchMax
<1> DEFINE rest == {f \in Files : i < f /\ \A a \in A : a < f}
           Before(g) == A \cup {h \in rest : h < g}
           new == {f \in rest : \A g \in rest : g <= f => MayOpen(Before(g))}
<1>1. Fill(A, i) = A \cup new
    BY DEF Fill
<1>2. \A f \in Files : f \in Nat
    BY FilesFinite
<1>3. \A f \in Files : i + 1 <= f /\ f \notin A => f \in rest
    BY <1>2 DEF First
<1>4. First(A \cup new, i + 1)
  <2>1. \A a \in A \cup new : i + 1 <= a
      BY <1>2 DEF First
  <2>2. ASSUME NEW f \in Files, i + 1 <= f, f \notin A \cup new, NEW a \in A \cup new
        PROVE  a < f
    <3>1. f \in rest
        BY <1>3, <2>2
    <3>2. CASE a \in A
        BY <2>2, <3>2 DEF First
    <3>3. CASE a \in new
      <4>1. PICK g \in rest : g <= f /\ ~ MayOpen(Before(g))
          BY <2>2, <3>1
      <4>2. ~ (g <= a)
          BY <3>3, <4>1
      <4> QED
          BY <1>2, <3>3, <4>1, <4>2
    <3> QED
        BY <3>2, <3>3
  <2> QED
      BY <2>1, <2>2 DEF First
<1>5. Some(A \cup new, i + 1)
  <2> SUFFICES ASSUME A \cup new = {}, NEW f \in Files, ~ (f < i + 1)
               PROVE  FALSE
      BY DEF Some
  <2>1. f \in rest /\ rest \subseteq Nat
      BY <1>2, <1>3
  <2>2. PICK x \in rest : \A y \in rest : x <= y
      BY <2>1, LeastOne
  <2>3. ASSUME NEW g \in rest, g <= x
        PROVE  MayOpen(Before(g))
    <3>1. Before(g) = {}
      <4>1. \A h \in rest : ~ (h < g)
          BY <2>1, <2>2, <2>3
      <4> QED
          BY <4>1
    <3>2. Cardinality(Before(g)) = 0
        BY <3>1, FS_EmptySet
    <3>3. 0 < PrefetchMax
        BY PlanOk
    <3> QED
        BY <3>1, <3>2, <3>3 DEF MayOpen
  <2>4. x \in new
      BY <2>3
  <2> QED
      BY <2>4
<1>6. Cardinality(A \cup new) <= PrefetchMax
  <2>1. CASE new = {}
      BY <2>1
  <2>2. CASE new # {}
    <3>1. PICK m \in new : \A f \in new : f <= m
        BY <2>2, GreatestFile
    <3>2. MayOpen(Before(m))
        BY <1>2, <3>1
    <3>3. A \cup new = Before(m) \cup {m}
      <4>1. \A h \in rest : h < m => h \in new
        <5> SUFFICES ASSUME NEW h \in rest, h < m, NEW g \in rest, g <= h
                     PROVE  MayOpen(Before(g))
            OBVIOUS
        <5>1. g <= m
            BY <1>2
        <5> QED
            BY <3>1, <5>1
      <4>2. \A f \in new : f < m \/ f = m
          BY <1>2, <3>1
      <4> QED
          BY <3>1, <4>1, <4>2
    <3> DEFINE B == Before(m)
    <3>4. IsFiniteSet(B)
        BY FilesFinite
    <3>5. Cardinality(B) < PrefetchMax
        BY <3>2 DEF MayOpen
    <3> HIDE DEF B
    <3>6. /\ Cardinality(B) \in Nat
          /\ Cardinality(B \cup {m}) = IF m \in B THEN Cardinality(B) ELSE Cardinality(B) + 1
        BY <3>4, FS_AddElement, FS_CardinalityType
    <3>7. Cardinality(B \cup {m}) <= PrefetchMax
        BY <3>5, <3>6, PlanOk
    <3> QED
        BY <3>3, <3>7 DEF B
  <2> QED
      BY <2>1, <2>2
<1> QED
    BY <1>1, <1>4, <1>5, <1>6

\* The file in hand leaves what follows it open.
LEMMA Used ==
    ASSUME Types, NEW l \in Nat, First(ahead, l)
    PROVE  First(ahead \ {l}, l + 1)
    BY FilesNat DEF First, Types

LEMMA InitWindow == Init => Window
<1> SUFFICES ASSUME Init
             PROVE  Window
    OBVIOUS
<1>1. First({}, 0 + 1) /\ Cardinality({}) <= PrefetchMax
    BY FS_EmptySet, PlanOk DEF First
<1>2. First(ahead, 0 + 1) /\ Some(ahead, 0 + 1) /\ Cardinality(ahead) <= PrefetchMax
    BY <1>1, FillOpens DEF Init
<1>3. prod.at = "entry" /\ I = 1 /\ body = {} /\ ahead \cup body = ahead
    BY DEF Init, At, I
<1> QED
    BY <1>2, <1>3 DEF Window

LEMMA WindowStep == Types /\ Window /\ [Next]_vars => Window'
<1> SUFFICES ASSUME Types, Window, [Next]_vars
             PROVE  Window'
    OBVIOUS
<1> USE DEF Places
<1>1. CASE StartEntry
  <2>1. prod.at = "entry" /\ prod' = [prod EXCEPT !.at = "write"]
        /\ IF I \in Files THEN body' = {I} /\ ahead' = ahead \ {I} ELSE UNCHANGED <<body, ahead>>
      BY <1>1 DEF StartEntry
  <2>2. prod'.at = "write" /\ I' = I /\ I \in Nat
      BY <2>1, ProdIs DEF Types, I
  <2>3. body = {} /\ First(ahead, I) /\ Some(ahead, I)
      BY <2>1 DEF Window
  <2>4. CASE I \in Files
    <3>1. I \in ahead
        BY <2>2, <2>3, <2>4, FilesNat DEF First, Some, Types
    <3>2. ahead' \cup body' = ahead \cup body
        BY <2>1, <2>3, <2>4, <3>1
    <3>3. First(ahead', I' + 1)
        BY <2>1, <2>2, <2>3, <2>4, Used
    <3> QED
        BY <2>2, <2>4, <3>2, <3>3 DEF Window, Files, Entries
  <2>5. CASE I \notin Files
    <3>1. First(ahead, I + 1) /\ Some(ahead, I + 1)
        BY <2>2, <2>3, <2>5, FilesNat DEF First, Some, Types
    <3> QED
        BY <2>1, <2>2, <2>5, <3>1 DEF Window, First, Some
  <2> QED
      BY <2>4, <2>5
<1>2. CASE Skip
  <2>1. prod.at = "entry" /\ prod' = At("entry", I + 1, 0) /\ UNCHANGED body
        /\ ahead' = Fill(ahead \ {I}, I)
      BY <1>2 DEF Skip
  <2>2. prod'.at = "entry" /\ I' = I + 1 /\ I \in Nat
      BY <2>1, ProdMoves, ProdIs
  <2>3. body = {} /\ First(ahead \ {I}, I + 1) /\ Cardinality(ahead) <= PrefetchMax
    <3>1. body = {} /\ ahead \cup body = ahead /\ First(ahead, I)
        BY <2>1 DEF Window
    <3> QED
        BY <2>2, <3>1, Used DEF Window
  <2>4. Cardinality(ahead \ {I}) <= PrefetchMax
    <3>1. ahead \in SUBSET Files /\ ahead \ {I} \in SUBSET ahead
        BY DEF Types
    <3>2. /\ Cardinality(ahead \ {I}) <= Cardinality(ahead)
          /\ Cardinality(ahead) \in Nat /\ Cardinality(ahead \ {I}) \in Nat
        BY <3>1, FewerFiles
    <3> QED
        BY <2>3, <3>2, PlanOk
  <2>5. First(ahead', I + 1) /\ Some(ahead', I + 1) /\ Cardinality(ahead') <= PrefetchMax
      BY <2>1, <2>2, <2>3, <2>4, FillOpens DEF Types
  <2>6. ahead' \cup body' = ahead'
      BY <2>1, <2>3
  <2> QED
      BY <2>1, <2>2, <2>3, <2>5, <2>6 DEF Window, First, Some
<1>3. CASE Abort \/ ReadFails
  <2>1. prod'.at \in {"mark", "flush"} /\ ahead' \cup body' = {}
      BY <1>3 DEF Abort, ReadFails, At
  <2>2. Cardinality({}) = 0
      BY FS_EmptySet
  <2>3. 0 <= PrefetchMax
      BY PlanOk
  <2>4. Cardinality((ahead \cup body)') <= PrefetchMax
      BY <2>1, <2>2, <2>3
  <2> QED
      BY <2>1, <2>4 DEF Window
<1>4. CASE Write
  <2>1. AfterChunk
      BY <1>4 DEF Write
  <2>2. CASE prod' = At("error", I, K) \/ prod' = At("mark", I, K)
    <3>1. prod'.at \in {"error", "mark"} /\ UNCHANGED <<ahead, body>>
        BY <2>1, <2>2 DEF AfterChunk, At
    <3> QED
        BY <3>1 DEF Window
  <2>3. CASE prod.at = "write" /\ prod' = At("write", I, K + 1) /\ UNCHANGED <<body, ahead>>
    <3>1. prod'.at = "write" /\ I' = I
        BY <2>3, ProdMoves, ProdIs
    <3> QED
        BY <2>3, <3>1 DEF Window, First, Some, Files, Entries
  <2>4. CASE prod.at = "write" /\ prod' = At("entry", I + 1, 0) /\ body' = {}
             /\ ahead' = IF I \in Files THEN Fill(ahead, I) ELSE ahead
    <3>1. prod'.at = "entry" /\ I' = I + 1 /\ I \in Nat
        BY <2>4, ProdMoves, ProdIs
    <3>2. First(ahead, I + 1) /\ (I \in Files \/ Some(ahead, I + 1))
        BY <2>4 DEF Window
    <3>3. Cardinality(ahead) <= PrefetchMax
      <4>1. ahead \cup body \in SUBSET Files /\ ahead \in SUBSET (ahead \cup body)
          BY DEF Types
      <4>2. /\ Cardinality(ahead) <= Cardinality(ahead \cup body)
            /\ Cardinality(ahead) \in Nat /\ Cardinality(ahead \cup body) \in Nat
          BY <4>1, FewerFiles
      <4>3. Cardinality(ahead \cup body) <= PrefetchMax
          BY DEF Window
      <4> QED
          BY <4>2, <4>3, PlanOk
    <3>4. First(ahead', I + 1) /\ Some(ahead', I + 1) /\ Cardinality(ahead') <= PrefetchMax
      <4>1. CASE I \in Files
          BY <2>4, <3>1, <3>2, <3>3, <4>1, FillOpens DEF Types
      <4>2. CASE I \notin Files
          BY <2>4, <3>2, <3>3, <4>2
      <4> QED
          BY <4>1, <4>2
    <3>5. ahead' \cup body' = ahead'
        BY <2>4
    <3> QED
        BY <2>4, <3>1, <3>4, <3>5 DEF Window, First, Some
  <2> QED
      BY <2>1, <2>2, <2>3, <2>4 DEF AfterChunk
<1>5. CASE PutError \/ PutMark
  <2>1. prod'.at \in {"mark", "ended"} /\ UNCHANGED <<ahead, body>>
      BY <1>5 DEF PutError, PutMark, PutLast, At
  <2> QED
      BY <2>1 DEF Window
<1>6. CASE Try \/ TryAgain \/ Consumer \/ UNCHANGED vars
  <2>1. prod'.at = prod.at /\ I' = I /\ UNCHANGED <<ahead, body>>
      BY <1>6 DEF Try, TryAgain, Consumer, Get, Resume, Leave, Drain, vars, Types, I
  <2> QED
      BY <2>1 DEF Window, First, Some, Files, Entries
<1> QED
    BY <1>1, <1>2, <1>3, <1>4, <1>5, <1>6 DEF Next, Producer

\* No more than PREFETCH_MAX bodies are open at any moment, and the next body is always one
\* the pool was asked for, so futures.pop finds it, for any plan, sizes and bounds
\* (tar_stream.py:45, fill).
THEOREM OpenIsBounded == Spec => []OpenBounded
<1>1. Types /\ Window => OpenBounded
  <2> SUFFICES ASSUME Types, Window
               PROVE  OpenBounded
      OBVIOUS
  <2>1. ASSUME prod.at = "entry", I \in Files
        PROVE  I \in ahead
      BY <2>1, ProdIs, FilesNat DEF Window, First, Some, Types
  <2> QED
      BY <2>1 DEF OpenBounded, Window
<1>2. Types /\ Window /\ [Next]_vars => (Types /\ Window)'
    BY TypesStep, WindowStep
<1> QED
    BY <1>1, <1>2, InitTypes, InitWindow, PTL DEF Spec
=============================================================================
