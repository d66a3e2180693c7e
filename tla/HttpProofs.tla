----------------------------- MODULE HttpProofs -----------------------------
(***************************************************************************)
(* The HTTP door, for any number of workers, chunks and bytes, however the *)
(* requests, their clients and the store interleave: the captured copy of  *)
(* a response is whole or marked as too large, the door keeps the promise  *)
(* of Exchange to its clients, no option opens a way around the gate of a  *)
(* webhook, whoever follows Retry-After comes back after the lease, and a  *)
(* replay answers the request that it is sent for.  Rows are kept under    *)
(* legal keys and apart from each other, and replayed as they came.        *)
(***************************************************************************)
EXTENDS HttpDoor, EngineProofs, CodecProofs, SequenceTheorems

\* What the fields of a capture hold.
CaptureRecords ==
    [ streaming : BOOLEAN, length : Nat, fails : BOOLEAN, at : Nat,
      chunks : Seq(Nat), reads : Seq({"pull", "drain"}),
      clientOpen : BOOLEAN, settled : {"none", "no", "resolved", "rejected"} ]

\* What those of a client hold.
ClientRecords ==
    [ state : {"none", "open", "ended", "broken", "left"},
      stream : {"none", "open", "closing", "cancelling", "closed"},
      queue : Seq(1 .. MaxChunks), got : Seq(1 .. MaxChunks) ]

\* How many of the first n chunks the copy keeps.
Kept(n) == IF n <= Cap THEN n ELSE Cap + 1

\* The copy is what was read of the source, up to the chunk that is over the cap;
\* a record is resolved only when all of the source was read.
CopyFollows(c) ==
    /\ c.at <= c.length
    /\ c.chunks = Whole(Kept(c.at))
    /\ c.settled = "resolved" => c.at = c.length

\* The inductive invariant behind CopyWhole.
CopyInv ==
    /\ capture \in [Workers -> CaptureRecords]
    /\ \A w \in Workers : CopyFollows(capture[w])

\* A client and its stream, beside the capture that feeds it: one read of a pull
\* at most, none once the record is settled; the stream is open only while the
\* capture still feeds it; the client has the chunks that were read, but for the
\* one that is queued.
StreamShape(c, b) ==
    /\ c.length <= MaxChunks
    /\ c.reads \in {<<>>, <<"pull">>, <<"drain">>, <<"pull", "drain">>}
    /\ IF c.settled = "no" THEN c.streaming ELSE c.reads = <<>>
    /\ b.stream \in {"open", "closing", "cancelling"} =>
         c.streaming /\ c.reads \in {<<>>, <<"pull">>}
    /\ b.stream = "open" => c.clientOpen /\ b.state = "open"
    /\ b.stream = "closing" => b.state = "open" /\ c.settled = "resolved"
    /\ b.state = "open" => b.stream \in {"open", "closing"} \/ ~c.streaming
    /\ b.queue # <<>> => c.reads = <<>> /\ b.stream \in {"open", "closing"}
    /\ b.stream \in {"open", "closing"} =>
         \/ b.queue = <<>> /\ b.got = Whole(c.at)
         \/ b.queue = <<c.at>> /\ c.at >= 1 /\ b.got = Whole(c.at - 1)
    /\ ~c.streaming => b.got = <<>> /\ c.length = 0

\* How far an attempt is, and what there is of its response: execute stores or
\* refuses a result only once the copy is whole, and nothing is left of a response
\* when a request is taken up.
ExchangeShape(w) ==
    /\ \/ pc[w] = "complete"
       \/ pc[w] = "abandon" /\ out[w] # "threw"
       \/ pc[w] = "idle" /\ out[w] \notin {"none", "threw"} /\ Captured(w)
       => capture[w].settled = "resolved"
    /\ pc[w] = "begin" => ~Captured(w)
    /\ ~Captured(w) /\ (pc[w] # "idle" \/ out[w] # "none") => client[w] = NoClient
    /\ Captured(w) /\ ~capture[w].streaming /\ (pc[w] # "idle" \/ out[w] # "none") =>
         client[w].state = "open"
    /\ client[w].stream = "closing" => pc[w] = "idle" /\ out[w] = "none"
    /\ request[w] = NoBody =>
         client[w] = NoClient /\ ~Captured(w) /\ pc[w] = "idle" /\ out[w] = "none"

\* The clients, the streams and the attempts, as far as they depend on each other.
ShapeInv ==
    /\ client \in [Workers -> ClientRecords]
    /\ \A w \in Workers : StreamShape(capture[w], client[w]) /\ ExchangeShape(w)

\* What a worker may have at hand.
Bodies == {NoBody} \cup {q.body : q \in HttpRequests}

\* The inductive invariant behind the types and the promise.
ExchangeInv ==
    /\ TypeInv /\ clock <= MaxTime
    /\ request \in [Workers -> Bodies]
    /\ CopyInv /\ ShapeInv

-----------------------------------------------------------------------------
(* Lemmas                                                                  *)

\* The cap is a number.
LEMMA CapNat == Cap \in Nat
  BY ChunkAssumption DEF Cap

\* The first n chunks are a sequence of length n.
LEMMA WholeSeq ==
  ASSUME NEW n \in Nat
  PROVE  Whole(n) \in Seq(Nat) /\ Len(Whole(n)) = n
  BY DEF Whole

\* The next chunk after the first n.
LEMMA WholeGrows ==
  ASSUME NEW n \in Nat
  PROVE  Append(Whole(n), n + 1) = Whole(n + 1)
<1>1. Append(Whole(n), n + 1) \in Seq(Nat) /\ Whole(n + 1) \in Seq(Nat)
  BY WholeSeq
<1>2. Len(Append(Whole(n), n + 1)) = n + 1 /\ Len(Whole(n + 1)) = n + 1
  BY WholeSeq
<1>3. \A i \in 1 .. n + 1 : Append(Whole(n), n + 1)[i] = Whole(n + 1)[i]
  BY WholeSeq DEF Whole
<1> QED
  BY <1>1, <1>2, <1>3

\* record keeps the copy in step with the source.
LEMMA RecordFollows ==
  ASSUME NEW n \in Nat
  PROVE  record(Whole(Kept(n)), n + 1) = Whole(Kept(n + 1))
<1>1. Kept(n) \in Nat
  BY CapNat DEF Kept
<1>2. CASE n <= Cap
  <2>1. record(Whole(Kept(n)), n + 1) = Append(Whole(n), n + 1)
    BY <1>2, CapNat, WholeSeq DEF record, Kept
  <2>2. Kept(n + 1) = n + 1
    BY <1>2, CapNat DEF Kept
  <2> QED
    BY <2>1, <2>2, WholeGrows
<1>3. CASE ~(n <= Cap)
  <2>1. Kept(n) = Cap + 1 /\ Kept(n + 1) = Cap + 1
    BY <1>3, CapNat DEF Kept
  <2>2. Len(Whole(Cap + 1)) > Cap
    BY CapNat, WholeSeq
  <2> QED
    BY <2>1, <2>2 DEF record
<1> QED
  BY <1>2, <1>3

\* A step that gives one worker a sound capture keeps the invariant.
LEMMA OneCapture ==
  ASSUME CopyInv, NEW w \in Workers, NEW d \in CaptureRecords, CopyFollows(d),
         capture' = [capture EXCEPT ![w] = d]
  PROVE  CopyInv'
<1>1. capture' \in [Workers -> CaptureRecords]
  BY DEF CopyInv
<1>2. ASSUME NEW v \in Workers PROVE CopyFollows(capture[v])'
  <2>1. CASE v = w
    <3>1. capture'[v] = d
      BY <2>1 DEF CopyInv
    <3> QED
      BY <3>1 DEF CopyFollows, Kept
  <2>2. CASE v # w
    <3>1. capture'[v] = capture[v]
      BY <2>2 DEF CopyInv
    <3> QED
      BY <3>1 DEF CopyInv, CopyFollows, Kept
  <2> QED
    BY <2>1, <2>2
<1> QED
  BY <1>1, <1>2 DEF CopyInv

\* finish gives a record up, or resolves one whose source has ended.
LEMMA FinishSound ==
  ASSUME NEW c \in CaptureRecords, CopyFollows(c),
         NEW result \in {"resolved", "rejected"},
         result = "resolved" => c.at = c.length
  PROVE  finish(c, result) \in CaptureRecords /\ CopyFollows(finish(c, result))
<1>1. CASE c.settled = "no"
  <2> DEFINE d == [c EXCEPT !.settled = result, !.reads = <<>>]
  <2>1. finish(c, result) = d
    BY <1>1 DEF finish
  <2>2. d \in CaptureRecords
    <3>1. <<>> \in Seq({"pull", "drain"})
      OBVIOUS
    <3>2. result \in {"none", "no", "resolved", "rejected"}
      OBVIOUS
    <3> QED
      BY <3>1, <3>2, Zenon DEF CaptureRecords
  <2>3. d.at = c.at /\ d.length = c.length /\ d.chunks = c.chunks /\ d.settled = result
    BY DEF CaptureRecords
  <2> QED
    BY <2>1, <2>2, <2>3 DEF CopyFollows
<1>2. CASE c.settled # "no"
  BY <1>2 DEF finish
<1> QED
  BY <1>1, <1>2

\* Who reads the source, and whether the client is there, does not matter to the
\* copy.
LEMMA ReadersSound ==
  ASSUME NEW c \in CaptureRecords, CopyFollows(c),
         NEW rs \in Seq({"pull", "drain"}), NEW b \in BOOLEAN
  PROVE  LET d == [c EXCEPT !.reads = rs, !.clientOpen = b]
         IN  d \in CaptureRecords /\ CopyFollows(d)
<1> DEFINE d == [c EXCEPT !.reads = rs, !.clientOpen = b]
<1>1. d \in CaptureRecords
  BY Zenon DEF CaptureRecords
<1>2. d.at = c.at /\ d.length = c.length /\ d.chunks = c.chunks /\ d.settled = c.settled
  BY DEF CaptureRecords
<1> QED
  BY <1>1, <1>2 DEF CopyFollows

\* A chunk that is read and recorded.
LEMMA ChunkSound ==
  ASSUME NEW c \in CaptureRecords, CopyFollows(c), c.at < c.length,
         NEW rs \in Seq({"pull", "drain"}), NEW b \in BOOLEAN
  PROVE  LET d == [c EXCEPT !.at = c.at + 1, !.reads = rs, !.clientOpen = b,
                            !.chunks = record(c.chunks, c.at + 1)]
         IN  d \in CaptureRecords /\ CopyFollows(d)
<1> DEFINE chunks == record(c.chunks, c.at + 1)
           d == [c EXCEPT !.at = c.at + 1, !.reads = rs, !.clientOpen = b, !.chunks = chunks]
<1>1. c.at \in Nat /\ c.at + 1 \in Nat /\ c.length \in Nat
  BY DEF CaptureRecords
<1>2. chunks = Whole(Kept(c.at + 1))
  BY <1>1, RecordFollows DEF CopyFollows
<1>3. chunks \in Seq(Nat)
  <2>1. Kept(c.at + 1) \in Nat
    BY <1>1, CapNat DEF Kept
  <2> QED
    BY <1>2, <2>1, WholeSeq
<1> HIDE DEF chunks
<1>4. d \in CaptureRecords
  BY <1>1, <1>3, Zenon DEF CaptureRecords
<1>5. d.at = c.at + 1 /\ d.length = c.length /\ d.chunks = chunks /\ d.settled = c.settled
  BY DEF CaptureRecords
<1>6. CopyFollows(d)
  BY <1>1, <1>2, <1>5 DEF CopyFollows
<1> QED
  BY <1>4, <1>6 DEF chunks

\* A capture that begins: nothing was read yet, and only a response without a body
\* is resolved at once.
LEMMA BeginsSound ==
  /\ NoCapture \in CaptureRecords /\ CopyFollows(NoCapture)
  /\ LET d == [NoCapture EXCEPT !.settled = "resolved"]
     IN  d \in CaptureRecords /\ CopyFollows(d)
  /\ \A n \in Nat, fails \in BOOLEAN :
       LET d == [ NoCapture EXCEPT !.streaming = TRUE, !.length = n, !.fails = fails,
                    !.reads = <<"pull">>, !.clientOpen = TRUE, !.settled = "no" ]
       IN  d \in CaptureRecords /\ CopyFollows(d)
<1>1. <<>> = Whole(Kept(0)) /\ Kept(0) = 0
  <2>1. Kept(0) = 0
    BY CapNat DEF Kept
  <2> QED
    BY <2>1 DEF Whole
<1>2. <<>> \in Seq(Nat) /\ <<>> \in Seq({"pull", "drain"}) /\ <<"pull">> \in Seq({"pull", "drain"})
  OBVIOUS
<1>3. NoCapture \in CaptureRecords /\ CopyFollows(NoCapture)
  BY <1>1, <1>2 DEF NoCapture, CaptureRecords, CopyFollows
<1>4. LET d == [NoCapture EXCEPT !.settled = "resolved"]
      IN  d \in CaptureRecords /\ CopyFollows(d)
  <2> DEFINE d == [NoCapture EXCEPT !.settled = "resolved"]
  <2>1. d \in CaptureRecords
    BY <1>3, Zenon DEF CaptureRecords
  <2>2. d.at = 0 /\ d.length = 0 /\ d.chunks = <<>>
    BY DEF NoCapture
  <2> QED
    BY <1>1, <2>1, <2>2 DEF CopyFollows
<1>5. ASSUME NEW n \in Nat, NEW fails \in BOOLEAN
      PROVE  LET d == [ NoCapture EXCEPT !.streaming = TRUE, !.length = n, !.fails = fails,
                          !.reads = <<"pull">>, !.clientOpen = TRUE, !.settled = "no" ]
             IN  d \in CaptureRecords /\ CopyFollows(d)
  <2> DEFINE d == [ NoCapture EXCEPT !.streaming = TRUE, !.length = n, !.fails = fails,
                      !.reads = <<"pull">>, !.clientOpen = TRUE, !.settled = "no" ]
  <2>1. d \in CaptureRecords
    BY <1>2, <1>3, Zenon DEF CaptureRecords
  <2>2. d.at = 0 /\ d.length = n /\ d.chunks = <<>> /\ d.settled = "no"
    BY DEF NoCapture
  <2> QED
    BY <1>1, <2>1, <2>2 DEF CopyFollows
<1> QED
  BY <1>3, <1>4, <1>5

-----------------------------------------------------------------------------
(* The steps that touch a capture                                          *)

\* The source answers a read.
LEMMA SourceKeepsCopy ==
  ASSUME CopyInv, NEW w \in Workers, SourceStep(w)
  PROVE  CopyInv'
<1> DEFINE c == capture[w]
<1>1. c \in CaptureRecords /\ CopyFollows(c)
  BY DEF CopyInv
<1>2. c.reads \in Seq({"pull", "drain"}) /\ c.clientOpen \in BOOLEAN
  BY <1>1 DEF CaptureRecords
<1>3. c.reads # <<>> => Tail(c.reads) \in Seq({"pull", "drain"})
  BY <1>2
<1>4. CASE PullChunk(w)
  <2> DEFINE fits == c.clientOpen /\ client[w].stream = "open"
             d == [c EXCEPT !.at = c.at + 1, !.reads = Tail(c.reads), !.clientOpen = fits,
                            !.chunks = record(c.chunks, c.at + 1)]
  <2>1. c.reads # <<>> /\ c.at < c.length /\ capture' = [capture EXCEPT ![w] = d]
    BY <1>4 DEF PullChunk, Reads
  <2>2. fits \in BOOLEAN
    OBVIOUS
  <2> HIDE DEF fits
  <2>3. d \in CaptureRecords /\ CopyFollows(d)
    BY <1>1, <1>3, <2>1, <2>2, ChunkSound
  <2> QED
    BY <2>1, <2>3, OneCapture
<1>5. CASE DrainChunk(w)
  <2> DEFINE rs == Append(Tail(c.reads), "drain")
             d == [c EXCEPT !.at = c.at + 1, !.reads = rs, !.clientOpen = c.clientOpen,
                            !.chunks = record(c.chunks, c.at + 1)]
  <2>1. c.reads # <<>> /\ c.at < c.length /\ rs \in Seq({"pull", "drain"})
    BY <1>3, <1>5 DEF DrainChunk, Reads
  <2>2. capture' = [capture EXCEPT ![w] =
                      [c EXCEPT !.at = c.at + 1, !.chunks = record(c.chunks, c.at + 1), !.reads = rs]]
    BY <1>5 DEF DrainChunk
  <2>3. [c EXCEPT !.at = c.at + 1, !.chunks = record(c.chunks, c.at + 1), !.reads = rs] = d
    BY <1>1 DEF CaptureRecords
  <2>4. d \in CaptureRecords /\ CopyFollows(d)
    BY <1>1, <1>2, <2>1, ChunkSound
  <2> QED
    BY <2>2, <2>3, <2>4, OneCapture
<1>6. CASE SourceEnds(w)
  <2>1. capture' = [capture EXCEPT ![w] = finish(c, "resolved")] /\ c.at = c.length
    BY <1>6 DEF SourceEnds
  <2> QED
    BY <1>1, <2>1, FinishSound, OneCapture
<1>7. CASE SourceFails(w)
  <2> DEFINE d == [c EXCEPT !.reads = c.reads, !.clientOpen = FALSE]
  <2>1. [c EXCEPT !.clientOpen = FALSE] = d
    BY <1>1 DEF CaptureRecords
  <2>2. d \in CaptureRecords /\ CopyFollows(d)
    BY <1>1, <1>2, ReadersSound
  <2>3. \/ capture' = [capture EXCEPT ![w] = finish(d, "rejected")]
        \/ capture' = [capture EXCEPT ![w] = finish(c, "rejected")]
    BY <1>7, <2>1 DEF SourceFails
  <2> HIDE DEF d
  <2> QED
    BY <1>1, <2>2, <2>3, FinishSound, OneCapture
<1> QED
  BY <1>4, <1>5, <1>6, <1>7 DEF SourceStep

\* The client reads, cancels, or has its cancel callback called.
LEMMA ClientKeepsCopy ==
  ASSUME CopyInv, NEW w \in Workers, ClientStep(w) \/ ClientCancels(w) \/ Cancel(w)
  PROVE  CopyInv'
<1> DEFINE c == capture[w]
<1>1. c \in CaptureRecords /\ CopyFollows(c)
  BY DEF CopyInv
<1>2. c.reads \in Seq({"pull", "drain"}) /\ c.clientOpen \in BOOLEAN
  BY <1>1 DEF CaptureRecords
<1>3. CASE ClientReads(w)
  <2> DEFINE rs == IF client[w].stream = "open" /\ c.settled = "no"
                   THEN Append(c.reads, "pull") ELSE c.reads
  <2>1. rs \in Seq({"pull", "drain"})
    BY <1>2
  <2>2. capture' = [capture EXCEPT ![w].reads = rs]
    BY <1>3 DEF ClientReads
  <2> HIDE DEF rs
  <2>2a. capture' = [capture EXCEPT ![w] = [c EXCEPT !.reads = rs]]
    BY <2>2
  <2>3. [c EXCEPT !.reads = rs] = [c EXCEPT !.reads = rs, !.clientOpen = c.clientOpen]
    BY <1>1 DEF CaptureRecords
  <2> QED
    BY <1>1, <1>2, <2>1, <2>2a, <2>3, ReadersSound, OneCapture
<1>4. CASE Cancel(w)
  <2> DEFINE rs == IF c.settled = "no" THEN Append(c.reads, "drain") ELSE c.reads
  <2>1. rs \in Seq({"pull", "drain"})
    BY <1>2
  <2>2. capture' = [capture EXCEPT ![w] = [c EXCEPT !.clientOpen = FALSE, !.reads = rs]]
    BY <1>4 DEF Cancel
  <2> HIDE DEF rs
  <2>3. [c EXCEPT !.clientOpen = FALSE, !.reads = rs] = [c EXCEPT !.reads = rs, !.clientOpen = FALSE]
    BY <1>1 DEF CaptureRecords
  <2> QED
    BY <1>1, <2>1, <2>2, <2>3, ReadersSound, OneCapture
<1>5. CASE ClientEnds(w) \/ ClientCancels(w)
  BY <1>5 DEF ClientEnds, ClientCancels, CopyInv, CopyFollows, Kept
<1> QED
  BY <1>3, <1>4, <1>5 DEF ClientStep

\* The door closes or fails a capture, forgets it, or dies with it.
LEMMA DoorKeepsCopy ==
  ASSUME CopyInv, NEW w \in Workers, DoorStep(w) \/ Dies(w)
  PROVE  CopyInv'
<1> DEFINE c == capture[w]
           left == [c EXCEPT !.reads = c.reads, !.clientOpen = FALSE]
<1>1. c \in CaptureRecords /\ CopyFollows(c)
  BY DEF CopyInv
<1>2. left = [c EXCEPT !.clientOpen = FALSE]
  BY <1>1 DEF CaptureRecords
<1>3. left \in CaptureRecords /\ CopyFollows(left)
  <2>1. c.reads \in Seq({"pull", "drain"})
    BY <1>1 DEF CaptureRecords
  <2> QED
    BY <1>1, <2>1, ReadersSound
<1> HIDE DEF left
<1>4. finish(left, "rejected") \in CaptureRecords /\ CopyFollows(finish(left, "rejected"))
  BY <1>3, FinishSound
<1>5. CASE HandlerReturns(w)
  <2>1. CASE captureBodiless(w)
    BY <2>1, BeginsSound, OneCapture DEF captureBodiless
  <2>2. ASSUME NEW n \in 0 .. MaxChunks, NEW fails \in BOOLEAN, captureStreaming(w, n, fails)
        PROVE  CopyInv'
    <3>1. n \in Nat
      BY ChunkAssumption
    <3> QED
      BY <2>2, <3>1, BeginsSound, OneCapture DEF captureStreaming
  <2> QED
    BY <1>5, <2>1, <2>2 DEF HandlerReturns
<1>6. CASE AnswerCaptured(w)
  <2>1. CASE close(w)
    <3>1. \/ capture' = [capture EXCEPT ![w].clientOpen = FALSE]
          \/ UNCHANGED capture
      BY <2>1 DEF close
    <3>2. \/ capture' = [capture EXCEPT ![w] = left]
          \/ UNCHANGED capture
      BY <3>1, <1>2
    <3> QED
      BY <1>3, <3>2, OneCapture DEF CopyInv, CopyFollows, Kept
  <2>2. CASE fail(w)
    <3>1. \/ capture' = [capture EXCEPT ![w] = finish(left, "rejected")]
          \/ UNCHANGED capture
      BY <1>2, <2>2 DEF fail, captureVars
    <3> QED
      BY <1>4, <3>1, OneCapture DEF CopyInv, CopyFollows, Kept
  <2> QED
    BY <1>6, <2>1, <2>2 DEF AnswerCaptured
<1>7. CASE Over(w)
  BY <1>7, BeginsSound, OneCapture DEF Over
<1>8. CASE Dies(w)
  <2>1. capture' = [capture EXCEPT ![w] = finish(left, "rejected")]
    BY <1>2, <1>8 DEF Dies
  <2> QED
    BY <1>4, <2>1, OneCapture
<1>9. CASE \/ StoreCall(w) \/ HandlerThrows(w) \/ CopyResolved(w)
           \/ CopyRejected(w) \/ AnswerOther(w)
  <2>1. UNCHANGED capture
    BY <1>9 DEF StoreCall, HandlerThrows, CopyResolved, CopyRejected, AnswerOther
  <2> QED
    BY <2>1 DEF CopyInv, CopyFollows, Kept
<1> QED
  BY <1>5, <1>6, <1>7, <1>8, <1>9 DEF DoorStep

\* So every step of the door does.
LEMMA CopyStep == CopyInv /\ [HttpNext]_httpVars => CopyInv'
<1> SUFFICES ASSUME CopyInv, [HttpNext]_httpVars PROVE CopyInv'
  OBVIOUS
<1>1. ASSUME NEW w \in Workers, Receive(w) PROVE CopyInv'
  BY <1>1 DEF Receive, CopyInv, CopyFollows, Kept
<1>2. ASSUME NEW w \in Workers, DoorStep(w) \/ Dies(w) PROVE CopyInv'
  BY <1>2, DoorKeepsCopy
<1>3. ASSUME NEW w \in Workers, StreamStep(w) \/ ClientStep(w) \/ ClientCancels(w)
      PROVE  CopyInv'
  BY <1>3, SourceKeepsCopy, ClientKeepsCopy DEF StreamStep
<1>4. CASE (Tick \/ Purge) /\ UNCHANGED <<capture, client, request>>
  BY <1>4 DEF CopyInv, CopyFollows, Kept
<1>5. CASE UNCHANGED httpVars
  BY <1>5 DEF httpVars, CopyInv, CopyFollows, Kept
<1> QED
  BY <1>1, <1>2, <1>3, <1>4, <1>5 DEF HttpNext

-----------------------------------------------------------------------------
(* The theorem                                                             *)

\* What a capture hands to the store is the handler's whole body or marked as too
\* large, for every number of requests and every length of a body.
THEOREM CapturedCopyWhole == HttpSpec => []CopyWhole
<1>1. HttpInit => CopyInv
  BY BeginsSound DEF HttpInit, CopyInv
<1>2. CopyInv /\ [HttpNext]_httpVars => CopyInv'
  BY CopyStep
<1>3. CopyInv => CopyWhole
  <2> SUFFICES ASSUME CopyInv, NEW w \in Workers
               PROVE  LET c == capture[w] IN
                      /\ Len(c.chunks) <= Cap + 1
                      /\ c.settled = "resolved" =>
                           IF c.length <= Cap THEN c.chunks = Whole(c.length) ELSE Len(c.chunks) > Cap
    BY DEF CopyWhole
  <2> DEFINE c == capture[w]
  <2>1. c \in CaptureRecords /\ CopyFollows(c)
    BY DEF CopyInv
  <2>2. c.at \in Nat /\ c.length \in Nat
    BY <2>1 DEF CaptureRecords
  <2>3. Kept(c.at) \in Nat /\ Kept(c.at) <= Cap + 1
    BY <2>2, CapNat DEF Kept
  <2>4. Len(c.chunks) = Kept(c.at) /\ c.chunks = Whole(Kept(c.at))
    BY <2>1, <2>3, WholeSeq DEF CopyFollows
  <2>5. c.settled = "resolved" => c.at = c.length
    BY <2>1 DEF CopyFollows
  <2> QED
    BY <2>2, <2>3, <2>4, <2>5, CapNat DEF Kept
<1> QED
  BY <1>1, <1>2, <1>3, PTL DEF HttpSpec

-----------------------------------------------------------------------------
(* The door's steps are steps of execute, but for the answers it forgets.  *)

\* A request that is taken up is a call of execute with one of its keys.
LEMMA CallKnown ==
  ASSUME TypeInv, clock <= MaxTime, NEW now \in Readings, NEW call \in Calls[now]
  PROVE  call.key \in Keys /\ call.fingerprint \in Fingerprints
<1>1. now \in (0 - Skew) .. (MaxTime + Skew)
  BY SkewAssumption, BoundAssumption DEF Readings, TypeInv, TypeOK
<1>2. now \in DOMAIN Calls
  BY <1>1 DEF Calls
<1> QED
  BY <1>2, CallAssumption

\* A step of the door that execute takes part in.
LEMMA DoorExecutes ==
  ASSUME NEW w \in Workers, DoorStep(w) \/ Dies(w)
  PROVE  [Next]_vars \/ Forgets(w)
<1>1. CASE StoreCall(w)
  BY <1>1 DEF StoreCall, Next, Fault
<1>2. CASE HandlerThrows(w) \/ CopyResolved(w) \/ CopyRejected(w)
  BY <1>2 DEF HandlerThrows, CopyResolved, CopyRejected, Next, Fault, WorkerStep
<1>3. CASE HandlerReturns(w) \/ Over(w)
  BY <1>3 DEF HandlerReturns, Over
<1>4. CASE AnswerCaptured(w) \/ AnswerOther(w)
  BY <1>4 DEF AnswerCaptured, AnswerOther, Returned, Forgets
<1>5. CASE Dies(w)
  BY <1>5 DEF Dies, Next, Fault
<1> QED
  BY <1>1, <1>2, <1>3, <1>4, <1>5 DEF DoorStep

\* The source, the stream and the client leave execute alone.
LEMMA StreamLeavesEngine ==
  ASSUME NEW w \in Workers, StreamStep(w) \/ ClientStep(w) \/ ClientCancels(w)
  PROVE  UNCHANGED vars
  BY DEF StreamStep, SourceStep, ClientStep, ClientCancels, PullChunk, DrainChunk, SourceEnds,
         SourceFails, Cancel, ClientReads, ClientEnds

LEMMA HttpEngine ==
  ASSUME TypeInv, clock <= MaxTime, [HttpNext]_httpVars
  PROVE  [Next]_vars \/ \E w \in Workers : Forgets(w)
<1>1. ASSUME NEW w \in Workers, Receive(w) PROVE Next
  <2>1. PICK now \in Readings : \E call \in Calls[now] : Request(w, call.key, call.fingerprint)
    BY <1>1 DEF Receive
  <2>2. PICK call \in Calls[now] : Request(w, call.key, call.fingerprint)
    BY <2>1
  <2> QED
    BY <2>2, CallKnown DEF Next
<1>2. ASSUME NEW w \in Workers, DoorStep(w) \/ Dies(w) PROVE [Next]_vars \/ Forgets(w)
  BY <1>2, DoorExecutes
<1>3. ASSUME NEW w \in Workers, StreamStep(w) \/ ClientStep(w) \/ ClientCancels(w)
      PROVE  UNCHANGED vars
  BY <1>3, StreamLeavesEngine
<1>4. CASE Tick \/ Purge
  BY <1>4 DEF Next
<1>5. CASE UNCHANGED httpVars
  BY <1>5 DEF httpVars
<1> QED
  BY <1>1, <1>2, <1>3, <1>4, <1>5 DEF HttpNext

\* Only time passing moves the clock.
LEMMA ClockBounded ==
  ASSUME TypeInv, clock <= MaxTime, [Next]_vars \/ \E w \in Workers : Forgets(w)
  PROVE  clock' <= MaxTime
<1>1. CASE Tick
  BY <1>1, BoundAssumption DEF Tick, TypeInv, TypeOK
<1>2. ASSUME NEW w \in Workers, WorkerStep(w) \/ Fault(w) \/ Forgets(w) PROVE clock' = clock
  BY <1>2 DEF WorkerStep, Fault, Forgets, BeginAcquired, BeginRefused, RunUnclaimed, RunStored,
              RunFailed, Complete, Abandon, BeginError, BeginResent, StoreResultThrows,
              CompleteError, CompleteResent, AbandonError, AbandonResent, Crash
<1>3. ASSUME NEW w \in Workers, NEW k \in Keys, NEW f \in Fingerprints, Request(w, k, f)
      PROVE  clock' = clock
  BY <1>3 DEF Request
<1>4. CASE Purge \/ (\E ks \in SUBSET Keys : NativeSweep(ks))
  BY <1>4 DEF Purge, NativeSweep, RemoveRows
<1>5. CASE UNCHANGED vars
  BY <1>5 DEF vars
<1> QED
  BY <1>1, <1>2, <1>3, <1>4, <1>5 DEF Next

\* So the engine's invariants carry over.
LEMMA HttpKeepsEngine ==
  ASSUME TypeInv, clock <= MaxTime, [HttpNext]_httpVars
  PROVE  TypeInv' /\ clock' <= MaxTime /\ (WithinLease /\ LeaseInv => LeaseInv')
  BY HttpEngine, ClockBounded, ForgetKeeps, TypeStep, LeaseStep

-----------------------------------------------------------------------------
(* The streams and their clients keep their shape.                         *)

\* Nothing of a worker's exchange changes.
SameExchange(v) ==
    /\ pc'[v] = pc[v] /\ out'[v] = out[v] /\ request'[v] = request[v]
    /\ capture'[v] = capture[v] /\ client'[v] = client[v]

\* The answer of w goes on as it is, or is broken off or left.
Interrupted(w) ==
    /\ \A v \in Workers \ {w} : SameExchange(v)
    /\ UNCHANGED pc
    /\ capture'[w].length = capture[w].length /\ client'[w].got = client[w].got
    /\ \/ client'[w].state = client[w].state
       \/ client[w].state = "open" /\ client'[w].state \in {"broken", "left"}

\* The next chunk arrives at the client of w.
Arrived(w) ==
    /\ \A v \in Workers \ {w} : SameExchange(v)
    /\ UNCHANGED pc
    /\ capture'[w].length = capture[w].length
    /\ client[w].state = "open" /\ client'[w].state = "open"
    /\ Len(client[w].got) < capture[w].length
    /\ client'[w].got = Append(client[w].got, Len(client[w].got) + 1)

\* All chunks have arrived, and the body ends, after execute has returned.
Ended(w) ==
    /\ \A v \in Workers \ {w} : SameExchange(v)
    /\ UNCHANGED pc
    /\ pc[w] = "idle"
    /\ capture'[w].length = capture[w].length /\ client'[w].got = client[w].got
    /\ Len(client[w].got) = capture[w].length
    /\ client[w].state = "open" /\ client'[w].state = "ended"

\* A step of one worker keeps the shape if it keeps that worker's.
LEMMA OneExchange ==
  ASSUME ShapeInv, NEW w \in Workers, client' \in [Workers -> ClientRecords],
         \A v \in Workers \ {w} : SameExchange(v),
         StreamShape(capture'[w], client'[w]), ExchangeShape(w)'
  PROVE  ShapeInv'
<1>1. ASSUME NEW v \in Workers PROVE StreamShape(capture[v], client[v])'
  <2>1. CASE v = w
    BY <2>1 DEF StreamShape, Whole
  <2>2. CASE v # w
    <3>1. StreamShape(capture'[v], client'[v])
      BY <2>2 DEF ShapeInv, SameExchange
    <3> QED
      BY <3>1 DEF StreamShape, Whole
  <2> QED
    BY <2>1, <2>2
<1>2. ASSUME NEW v \in Workers, v # w PROVE ExchangeShape(v)'
  BY <1>2 DEF ShapeInv, SameExchange, ExchangeShape, Captured
<1> QED
  BY <1>1, <1>2 DEF ShapeInv

\* A step that gives one worker another capture and another client.
LEMMA OneStream ==
  ASSUME CopyInv, ShapeInv, NEW w \in Workers, NEW d, NEW e \in ClientRecords,
         capture' = [capture EXCEPT ![w] = d], client' = [client EXCEPT ![w] = e]
  PROVE  /\ capture'[w] = d /\ client'[w] = e
         /\ client' \in [Workers -> ClientRecords]
         /\ \A v \in Workers \ {w} : capture'[v] = capture[v] /\ client'[v] = client[v]
  BY DEF CopyInv, ShapeInv

\* A step of a stream, of its source or of its client: the exchange is under way,
\* its record settles at most, and it is not for the stream to close the body.
LEMMA StreamMoves ==
  ASSUME CopyInv, ShapeInv, NEW w \in Workers, NEW d \in CaptureRecords, NEW e \in ClientRecords,
         capture' = [capture EXCEPT ![w] = d], client' = [client EXCEPT ![w] = e],
         UNCHANGED <<pc, out, request>>,
         capture[w].settled = "no" \/ client[w].stream # "none",
         capture[w].streaming, d.streaming,
         IF capture[w].settled = "no" THEN d.settled # "none" ELSE d.settled = capture[w].settled,
         e.stream = "closing" => client[w].stream = "closing",
         StreamShape(d, e)
  PROVE  /\ ShapeInv'
         /\ capture'[w] = d /\ client'[w] = e /\ \A v \in Workers \ {w} : SameExchange(v)
<1>1. /\ capture'[w] = d /\ client'[w] = e
      /\ client' \in [Workers -> ClientRecords]
      /\ \A v \in Workers \ {w} : capture'[v] = capture[v] /\ client'[v] = client[v]
  BY OneStream
<1>2. \A v \in Workers \ {w} : SameExchange(v)
  BY <1>1 DEF SameExchange
<1>3. ExchangeShape(w) /\ NoClient.stream = "none"
  BY DEF ShapeInv, NoClient
<1>4. ExchangeShape(w)'
  BY <1>1, <1>3 DEF ExchangeShape, Captured
<1> QED
  BY <1>1, <1>2, <1>4, OneExchange

\* The reads of a source: at most one of a pull, and behind it one of the drain.
LEMMA ReadSequences ==
  /\ Tail(<<"pull">>) = <<>> /\ Tail(<<"drain">>) = <<>> /\ Tail(<<"pull", "drain">>) = <<"drain">>
  /\ Head(<<"pull">>) = "pull" /\ Head(<<"drain">>) = "drain" /\ Head(<<"pull", "drain">>) = "pull"
  /\ Append(<<>>, "pull") = <<"pull">> /\ Append(<<>>, "drain") = <<"drain">>
  /\ Append(<<"pull">>, "drain") = <<"pull", "drain">>
  /\ <<"pull">> # <<>> /\ <<"drain">> # <<>> /\ <<"pull", "drain">> # <<>>
  /\ <<"pull">> # <<"drain">> /\ <<"pull">> # <<"pull", "drain">> /\ <<"drain">> # <<"pull", "drain">>
<1>1. /\ Tail(<<"pull">>) = <<>> /\ Tail(<<"drain">>) = <<>>
      /\ Append(<<>>, "pull") = <<"pull">> /\ Append(<<>>, "drain") = <<"drain">>
  OBVIOUS
<1>2. Head(<<"pull">>) = "pull" /\ Head(<<"drain">>) = "drain" /\ Head(<<"pull", "drain">>) = "pull"
  OBVIOUS
<1>3. Tail(<<"pull", "drain">>) = <<"drain">>
  OBVIOUS
<1>4. Append(<<"pull">>, "drain") = <<"pull", "drain">>
  <2> DEFINE s == Append(<<"pull">>, "drain")
             R == {"pull", "drain"}
  <2>1. <<"pull">> \in Seq(R) /\ Len(<<"pull">>) = 1 /\ <<"pull">>[1] = "pull"
    OBVIOUS
  <2>2. "drain" \in R
    OBVIOUS
  <2> HIDE DEF R
  <2>3. s \in Seq(R) /\ Len(s) = 2 /\ s[1] = "pull" /\ s[2] = "drain"
    BY <2>1, <2>2
  <2> HIDE DEF s
  <2>4. s = <<"pull", "drain">>
    BY <2>3
  <2> QED
    BY <2>4 DEF s
<1>5. <<"pull">> # <<>> /\ <<"drain">> # <<>> /\ <<"pull", "drain">> # <<>>
  OBVIOUS
<1>6. <<"pull">> # <<"drain">> /\ <<"pull">> # <<"pull", "drain">> /\ <<"drain">> # <<"pull", "drain">>
  BY <1>2, <1>3, <1>1, <1>5
<1> QED
  BY <1>1, <1>2, <1>3, <1>4, <1>5, <1>6

\* finish leaves what was read, and who is there, alone.
LEMMA FinishFields ==
  ASSUME NEW c \in CaptureRecords, NEW result \in {"resolved", "rejected"}
  PROVE  LET d == finish(c, result) IN
         /\ d.streaming = c.streaming /\ d.length = c.length /\ d.at = c.at
         /\ d.clientOpen = c.clientOpen
         /\ IF c.settled = "no" THEN d.settled = result /\ d.reads = <<>> ELSE d = c
<1>1. CASE c.settled = "no"
  BY <1>1 DEF finish, CaptureRecords
<1>2. CASE c.settled # "no"
  BY <1>2 DEF finish
<1> QED
  BY <1>1, <1>2

\* A stream that is broken off.
LEMMA ErrorFields ==
  ASSUME ShapeInv, NEW w \in Workers, errorStream(w)
  PROVE  \E e \in ClientRecords :
           /\ client' = [client EXCEPT ![w] = e]
           /\ e.got = client[w].got
           /\ IF client[w].stream = "open"
              THEN e.state = "broken" /\ e.stream = "closed" /\ e.queue = <<>>
              ELSE e = client[w]
<1> DEFINE b == client[w]
           e == [b EXCEPT !.state = "broken", !.stream = "closed", !.queue = <<>>]
<1>1. b \in ClientRecords
  BY DEF ShapeInv
<1>2. e \in ClientRecords
  <2>1. <<>> \in Seq(1 .. MaxChunks)
    OBVIOUS
  <2> QED
    BY <1>1, <2>1, Zenon DEF ClientRecords
<1>3. e.got = b.got /\ e.state = "broken" /\ e.stream = "closed" /\ e.queue = <<>>
  BY <1>1 DEF ClientRecords
<1>4. CASE b.stream = "open"
  <2>1. client' = [client EXCEPT ![w] = e]
    BY <1>4 DEF errorStream
  <2> HIDE DEF e
  <2> QED
    BY <1>2, <1>3, <1>4, <2>1
<1>5. CASE b.stream # "open"
  <2>1. client' = [client EXCEPT ![w] = b]
    BY <1>5 DEF errorStream
  <2> QED
    BY <1>1, <1>5, <2>1
<1> QED
  BY <1>4, <1>5

\* A step of the source.
LEMMA SourceKeepsShape ==
  ASSUME CopyInv, ShapeInv, NEW w \in Workers, SourceStep(w), UNCHANGED request
  PROVE  ShapeInv' /\ Interrupted(w)
<1> DEFINE c == capture[w]
           b == client[w]
<1>1. c \in CaptureRecords /\ b \in ClientRecords /\ StreamShape(c, b) /\ CopyFollows(c)
  BY DEF CopyInv, ShapeInv
<1>2. c.at \in Nat /\ c.length \in Nat /\ c.at <= c.length /\ c.length <= MaxChunks /\ MaxChunks \in Nat
  BY <1>1, ChunkAssumption DEF CaptureRecords, CopyFollows, StreamShape
<1>3. UNCHANGED <<pc, out>>
  BY StreamLeavesEngine DEF StreamStep, vars
<1>4. c.reads # <<>>
  BY DEF SourceStep, PullChunk, DrainChunk, SourceEnds, SourceFails, Reads
<1>5. c.settled = "no" /\ c.streaming
  BY <1>1, <1>4 DEF StreamShape
<1>6. CopyInv'
  BY SourceKeepsCopy
<1>7. CASE PullChunk(w)
  <2> DEFINE fits == c.clientOpen /\ b.stream = "open"
             d == [c EXCEPT !.at = c.at + 1, !.reads = Tail(c.reads), !.clientOpen = fits,
                            !.chunks = record(c.chunks, c.at + 1)]
             q == IF fits THEN Append(b.queue, c.at + 1) ELSE b.queue
             e == [b EXCEPT !.queue = q]
  <2>1. /\ Head(c.reads) = "pull" /\ c.at < c.length
        /\ capture' = [capture EXCEPT ![w] = d]
        /\ client' = [client EXCEPT ![w].queue = q]
    BY <1>7 DEF PullChunk, Reads
  <2>2. client' = [client EXCEPT ![w] = e]
    BY <2>1
  <2>3. q \in Seq(1 .. MaxChunks)
    <3> DEFINE Chunks == 1 .. MaxChunks
    <3>1. b.queue \in Seq(Chunks) /\ c.at + 1 \in Chunks
      BY <1>1, <1>2, <2>1 DEF ClientRecords
    <3> HIDE DEF Chunks
    <3>2. Append(b.queue, c.at + 1) \in Seq(Chunks)
      BY <3>1
    <3>3. q \in Seq(Chunks)
      BY <3>1, <3>2
    <3> QED
      BY <3>3 DEF Chunks
  <2>4. d.streaming = c.streaming /\ d.length = c.length /\ d.at = c.at + 1
        /\ d.reads = Tail(c.reads) /\ d.clientOpen = fits /\ d.settled = c.settled
    BY <1>1 DEF CaptureRecords
  <2>5. fits <=> b.stream = "open"
    BY <1>1 DEF StreamShape
  <2>6. c.reads \in {<<"pull">>, <<"pull", "drain">>} /\ b.queue = <<>>
    BY <1>1, <1>4, <2>1, ReadSequences DEF StreamShape
  <2>7. q = IF fits THEN <<c.at + 1>> ELSE <<>>
    BY <2>6
  <2> HIDE DEF q, fits
  <2>8. e \in ClientRecords
    BY <1>1, <2>3, Zenon DEF ClientRecords
  <2>9. e.state = b.state /\ e.stream = b.stream /\ e.queue = q /\ e.got = b.got
    BY <1>1 DEF ClientRecords
  <2>10. d \in CaptureRecords
    BY <1>6, <2>1 DEF CopyInv
  <2> HIDE DEF d, e
  <2>11. StreamShape(d, e)
    <3>1. d.reads \in {<<>>, <<"drain">>}
      BY <2>4, <2>6, ReadSequences
    <3>2. b.stream \in {"open", "closing", "cancelling"} => d.reads = <<>>
      BY <1>1, <2>4, <2>6, ReadSequences DEF StreamShape
    <3>3. b.stream # "closing"
      BY <1>1, <1>5 DEF StreamShape
    <3>4. e.stream \in {"open", "closing"} =>
            e.queue = <<d.at>> /\ d.at >= 1 /\ e.got = Whole(d.at - 1)
      <4>1. b.stream = "open" => b.got = Whole(c.at)
        BY <1>1, <2>6 DEF StreamShape
      <4> QED
        BY <1>2, <2>4, <2>5, <2>7, <2>9, <3>3, <4>1
    <3> QED
      BY <1>1, <1>5, <2>4, <2>5, <2>7, <2>9, <3>1, <3>2, <3>3, <3>4 DEF StreamShape
  <2>12. e.stream = "closing" => b.stream = "closing"
    BY <2>9
  <2>13. /\ ShapeInv'
         /\ capture'[w] = d /\ client'[w] = e /\ \A v \in Workers \ {w} : SameExchange(v)
    BY <1>1, <1>3, <1>5, <2>1, <2>2, <2>4, <2>8, <2>10, <2>11, <2>12, StreamMoves
  <2> QED
    BY <1>3, <2>4, <2>9, <2>13 DEF Interrupted
<1>8. CASE DrainChunk(w)
  <2> DEFINE d == [c EXCEPT !.at = c.at + 1, !.chunks = record(c.chunks, c.at + 1),
                            !.reads = Append(Tail(c.reads), "drain")]
  <2>1. Head(c.reads) = "drain" /\ capture' = [capture EXCEPT ![w] = d] /\ UNCHANGED client
    BY <1>8 DEF DrainChunk, Reads
  <2>2. client' = [client EXCEPT ![w] = b]
    BY <2>1 DEF ShapeInv
  <2>3. d.streaming = c.streaming /\ d.length = c.length
        /\ d.reads = Append(Tail(c.reads), "drain") /\ d.settled = c.settled
    BY <1>1 DEF CaptureRecords
  <2>4. c.reads = <<"drain">> /\ d.reads = <<"drain">>
    BY <1>1, <1>4, <2>1, <2>3, ReadSequences DEF StreamShape
  <2>5. d \in CaptureRecords
    BY <1>6, <2>1 DEF CopyInv
  <2> HIDE DEF d
  <2>6. b.stream \notin {"open", "closing", "cancelling"}
    BY <1>1, <2>4, ReadSequences DEF StreamShape
  <2>7. StreamShape(d, b)
    BY <1>1, <1>5, <2>3, <2>4, <2>6 DEF StreamShape
  <2>8. /\ ShapeInv'
        /\ capture'[w] = d /\ client'[w] = b /\ \A v \in Workers \ {w} : SameExchange(v)
    BY <1>1, <1>3, <1>5, <2>1, <2>2, <2>3, <2>5, <2>7, StreamMoves
  <2> QED
    BY <1>3, <2>3, <2>8 DEF Interrupted
<1>9. ASSUME NEW d \in CaptureRecords, NEW e \in ClientRecords, d.settled \in {"resolved", "rejected"},
             d.reads = <<>>, d.streaming, d.length = c.length, d.at = c.at,
             capture' = [capture EXCEPT ![w] = d], client' = [client EXCEPT ![w] = e],
             \/ e = b /\ d.clientOpen = c.clientOpen
             \/ e = b /\ b.stream # "open"
             \/ b.stream = "open" /\ e.state = "broken" /\ e.stream = "closed" /\ e.queue = <<>>,
             e.got = b.got
      PROVE  ShapeInv' /\ Interrupted(w)
  <2>1. b.stream # "closing"
    BY <1>1, <1>5 DEF StreamShape
  <2>2. StreamShape(d, e)
    <3>1. CASE e = b
      <4>1. b.stream \in {"open", "closing"} =>
              \/ b.queue = <<>> /\ b.got = Whole(d.at)
              \/ b.queue = <<d.at>> /\ d.at >= 1 /\ b.got = Whole(d.at - 1)
        BY <1>1, <1>9 DEF StreamShape
      <4>2. b.stream = "open" => d.clientOpen /\ b.state = "open"
        BY <1>1, <1>9, <3>1 DEF StreamShape
      <4>3. d.length <= MaxChunks /\ d.reads \in {<<>>, <<"pull">>, <<"drain">>, <<"pull", "drain">>}
        BY <1>1, <1>9 DEF StreamShape
      <4>4. b.state = "open" => b.stream \in {"open", "closing"}
        BY <1>1, <1>5 DEF StreamShape
      <4>5. b.queue # <<>> => b.stream \in {"open", "closing"}
        BY <1>1 DEF StreamShape
      <4> QED
        BY <1>9, <2>1, <3>1, <4>1, <4>2, <4>3, <4>4, <4>5 DEF StreamShape
    <3>2. CASE e.state = "broken" /\ e.stream = "closed" /\ e.queue = <<>>
      BY <1>1, <1>9, <3>2 DEF StreamShape
    <3> QED
      BY <1>9, <3>1, <3>2
  <2>3. e.stream # "closing"
    BY <1>9, <2>1
  <2>4. /\ ShapeInv'
        /\ capture'[w] = d /\ client'[w] = e /\ \A v \in Workers \ {w} : SameExchange(v)
    BY <1>3, <1>5, <1>9, <2>2, <2>3, StreamMoves
  <2>5. b.stream = "open" => b.state = "open"
    BY <1>1 DEF StreamShape
  <2> QED
    BY <1>3, <1>9, <2>4, <2>5 DEF Interrupted
<1>10. CASE SourceEnds(w)
  <2> DEFINE d == finish(c, "resolved")
  <2>1. capture' = [capture EXCEPT ![w] = d] /\ UNCHANGED client
    BY <1>10 DEF SourceEnds
  <2>2. client' = [client EXCEPT ![w] = b]
    BY <2>1 DEF ShapeInv
  <2>3. d \in CaptureRecords
    BY <1>6, <2>1 DEF CopyInv
  <2>4. /\ d.settled = "resolved" /\ d.reads = <<>> /\ d.streaming /\ d.length = c.length
        /\ d.at = c.at /\ d.clientOpen = c.clientOpen
    BY <1>1, <1>5, FinishFields
  <2> HIDE DEF d
  <2> QED
    BY <1>1, <1>9, <2>1, <2>2, <2>3, <2>4
<1>11. CASE SourceFails(w)
  <2> DEFINE gone == [c EXCEPT !.clientOpen = FALSE]
  <2>1. gone \in CaptureRecords
    BY <1>1, Zenon DEF CaptureRecords
  <2>2. gone.streaming = c.streaming /\ gone.length = c.length /\ gone.at = c.at
        /\ gone.settled = c.settled
    BY <1>1 DEF CaptureRecords
  <2>3. CASE Reads(w, "pull") /\ c.clientOpen
    <3> DEFINE d == finish(gone, "rejected")
    <3>1. capture' = [capture EXCEPT ![w] = d] /\ errorStream(w)
      BY <1>11, <2>3 DEF SourceFails
    <3>2. d \in CaptureRecords
      BY <1>6, <3>1 DEF CopyInv
    <3> HIDE DEF gone
    <3>3. /\ d.settled = "rejected" /\ d.reads = <<>> /\ d.streaming /\ d.length = c.length
          /\ d.at = c.at
      BY <1>5, <2>1, <2>2, FinishFields
    <3> HIDE DEF d
    <3>4. PICK e \in ClientRecords :
            /\ client' = [client EXCEPT ![w] = e]
            /\ e.got = b.got
            /\ IF b.stream = "open"
               THEN e.state = "broken" /\ e.stream = "closed" /\ e.queue = <<>>
               ELSE e = b
      BY <3>1, ErrorFields
    <3> QED
      BY <1>9, <3>1, <3>2, <3>3, <3>4
  <2>4. CASE ~(Reads(w, "pull") /\ c.clientOpen)
    <3> DEFINE d == finish(c, "rejected")
    <3>1. capture' = [capture EXCEPT ![w] = d] /\ UNCHANGED client
      BY <1>11, <2>4 DEF SourceFails
    <3>2. client' = [client EXCEPT ![w] = b]
      BY <3>1 DEF ShapeInv
    <3>3. d \in CaptureRecords
      BY <1>6, <3>1 DEF CopyInv
    <3>4. /\ d.settled = "rejected" /\ d.reads = <<>> /\ d.streaming /\ d.length = c.length
          /\ d.at = c.at /\ d.clientOpen = c.clientOpen
      BY <1>1, <1>5, FinishFields
    <3> HIDE DEF d
    <3> QED
      BY <1>1, <1>9, <3>1, <3>2, <3>3, <3>4
  <2> QED
    BY <2>3, <2>4
<1> QED
  BY <1>7, <1>8, <1>10, <1>11 DEF SourceStep

\* The chunk that is queued is the next one.
LEMMA WholeNext ==
  ASSUME NEW n \in Nat, n >= 1
  PROVE  Whole(n - 1) \o <<n>> = Whole(n)
<1>1. Whole(n - 1) \in Seq(Nat) /\ Len(Whole(n - 1)) = n - 1 /\ Append(Whole(n - 1), n) = Whole(n)
  <2> DEFINE m == n - 1
  <2>1. m \in Nat /\ n = m + 1
    OBVIOUS
  <2> HIDE DEF m
  <2>2. Whole(m) \in Seq(Nat) /\ Len(Whole(m)) = m /\ Append(Whole(m), m + 1) = Whole(m + 1)
    BY <2>1, WholeSeq, WholeGrows
  <2> QED
    BY <2>1, <2>2 DEF m
<1>2. \A s \in Seq(Nat) : s \o <<n>> = Append(s, n)
  OBVIOUS
<1> QED
  BY <1>1, <1>2

\* The client takes the queued chunk: what it is left with.
LEMMA ClientReadsFields ==
  ASSUME CopyInv, ShapeInv, NEW w \in Workers, ClientReads(w)
  PROVE  LET c == capture[w]
             b == client[w]
         IN  /\ b.stream \in {"open", "closing"} /\ c.streaming /\ c.reads = <<>>
             /\ c.at >= 1 /\ b.got = Whole(c.at - 1)
             /\ \E e \in ClientRecords :
                  /\ client' = [client EXCEPT ![w] = e]
                  /\ e.state = b.state /\ e.stream = b.stream /\ e.queue = <<>> /\ e.got = Whole(c.at)
<1> DEFINE c == capture[w]
           b == client[w]
           g == b.got \o b.queue
           e == [b EXCEPT !.queue = <<>>, !.got = g]
<1>1. c \in CaptureRecords /\ b \in ClientRecords /\ StreamShape(c, b) /\ CopyFollows(c)
  BY DEF CopyInv, ShapeInv
<1>2. b.state = "open" /\ b.queue # <<>> /\ client' = [client EXCEPT ![w] = e]
  BY DEF ClientReads
<1>3. b.stream \in {"open", "closing"} /\ c.streaming /\ c.reads = <<>>
      /\ c.at >= 1 /\ b.got = Whole(c.at - 1) /\ b.queue = <<c.at>>
  BY <1>1, <1>2 DEF StreamShape
<1>4. c.at \in Nat
  BY <1>1 DEF CaptureRecords
<1>5. g = Whole(c.at)
  BY <1>3, <1>4, WholeNext
<1>6. g \in Seq(1 .. MaxChunks)
  <2> DEFINE Chunks == 1 .. MaxChunks
  <2>1. b.got \in Seq(Chunks) /\ b.queue \in Seq(Chunks)
    BY <1>1 DEF ClientRecords
  <2> HIDE DEF Chunks
  <2>2. g \in Seq(Chunks)
    BY <2>1
  <2> QED
    BY <2>2 DEF Chunks
<1> HIDE DEF g
<1>7. <<>> \in Seq(1 .. MaxChunks)
  OBVIOUS
<1>8. e \in ClientRecords
  BY <1>1, <1>6, <1>7, Zenon DEF ClientRecords
<1>9. e.state = b.state /\ e.stream = b.stream /\ e.queue = <<>> /\ e.got = g
  BY <1>1 DEF ClientRecords
<1> HIDE DEF e
<1> QED
  BY <1>2, <1>3, <1>5, <1>8, <1>9

\* The client reads, ends or cancels, or its cancel callback is called.
LEMMA ClientKeepsShape ==
  ASSUME CopyInv, ShapeInv, NEW w \in Workers, UNCHANGED request,
         ClientStep(w) \/ ClientCancels(w) \/ Cancel(w)
  PROVE  ShapeInv' /\ (Interrupted(w) \/ Arrived(w) \/ Ended(w))
<1> DEFINE c == capture[w]
           b == client[w]
<1>1. c \in CaptureRecords /\ b \in ClientRecords /\ StreamShape(c, b) /\ CopyFollows(c)
  BY DEF CopyInv, ShapeInv
<1>2. UNCHANGED <<pc, out>>
  BY StreamLeavesEngine DEF StreamStep, vars
<1>3. <<>> \in Seq(1 .. MaxChunks) /\ <<"pull">> \in Seq({"pull", "drain"}) /\ <<>> \in Seq({"pull", "drain"})
      /\ <<"drain">> \in Seq({"pull", "drain"}) /\ <<"pull", "drain">> \in Seq({"pull", "drain"})
  OBVIOUS
<1>4. CASE ClientReads(w)
  <2>1. b.stream \in {"open", "closing"} /\ c.streaming /\ c.reads = <<>>
    BY <1>4, ClientReadsFields
  <2>2. PICK e \in ClientRecords :
          /\ client' = [client EXCEPT ![w] = e]
          /\ e.state = b.state /\ e.stream = b.stream /\ e.queue = <<>> /\ e.got = Whole(c.at)
    BY <1>4, ClientReadsFields
  <2> DEFINE rs == IF b.stream = "open" /\ c.settled = "no" THEN <<"pull">> ELSE <<>>
             d == [c EXCEPT !.reads = rs]
  <2>3. capture' = [capture EXCEPT ![w].reads = rs]
    BY <1>4, <2>1, ReadSequences DEF ClientReads
  <2>4. rs \in Seq({"pull", "drain"}) /\ rs \in {<<>>, <<"pull">>} /\ (c.settled # "no" => rs = <<>>)
    BY <1>3
  <2> HIDE DEF rs
  <2>5. capture' = [capture EXCEPT ![w] = d]
    BY <2>3
  <2>6. /\ d \in CaptureRecords
        /\ d.streaming = c.streaming /\ d.length = c.length /\ d.at = c.at
        /\ d.reads = rs /\ d.clientOpen = c.clientOpen /\ d.settled = c.settled
    <3>1. d \in CaptureRecords
      BY <1>1, <2>4, Zenon DEF CaptureRecords
    <3> QED
      BY <1>1, <3>1 DEF CaptureRecords
  <2> HIDE DEF d
  <2>7. StreamShape(d, e)
    BY <1>1, <2>1, <2>2, <2>4, <2>6 DEF StreamShape
  <2>8. /\ ShapeInv'
        /\ capture'[w] = d /\ client'[w] = e /\ \A v \in Workers \ {w} : SameExchange(v)
    BY <1>1, <1>2, <2>1, <2>2, <2>5, <2>6, <2>7, StreamMoves
  <2>9. c.at >= 1 /\ c.at \in Nat /\ c.at <= c.length /\ c.length \in Nat /\ b.got = Whole(c.at - 1)
    BY <1>1, <1>4, ClientReadsFields DEF CopyFollows, CaptureRecords
  <2>10. Len(b.got) = c.at - 1 /\ Append(b.got, c.at) = Whole(c.at)
    <3> DEFINE m == c.at - 1
    <3>1. m \in Nat /\ c.at = m + 1
      BY <2>9
    <3> HIDE DEF m
    <3>2. Len(Whole(m)) = m /\ Append(Whole(m), m + 1) = Whole(m + 1)
      BY <3>1, WholeSeq, WholeGrows
    <3> QED
      BY <2>9, <3>1, <3>2 DEF m
  <2>11. b.state = "open"
    BY <1>4 DEF ClientReads
  <2>12. Arrived(w)
    BY <1>2, <2>2, <2>6, <2>8, <2>9, <2>10, <2>11 DEF Arrived
  <2> QED
    BY <2>8, <2>12
<1>5. ASSUME NEW e \in ClientRecords, client' = [client EXCEPT ![w] = e], UNCHANGED capture,
             b.stream \in {"open", "closing"}, e.stream \in {"closed", "cancelling"},
             e.state # "open", e.queue = <<>>
      PROVE  /\ ShapeInv' /\ b.state = "open"
             /\ capture'[w] = c /\ client'[w] = e /\ \A v \in Workers \ {w} : SameExchange(v)
  <2>1. capture' = [capture EXCEPT ![w] = c]
    BY <1>5 DEF CopyInv
  <2>2. StreamShape(c, e)
    BY <1>1, <1>5 DEF StreamShape
  <2>3. c.streaming /\ b.state = "open"
    BY <1>1, <1>5 DEF StreamShape
  <2> QED
    BY <1>1, <1>2, <1>5, <2>1, <2>2, <2>3, StreamMoves
<1>6. CASE ClientEnds(w)
  <2> DEFINE e == [b EXCEPT !.state = "ended", !.stream = "closed"]
  <2>1. b.stream = "closing" /\ b.queue = <<>> /\ UNCHANGED capture /\ client' = [client EXCEPT ![w] = e]
    BY <1>6 DEF ClientEnds
  <2>2. e \in ClientRecords
    BY <1>1, Zenon DEF ClientRecords
  <2>3. e.state = "ended" /\ e.stream = "closed" /\ e.queue = b.queue /\ e.got = b.got
    BY <1>1 DEF ClientRecords
  <2> HIDE DEF e
  <2>4. /\ ShapeInv' /\ b.state = "open"
        /\ capture'[w] = c /\ client'[w] = e /\ \A v \in Workers \ {w} : SameExchange(v)
    BY <1>5, <2>1, <2>2, <2>3
  <2>5. pc[w] = "idle"
    BY <2>1 DEF ShapeInv, ExchangeShape
  <2>6. Len(b.got) = c.length
    <3>1. c.at = c.length /\ c.at \in Nat
      BY <1>1, <2>1 DEF StreamShape, CopyFollows, CaptureRecords
    <3>2. b.got = Whole(c.at)
      BY <1>1, <2>1 DEF StreamShape
    <3> QED
      BY <3>1, <3>2, WholeSeq
  <2>7. Ended(w)
    BY <1>2, <2>3, <2>4, <2>5, <2>6 DEF Ended
  <2> QED
    BY <2>4, <2>7
<1>7. CASE ClientCancels(w)
  <2> DEFINE e == [b EXCEPT !.state = "left", !.stream = "cancelling", !.queue = <<>>]
  <2>1. b.stream \in {"open", "closing"} /\ UNCHANGED capture /\ client' = [client EXCEPT ![w] = e]
    BY <1>7 DEF ClientCancels
  <2>2. e \in ClientRecords
    BY <1>1, <1>3, Zenon DEF ClientRecords
  <2>3. e.state = "left" /\ e.stream = "cancelling" /\ e.queue = <<>> /\ e.got = b.got
    BY <1>1 DEF ClientRecords
  <2> HIDE DEF e
  <2>4. /\ ShapeInv' /\ b.state = "open"
        /\ capture'[w] = c /\ client'[w] = e /\ \A v \in Workers \ {w} : SameExchange(v)
    BY <1>5, <2>1, <2>2, <2>3
  <2>5. Interrupted(w)
    BY <1>2, <2>3, <2>4 DEF Interrupted
  <2> QED
    BY <2>4, <2>5
<1>8. CASE Cancel(w)
  <2>1. b.stream = "cancelling" /\ c.streaming /\ c.reads \in {<<>>, <<"pull">>} /\ b.queue = <<>>
        /\ b.state # "open"
    BY <1>1, <1>8 DEF Cancel, StreamShape
  <2> DEFINE rs == IF c.settled = "no" THEN Append(c.reads, "drain") ELSE c.reads
             d == [c EXCEPT !.clientOpen = FALSE, !.reads = rs]
             e == [b EXCEPT !.stream = "closed"]
  <2>2. capture' = [capture EXCEPT ![w] = d] /\ client' = [client EXCEPT ![w].stream = "closed"]
    BY <1>8 DEF Cancel
  <2>3. client' = [client EXCEPT ![w] = e]
    BY <2>2
  <2>4. rs \in {<<>>, <<"pull">>, <<"drain">>, <<"pull", "drain">>} /\ (c.settled # "no" => rs = <<>>)
    BY <1>1, <2>1, ReadSequences DEF StreamShape
  <2> HIDE DEF rs
  <2>5. rs \in Seq({"pull", "drain"})
    BY <1>3, <2>4
  <2>6. /\ d \in CaptureRecords
        /\ d.streaming = c.streaming /\ d.length = c.length /\ d.at = c.at
        /\ d.reads = rs /\ d.clientOpen = FALSE /\ d.settled = c.settled
    <3>1. d \in CaptureRecords
      BY <1>1, <2>5, Zenon DEF CaptureRecords
    <3> QED
      BY <1>1, <3>1 DEF CaptureRecords
  <2>7. e \in ClientRecords
    BY <1>1, Zenon DEF ClientRecords
  <2>8. e.state = b.state /\ e.stream = "closed" /\ e.queue = b.queue /\ e.got = b.got
    BY <1>1 DEF ClientRecords
  <2> HIDE DEF d, e
  <2>9. StreamShape(d, e)
    BY <1>1, <2>1, <2>4, <2>6, <2>8 DEF StreamShape
  <2>10. c.settled = "no" => d.settled # "none"
    BY <2>6
  <2>11. /\ ShapeInv'
         /\ capture'[w] = d /\ client'[w] = e /\ \A v \in Workers \ {w} : SameExchange(v)
    BY <1>2, <2>1, <2>2, <2>3, <2>6, <2>7, <2>8, <2>9, <2>10, StreamMoves
  <2>12. Interrupted(w)
    BY <1>2, <2>6, <2>8, <2>11 DEF Interrupted
  <2> QED
    BY <2>11, <2>12
<1> QED
  BY <1>4, <1>6, <1>7, <1>8 DEF ClientStep

\* A step of execute: only a whole copy is stored or refused.
LEMMA AttemptMoves ==
  ASSUME ShapeInv, NEW w \in Workers, UNCHANGED <<capture, client, request>>, pc[w] # "idle",
         \A v \in Workers \ {w} : pc'[v] = pc[v] /\ out'[v] = out[v],
         pc'[w] # "begin",
         \/ capture[w].settled = "resolved"
         \/ pc'[w] = "run"
         \/ pc'[w] \in {"idle", "abandon"} /\ out'[w] = "threw"
         \/ pc'[w] = "idle" /\ ~Captured(w)
  PROVE  ShapeInv'
<1>1. \A v \in Workers \ {w} : SameExchange(v)
  BY DEF SameExchange
<1>2. ExchangeShape(w) /\ StreamShape(capture[w], client[w])
  BY DEF ShapeInv
<1>3. ExchangeShape(w)'
  BY <1>2 DEF ExchangeShape, Captured
<1>4. client' \in [Workers -> ClientRecords] /\ StreamShape(capture'[w], client'[w])
  BY <1>2 DEF ShapeInv
<1> QED
  BY <1>1, <1>3, <1>4, OneExchange

\* What execute does to its worker, and to no other.
LEMMA ExecuteMoves ==
  ASSUME TypeInv, NEW w \in Workers
  PROVE  /\ BeginAcquired(w) \/ (BeginError(w) /\ FailOpen) =>
              pc[w] = "begin" /\ pc' = [pc EXCEPT ![w] = "run"] /\ out' = out
         /\ BeginRefused(w) \/ (BeginError(w) /\ ~FailOpen) =>
              pc[w] = "begin" /\ \E answer \in Answers : Return(w, answer)
         /\ Complete(w) \/ CompleteError(w) =>
              pc[w] = "complete" /\ \E answer \in {"stored", "unstored"} : Return(w, answer)
         /\ Abandon(w) \/ AbandonError(w) =>
              pc[w] = "abandon" /\ out[w] \in {"unstored", "threw"} /\ Return(w, out[w])
         /\ RunStored(w) =>
              pc[w] = "run" /\ Claiming(w) /\ pc' = [pc EXCEPT ![w] = "complete"] /\ out' = out
         /\ RunFailed(w) =>
              pc[w] = "run" /\ pc' = [pc EXCEPT ![w] = "abandon"]
              /\ \E answer \in {"unstored", "threw"} : out' = [out EXCEPT ![w] = answer]
         /\ RunUnclaimed(w) =>
              pc[w] = "run" /\ \E answer \in {"unstored", "threw"} : Return(w, answer)
         /\ StoreResultThrows(w) => pc[w] = "run" /\ Return(w, "threw")
         /\ Crash(w) => pc[w] # "idle" /\ Return(w, "none")
<1>1. BeginAcquired(w) \/ (BeginError(w) /\ FailOpen) =>
        pc[w] = "begin" /\ pc' = [pc EXCEPT ![w] = "run"] /\ out' = out
  BY DEF BeginAcquired, BeginError
<1>2. BeginRefused(w) \/ (BeginError(w) /\ ~FailOpen) =>
        pc[w] = "begin" /\ \E answer \in Answers : Return(w, answer)
  <2>1. CASE BeginRefused(w)
    <3>1. Outcome(w) \in {"completed", "in_flight", "mismatch"}
      BY <2>1, OutcomeType DEF BeginRefused, Outcome
    <3>2. Refusal[Outcome(w)] \in Answers
      BY <3>1 DEF Refusal, Answers
    <3> QED
      BY <2>1, <3>2 DEF BeginRefused
  <2>2. CASE BeginError(w) /\ ~FailOpen
    <3>1. "store_error" \in Answers
      BY DEF Answers
    <3> QED
      BY <2>2, <3>1 DEF BeginError
  <2> QED
    BY <2>1, <2>2
<1>3. Complete(w) \/ CompleteError(w) =>
        pc[w] = "complete" /\ \E answer \in {"stored", "unstored"} : Return(w, answer)
  BY DEF Complete, CompleteError
<1>4. Abandon(w) \/ AbandonError(w) =>
        pc[w] = "abandon" /\ out[w] \in {"unstored", "threw"} /\ Return(w, out[w])
  BY DEF Abandon, AbandonError, TypeInv, AttemptShape
<1>5. RunStored(w) =>
        pc[w] = "run" /\ Claiming(w) /\ pc' = [pc EXCEPT ![w] = "complete"] /\ out' = out
  BY DEF RunStored
<1>6. RunFailed(w) =>
        pc[w] = "run" /\ pc' = [pc EXCEPT ![w] = "abandon"]
        /\ \E answer \in {"unstored", "threw"} : out' = [out EXCEPT ![w] = answer]
  BY DEF RunFailed
<1>7. RunUnclaimed(w) =>
        pc[w] = "run" /\ \E answer \in {"unstored", "threw"} : Return(w, answer)
  BY DEF RunUnclaimed
<1>8. (StoreResultThrows(w) => pc[w] = "run" /\ Return(w, "threw"))
      /\ (Crash(w) => pc[w] # "idle" /\ Return(w, "none"))
  BY DEF StoreResultThrows, Crash
<1> QED
  BY <1>1, <1>2, <1>3, <1>4, <1>5, <1>6, <1>7, <1>8

\* The steps of the door that are steps of execute.
LEMMA ExecuteKeepsShape ==
  ASSUME TypeInv, ShapeInv, NEW w \in Workers,
         StoreCall(w) \/ HandlerThrows(w) \/ CopyResolved(w) \/ CopyRejected(w)
  PROVE  ShapeInv'
<1>0. TypeOK /\ ExchangeShape(w)
  BY DEF TypeInv, ShapeInv
<1>1. UNCHANGED <<capture, client, request>>
  BY DEF StoreCall, HandlerThrows, CopyResolved, CopyRejected
<1>2. CASE StoreCall(w)
  <2>1. CASE BeginAcquired(w) \/ (BeginError(w) /\ FailOpen)
    <3>1. pc[w] = "begin" /\ pc'[w] = "run" /\ \A v \in Workers \ {w} : pc'[v] = pc[v] /\ out'[v] = out[v]
      BY <1>0, <2>1, ExecuteMoves DEF TypeOK
    <3> QED
      BY <1>1, <3>1, AttemptMoves
  <2>2. CASE BeginRefused(w) \/ (BeginError(w) /\ ~FailOpen)
    <3>1. pc[w] = "begin" /\ pc'[w] = "idle" /\ \A v \in Workers \ {w} : pc'[v] = pc[v] /\ out'[v] = out[v]
      BY <1>0, <2>2, ExecuteMoves, ReturnFrame
    <3>2. ~Captured(w)
      BY <1>0, <3>1 DEF ExchangeShape
    <3> QED
      BY <1>1, <3>1, <3>2, AttemptMoves
  <2>3. CASE Complete(w) \/ CompleteError(w)
    <3>1. pc[w] = "complete" /\ pc'[w] = "idle" /\ \A v \in Workers \ {w} : pc'[v] = pc[v] /\ out'[v] = out[v]
      BY <1>0, <2>3, ExecuteMoves, ReturnFrame
    <3>2. capture[w].settled = "resolved"
      BY <1>0, <3>1 DEF ExchangeShape
    <3> QED
      BY <1>1, <3>1, <3>2, AttemptMoves
  <2>4. CASE Abandon(w) \/ AbandonError(w)
    <3>1. /\ pc[w] = "abandon" /\ pc'[w] = "idle" /\ out'[w] = out[w] /\ out[w] \in {"unstored", "threw"}
          /\ \A v \in Workers \ {w} : pc'[v] = pc[v] /\ out'[v] = out[v]
      BY <1>0, <2>4, ExecuteMoves, ReturnFrame
    <3>2. out[w] = "threw" \/ capture[w].settled = "resolved"
      BY <1>0, <3>1 DEF ExchangeShape
    <3> QED
      BY <1>1, <3>1, <3>2, AttemptMoves
  <2>5. ~(RunUnclaimed(w) \/ RunStored(w) \/ RunFailed(w))
    BY <1>2, ExecuteMoves DEF StoreCall
  <2> QED
    BY <1>2, <2>1, <2>2, <2>3, <2>4, <2>5 DEF StoreCall, WorkerStep
<1>3. ASSUME RunFailed(w) \/ RunUnclaimed(w)
      PROVE  /\ pc[w] = "run" /\ pc'[w] \in {"idle", "abandon"}
             /\ \A v \in Workers \ {w} : pc'[v] = pc[v] /\ out'[v] = out[v]
  <2>1. CASE RunFailed(w)
    BY <1>0, <2>1, ExecuteMoves DEF TypeOK
  <2>2. CASE RunUnclaimed(w)
    BY <1>0, <2>2, ExecuteMoves, ReturnFrame
  <2> QED
    BY <1>3, <2>1, <2>2
<1>4. CASE HandlerThrows(w) \/ CopyRejected(w)
  <2>1. (RunFailed(w) \/ RunUnclaimed(w)) /\ out'[w] = "threw"
    BY <1>4 DEF HandlerThrows, CopyRejected
  <2> QED
    BY <1>1, <1>3, <2>1, AttemptMoves
<1>5. CASE CopyResolved(w)
  <2>1. capture[w].settled = "resolved"
    BY <1>5 DEF CopyResolved
  <2>2. CASE RunStored(w)
    <3>1. pc[w] = "run" /\ pc'[w] = "complete" /\ \A v \in Workers \ {w} : pc'[v] = pc[v] /\ out'[v] = out[v]
      BY <1>0, <2>2, ExecuteMoves DEF TypeOK
    <3> QED
      BY <1>1, <2>1, <3>1, AttemptMoves
  <2>3. CASE RunFailed(w) \/ RunUnclaimed(w)
    BY <1>1, <1>3, <2>1, <2>3, AttemptMoves
  <2>4. CASE StoreResultThrows(w)
    <3>1. pc[w] = "run" /\ pc'[w] = "idle" /\ \A v \in Workers \ {w} : pc'[v] = pc[v] /\ out'[v] = out[v]
      BY <1>0, <2>4, ExecuteMoves, ReturnFrame
    <3> QED
      BY <1>1, <2>1, <3>1, AttemptMoves
  <2> QED
    BY <1>5, <2>2, <2>3, <2>4 DEF CopyResolved
<1> QED
  BY <1>2, <1>4, <1>5

\* A response begins: nothing of it has been read.
LEMMA FreshShapes ==
  /\ NoClient \in ClientRecords /\ NoCapture \in CaptureRecords
  /\ StreamShape(NoCapture, NoClient)
  /\ LET d == [NoCapture EXCEPT !.settled = "resolved"]
         e == [NoClient EXCEPT !.state = "open"]
     IN  /\ d.settled = "resolved" /\ ~d.streaming /\ d.length = 0
         /\ e \in ClientRecords /\ e.state = "open" /\ e.stream = "none" /\ e.got = <<>>
         /\ StreamShape(d, e)
  /\ \A n \in 0 .. MaxChunks, fails \in BOOLEAN :
       LET d == [ NoCapture EXCEPT !.streaming = TRUE, !.length = n, !.fails = fails,
                    !.reads = <<"pull">>, !.clientOpen = TRUE, !.settled = "no" ]
           e == [NoClient EXCEPT !.state = "open", !.stream = "open"]
       IN  /\ d.settled = "no" /\ d.streaming /\ d.length = n
           /\ e \in ClientRecords /\ e.state = "open" /\ e.stream = "open" /\ e.got = <<>>
           /\ StreamShape(d, e)
<1>0. <<>> \in Seq(1 .. MaxChunks) /\ MaxChunks \in Nat /\ Whole(0) = <<>>
  BY ChunkAssumption DEF Whole
<1>1. NoClient \in ClientRecords
  BY <1>0 DEF NoClient, ClientRecords
<1>2. StreamShape(NoCapture, NoClient)
  BY <1>0 DEF NoClient, NoCapture, StreamShape
<1>3. LET d == [NoCapture EXCEPT !.settled = "resolved"]
          e == [NoClient EXCEPT !.state = "open"]
      IN  /\ d.settled = "resolved" /\ ~d.streaming /\ d.length = 0
          /\ e \in ClientRecords /\ e.state = "open" /\ e.stream = "none" /\ e.got = <<>>
          /\ StreamShape(d, e)
  <2> DEFINE d == [NoCapture EXCEPT !.settled = "resolved"]
             e == [NoClient EXCEPT !.state = "open"]
  <2>1. e \in ClientRecords
    BY <1>1, Zenon DEF ClientRecords
  <2>2. d.settled = "resolved" /\ ~d.streaming /\ d.length = 0 /\ d.reads = <<>>
    BY DEF NoCapture
  <2>3. e.state = "open" /\ e.stream = "none" /\ e.got = <<>> /\ e.queue = <<>>
    BY DEF NoClient
  <2> HIDE DEF d, e
  <2>4. StreamShape(d, e)
    BY <1>0, <2>2, <2>3 DEF StreamShape
  <2> QED
    BY <2>1, <2>2, <2>3, <2>4 DEF d, e
<1>4. ASSUME NEW n \in 0 .. MaxChunks, NEW fails \in BOOLEAN
      PROVE  LET d == [ NoCapture EXCEPT !.streaming = TRUE, !.length = n, !.fails = fails,
                          !.reads = <<"pull">>, !.clientOpen = TRUE, !.settled = "no" ]
                 e == [NoClient EXCEPT !.state = "open", !.stream = "open"]
             IN  /\ d.settled = "no" /\ d.streaming /\ d.length = n
                 /\ e \in ClientRecords /\ e.state = "open" /\ e.stream = "open" /\ e.got = <<>>
                 /\ StreamShape(d, e)
  <2> DEFINE d == [ NoCapture EXCEPT !.streaming = TRUE, !.length = n, !.fails = fails,
                      !.reads = <<"pull">>, !.clientOpen = TRUE, !.settled = "no" ]
             e == [NoClient EXCEPT !.state = "open", !.stream = "open"]
  <2>1. e \in ClientRecords
    BY <1>1, Zenon DEF ClientRecords
  <2>2. d.settled = "no" /\ d.streaming /\ d.length = n /\ d.reads = <<"pull">> /\ d.clientOpen
        /\ d.at = 0
    BY DEF NoCapture
  <2>3. e.state = "open" /\ e.stream = "open" /\ e.got = <<>> /\ e.queue = <<>>
    BY DEF NoClient
  <2> HIDE DEF d, e
  <2>4. StreamShape(d, e)
    BY <1>0, <2>2, <2>3 DEF StreamShape
  <2>5. /\ d.settled = "no" /\ d.streaming /\ d.length = n
        /\ e \in ClientRecords /\ e.state = "open" /\ e.stream = "open" /\ e.got = <<>>
        /\ StreamShape(d, e)
    BY <2>1, <2>2, <2>3, <2>4
  <2> QED
    BY <2>5, Zenon DEF d, e
<1> QED
  BY <1>1, <1>2, <1>3, <1>4, BeginsSound, Zenon

\* The handler returns.
LEMMA HandlerReturnsKeepsShape ==
  ASSUME CopyInv, ShapeInv, NEW w \in Workers, HandlerReturns(w)
  PROVE  /\ ShapeInv'
         /\ client[w] = NoClient /\ client'[w].state = "open" /\ client'[w].got = <<>>
         /\ capture'[w].length \in 0 .. MaxChunks
         /\ \A v \in Workers \ {w} : SameExchange(v)
<1>1. pc[w] = "run" /\ ~Captured(w) /\ UNCHANGED <<pc, out, request>>
  BY DEF HandlerReturns, vars
<1>2. ExchangeShape(w)
  BY DEF ShapeInv
<1>3. client[w] = NoClient /\ request[w] # NoBody
  BY <1>1, <1>2 DEF ExchangeShape
<1>4. ASSUME NEW d, NEW e \in ClientRecords,
             capture' = [capture EXCEPT ![w] = d], client' = [client EXCEPT ![w] = e],
             StreamShape(d, e), d.settled # "none", e.state = "open", e.stream # "closing",
             e.got = <<>>, d.length \in 0 .. MaxChunks
      PROVE  /\ ShapeInv' /\ client'[w].state = "open" /\ client'[w].got = <<>>
             /\ capture'[w].length \in 0 .. MaxChunks
             /\ \A v \in Workers \ {w} : SameExchange(v)
  <2>1. /\ capture'[w] = d /\ client'[w] = e
        /\ client' \in [Workers -> ClientRecords]
        /\ \A v \in Workers \ {w} : capture'[v] = capture[v] /\ client'[v] = client[v]
    BY <1>4, OneStream
  <2>2. ExchangeShape(w)'
    BY <1>1, <1>3, <1>4, <2>1 DEF ExchangeShape, Captured
  <2>3. \A v \in Workers \ {w} : SameExchange(v)
    BY <1>1, <2>1 DEF SameExchange
  <2> QED
    BY <1>4, <2>1, <2>2, <2>3, OneExchange
<1>5. CASE captureBodiless(w)
  <2> DEFINE d == [NoCapture EXCEPT !.settled = "resolved"]
             e == [NoClient EXCEPT !.state = "open"]
  <2>1. capture' = [capture EXCEPT ![w] = d] /\ client' = [client EXCEPT ![w] = e]
    BY <1>5 DEF captureBodiless
  <2>2. /\ d.settled = "resolved" /\ ~d.streaming /\ d.length = 0
        /\ e \in ClientRecords /\ e.state = "open" /\ e.stream = "none" /\ e.got = <<>>
        /\ StreamShape(d, e)
    BY FreshShapes, Zenon
  <2> HIDE DEF d, e
  <2>3. 0 \in 0 .. MaxChunks
    BY ChunkAssumption
  <2> QED
    BY <1>3, <1>4, <2>1, <2>2, <2>3
<1>6. ASSUME NEW n \in 0 .. MaxChunks, NEW fails \in BOOLEAN, captureStreaming(w, n, fails)
      PROVE  /\ ShapeInv' /\ client'[w].state = "open" /\ client'[w].got = <<>>
             /\ capture'[w].length \in 0 .. MaxChunks
             /\ \A v \in Workers \ {w} : SameExchange(v)
  <2> DEFINE d == [ NoCapture EXCEPT !.streaming = TRUE, !.length = n, !.fails = fails,
                      !.reads = <<"pull">>, !.clientOpen = TRUE, !.settled = "no" ]
             e == [NoClient EXCEPT !.state = "open", !.stream = "open"]
  <2>1. capture' = [capture EXCEPT ![w] = d] /\ client' = [client EXCEPT ![w] = e]
    BY <1>6 DEF captureStreaming
  <2>2. /\ d.settled = "no" /\ d.streaming /\ d.length = n
        /\ e \in ClientRecords /\ e.state = "open" /\ e.stream = "open" /\ e.got = <<>>
        /\ StreamShape(d, e)
    BY FreshShapes, Zenon
  <2> HIDE DEF d, e
  <2> QED
    BY <1>4, <2>1, <2>2
<1> QED
  BY <1>3, <1>5, <1>6 DEF HandlerReturns

\* An attempt is over, and what is left of its response has a sound shape.
LEMMA RestMoves ==
  ASSUME CopyInv, ShapeInv, NEW w \in Workers, NEW d, NEW e \in ClientRecords,
         capture' = [capture EXCEPT ![w] = d], client' = [client EXCEPT ![w] = e],
         pc'[w] = "idle", out'[w] = "none", request'[w] # NoBody,
         \A v \in Workers \ {w} : pc'[v] = pc[v] /\ out'[v] = out[v] /\ request'[v] = request[v],
         StreamShape(d, e)
  PROVE  /\ ShapeInv'
         /\ capture'[w] = d /\ client'[w] = e /\ \A v \in Workers \ {w} : SameExchange(v)
<1>1. /\ capture'[w] = d /\ client'[w] = e
      /\ client' \in [Workers -> ClientRecords]
      /\ \A v \in Workers \ {w} : capture'[v] = capture[v] /\ client'[v] = client[v]
  BY OneStream
<1>2. \A v \in Workers \ {w} : SameExchange(v)
  BY <1>1 DEF SameExchange
<1>3. ExchangeShape(w)'
  BY <1>1 DEF ExchangeShape, Captured
<1> QED
  BY <1>1, <1>2, <1>3, OneExchange

\* The door closes or fails the capture.
LEMMA AnswerKeepsShape ==
  ASSUME TypeInv, CopyInv, ShapeInv, NEW w \in Workers, AnswerCaptured(w)
  PROVE  ShapeInv' /\ (Interrupted(w) \/ Ended(w))
<1> DEFINE c == capture[w]
           b == client[w]
<1>1. c \in CaptureRecords /\ b \in ClientRecords /\ StreamShape(c, b) /\ CopyFollows(c)
      /\ ExchangeShape(w)
  BY DEF CopyInv, ShapeInv
<1>2. pc[w] = "idle" /\ out[w] # "none" /\ Captured(w) /\ UNCHANGED <<pc, request>>
      /\ out' = [out EXCEPT ![w] = "none"]
  BY DEF AnswerCaptured, Returned
<1>3. /\ pc'[w] = "idle" /\ out'[w] = "none" /\ request'[w] # NoBody
      /\ \A v \in Workers \ {w} : pc'[v] = pc[v] /\ out'[v] = out[v] /\ request'[v] = request[v]
  BY <1>1, <1>2 DEF ExchangeShape, TypeInv, TypeOK
<1>4. b.stream # "closing"
  BY <1>1, <1>2 DEF ExchangeShape
<1>5. CASE client' = [client EXCEPT ![w].state = "ended"] /\ UNCHANGED capture /\ ~c.streaming
  <2> DEFINE e == [b EXCEPT !.state = "ended"]
  <2>1. client' = [client EXCEPT ![w] = e] /\ capture' = [capture EXCEPT ![w] = c]
    BY <1>5 DEF CopyInv
  <2>2. e \in ClientRecords
    BY <1>1, Zenon DEF ClientRecords
  <2>3. e.state = "ended" /\ e.stream = b.stream /\ e.queue = b.queue /\ e.got = b.got
    BY <1>1 DEF ClientRecords
  <2> HIDE DEF e
  <2>4. b.stream \notin {"open", "closing", "cancelling"} /\ b.got = <<>> /\ c.length = 0
    BY <1>1, <1>5 DEF StreamShape
  <2>5. StreamShape(c, e)
    BY <1>1, <2>3, <2>4 DEF StreamShape
  <2>6. b.state = "open"
    BY <1>1, <1>2, <1>5 DEF ExchangeShape
  <2>7. /\ ShapeInv'
        /\ capture'[w] = c /\ client'[w] = e /\ \A v \in Workers \ {w} : SameExchange(v)
    BY <1>3, <2>1, <2>2, <2>5, RestMoves
  <2>8. Ended(w)
    BY <1>2, <2>3, <2>4, <2>6, <2>7 DEF Ended
  <2> QED
    BY <2>7, <2>8
<1>6. CASE out[w] # "threw" /\ c.streaming
  <2> DEFINE s == IF c.clientOpen /\ b.stream = "open" THEN "closing" ELSE b.stream
             d == [c EXCEPT !.clientOpen = FALSE]
             e == [b EXCEPT !.stream = s]
  <2>1. capture' = [capture EXCEPT ![w].clientOpen = FALSE] /\ client' = [client EXCEPT ![w].stream = s]
    BY <1>6 DEF AnswerCaptured, close
  <2>2. s \in {"none", "closing", "cancelling", "closed"} /\ (b.stream = "open" => s = "closing")
        /\ (b.stream # "open" => s = b.stream)
    BY <1>1 DEF StreamShape, ClientRecords
  <2> HIDE DEF s
  <2>3. capture' = [capture EXCEPT ![w] = d] /\ client' = [client EXCEPT ![w] = e]
    BY <2>1
  <2>4. d.streaming = c.streaming /\ d.length = c.length /\ d.at = c.at /\ d.reads = c.reads
        /\ d.settled = c.settled
    BY <1>1 DEF CaptureRecords
  <2>5. e \in ClientRecords
    BY <1>1, <2>2, Zenon DEF ClientRecords
  <2>6. e.state = b.state /\ e.stream = s /\ e.queue = b.queue /\ e.got = b.got
    BY <1>1 DEF ClientRecords
  <2> HIDE DEF d, e
  <2>7. c.settled = "resolved"
    BY <1>1, <1>2, <1>6 DEF ExchangeShape
  <2>8. StreamShape(d, e)
    <3>1. CASE b.stream = "open"
      BY <1>1, <1>6, <2>2, <2>4, <2>6, <2>7, <3>1 DEF StreamShape
    <3>2. CASE b.stream # "open"
      BY <1>1, <1>4, <1>6, <2>2, <2>4, <2>6, <2>7, <3>2 DEF StreamShape
    <3> QED
      BY <3>1, <3>2
  <2>9. /\ ShapeInv'
        /\ capture'[w] = d /\ client'[w] = e /\ \A v \in Workers \ {w} : SameExchange(v)
    BY <1>3, <2>3, <2>5, <2>8, RestMoves
  <2>10. Interrupted(w)
    BY <1>2, <2>4, <2>6, <2>9 DEF Interrupted
  <2> QED
    BY <2>9, <2>10
<1>7. CASE out[w] = "threw" /\ c.streaming /\ c.clientOpen
  <2> DEFINE gone == [c EXCEPT !.clientOpen = FALSE]
             d == finish(gone, "rejected")
  <2>1. capture' = [capture EXCEPT ![w] = d] /\ errorStream(w)
    BY <1>7 DEF AnswerCaptured, fail
  <2>2. gone \in CaptureRecords
    BY <1>1, Zenon DEF CaptureRecords
  <2>3. gone.streaming = c.streaming /\ gone.length = c.length /\ gone.at = c.at
        /\ gone.settled = c.settled /\ gone.reads = c.reads
    BY <1>1 DEF CaptureRecords
  <2> HIDE DEF gone
  <2>4. /\ d.streaming = c.streaming /\ d.length = c.length /\ d.at = c.at /\ d.settled # "no"
        /\ (d.reads = <<>> \/ (c.settled # "no" /\ d.reads = c.reads))
    <3>1. /\ d.streaming = gone.streaming /\ d.length = gone.length /\ d.at = gone.at
          /\ IF gone.settled = "no" THEN d.settled = "rejected" /\ d.reads = <<>> ELSE d = gone
      BY <2>2, FinishFields
    <3> HIDE DEF d
    <3> QED
      BY <2>3, <3>1
  <2> HIDE DEF d
  <2>5. PICK e \in ClientRecords :
          /\ client' = [client EXCEPT ![w] = e]
          /\ e.got = b.got
          /\ IF b.stream = "open"
             THEN e.state = "broken" /\ e.stream = "closed" /\ e.queue = <<>>
             ELSE e = b
    BY <2>1, ErrorFields
  <2>6. d.reads = <<>>
    BY <1>1, <2>4 DEF StreamShape
  <2>7. StreamShape(d, e)
    <3>1. CASE b.stream = "open"
      BY <1>1, <1>7, <2>4, <2>5, <2>6, <3>1 DEF StreamShape
    <3>2. CASE b.stream # "open"
      BY <1>1, <1>4, <1>7, <2>4, <2>5, <2>6, <3>2 DEF StreamShape
    <3> QED
      BY <3>1, <3>2
  <2>8. /\ ShapeInv'
        /\ capture'[w] = d /\ client'[w] = e /\ \A v \in Workers \ {w} : SameExchange(v)
    BY <1>3, <2>1, <2>5, <2>7, RestMoves
  <2>9. b.stream = "open" => b.state = "open"
    BY <1>1 DEF StreamShape
  <2>10. Interrupted(w)
    BY <1>2, <2>4, <2>5, <2>8, <2>9 DEF Interrupted
  <2> QED
    BY <2>8, <2>10
<1>8. CASE out[w] = "threw" /\ c.streaming /\ ~c.clientOpen
  <2>1. UNCHANGED <<capture, client>>
    BY <1>8 DEF AnswerCaptured, fail, captureVars
  <2>2. client' = [client EXCEPT ![w] = b] /\ capture' = [capture EXCEPT ![w] = c]
    BY <2>1 DEF CopyInv, ShapeInv
  <2>3. /\ ShapeInv'
        /\ capture'[w] = c /\ client'[w] = b /\ \A v \in Workers \ {w} : SameExchange(v)
    BY <1>1, <1>3, <2>2, RestMoves
  <2>4. Interrupted(w)
    BY <1>2, <2>3 DEF Interrupted
  <2> QED
    BY <2>3, <2>4
<1>9. CASE ~c.streaming
  BY <1>5, <1>9 DEF AnswerCaptured, close, fail
<1> QED
  BY <1>6, <1>7, <1>8, <1>9

\* The process dies, with the connection of its client.
LEMMA DeathKeepsShape ==
  ASSUME TypeInv, CopyInv, ShapeInv, NEW w \in Workers, Dies(w)
  PROVE  /\ ShapeInv' /\ \A v \in Workers \ {w} : SameExchange(v)
         /\ pc[w] # "idle" /\ pc'[w] = "idle"
         /\ capture'[w].length = capture[w].length /\ client'[w].got = client[w].got
         /\ client'[w].state = IF client[w].state = "open" THEN "broken" ELSE client[w].state
<1> DEFINE c == capture[w]
           b == client[w]
           gone == [c EXCEPT !.clientOpen = FALSE]
           d == finish(gone, "rejected")
           s == IF b.state = "open" THEN "broken" ELSE b.state
           e == [b EXCEPT !.state = s, !.stream = "closed", !.queue = <<>>]
<1>1. c \in CaptureRecords /\ b \in ClientRecords /\ StreamShape(c, b) /\ ExchangeShape(w)
  BY DEF CopyInv, ShapeInv
<1>2. capture' = [capture EXCEPT ![w] = d] /\ client' = [client EXCEPT ![w] = e] /\ UNCHANGED request
  BY DEF Dies
<1>3. /\ pc[w] # "idle" /\ pc'[w] = "idle" /\ out'[w] = "none" /\ request'[w] # NoBody
      /\ \A v \in Workers \ {w} : pc'[v] = pc[v] /\ out'[v] = out[v] /\ request'[v] = request[v]
  <2>1. pc[w] # "idle" /\ Return(w, "none")
    BY ExecuteMoves DEF Dies
  <2> QED
    BY <1>1, <1>2, <2>1, ReturnFrame DEF ExchangeShape, TypeInv
<1>4. gone \in CaptureRecords
  BY <1>1, Zenon DEF CaptureRecords
<1>5. gone.streaming = c.streaming /\ gone.length = c.length /\ gone.at = c.at
      /\ gone.settled = c.settled /\ gone.reads = c.reads
  BY <1>1 DEF CaptureRecords
<1> HIDE DEF gone
<1>6. /\ d.streaming = gone.streaming /\ d.length = gone.length /\ d.at = gone.at
      /\ IF gone.settled = "no" THEN d.settled = "rejected" /\ d.reads = <<>> ELSE d = gone
  BY <1>4, FinishFields
<1>7. s \in {"none", "ended", "broken", "left"} /\ <<>> \in Seq(1 .. MaxChunks)
  BY <1>1 DEF ClientRecords
<1>8. e \in ClientRecords
  <2> HIDE DEF s
  <2> QED
    BY <1>1, <1>7, Zenon DEF ClientRecords
<1>9. e.state = s /\ e.stream = "closed" /\ e.queue = <<>> /\ e.got = b.got
  BY <1>1 DEF ClientRecords
<1> HIDE DEF d, e
<1>10. d.reads = <<>> /\ d.settled # "no"
  BY <1>1, <1>5, <1>6 DEF StreamShape
<1>11. StreamShape(d, e)
  BY <1>1, <1>5, <1>6, <1>7, <1>9, <1>10 DEF StreamShape
<1>12. /\ ShapeInv'
       /\ capture'[w] = d /\ client'[w] = e /\ \A v \in Workers \ {w} : SameExchange(v)
  BY <1>2, <1>3, <1>8, <1>11, RestMoves
<1> QED
  BY <1>3, <1>5, <1>6, <1>9, <1>12

\* Nothing is left of an exchange, or nothing was.
LEMMA LastKeepsShape ==
  ASSUME ExchangeInv, NEW w \in Workers, AnswerOther(w) \/ Over(w)
  PROVE  /\ ShapeInv' /\ UNCHANGED pc /\ pc[w] = "idle"
         /\ \/ UNCHANGED <<capture, client>>
            \/ client[w].state # "open" /\ client'[w] = NoClient /\ capture'[w].length = 0
         /\ \A v \in Workers \ {w} : SameExchange(v)
<1>1. /\ TypeOK /\ CopyInv /\ ShapeInv /\ ExchangeShape(w) /\ StreamShape(capture[w], client[w])
      /\ request \in [Workers -> Bodies]
  BY DEF ExchangeInv, TypeInv, ShapeInv
<1>2. CASE AnswerOther(w)
  <2>1. /\ pc[w] = "idle" /\ out[w] # "none" /\ ~Captured(w) /\ UNCHANGED <<pc, capture, client>>
        /\ out' = [out EXCEPT ![w] = "none"] /\ request' = [request EXCEPT ![w] = NoBody]
    BY <1>2 DEF AnswerOther, Returned
  <2>2. client[w] = NoClient /\ client'[w] = NoClient /\ ~Captured(w)'
    BY <1>1, <2>1 DEF ExchangeShape, Captured
  <2>3. out'[w] = "none" /\ request'[w] = NoBody
        /\ \A v \in Workers \ {w} : SameExchange(v)
    BY <1>1, <2>1 DEF TypeOK, SameExchange
  <2>4. ExchangeShape(w)'
    BY <2>1, <2>2, <2>3 DEF ExchangeShape
  <2>5. ShapeInv'
    BY <1>1, <2>1, <2>3, <2>4, OneExchange DEF ShapeInv
  <2> QED
    BY <2>1, <2>3, <2>5
<1>3. CASE Over(w)
  <2>1. /\ pc[w] = "idle" /\ out[w] = "none" /\ UNCHANGED <<pc, out>> /\ client[w].state # "open"
        /\ capture' = [capture EXCEPT ![w] = NoCapture]
        /\ client' = [client EXCEPT ![w] = NoClient]
        /\ request' = [request EXCEPT ![w] = NoBody]
    BY <1>3 DEF Over, vars
  <2>2. /\ capture'[w] = NoCapture /\ client'[w] = NoClient
        /\ client' \in [Workers -> ClientRecords]
        /\ \A v \in Workers \ {w} : capture'[v] = capture[v] /\ client'[v] = client[v]
    BY <1>1, <2>1, FreshShapes, OneStream
  <2>3. \A v \in Workers \ {w} : SameExchange(v)
    BY <1>1, <2>1, <2>2 DEF SameExchange
  <2>4. NoCapture.settled = "none" /\ NoCapture.length = 0 /\ NoClient.stream = "none"
    BY DEF NoCapture, NoClient
  <2>5. ExchangeShape(w)'
    BY <2>1, <2>2, <2>4 DEF ExchangeShape, Captured
  <2>6. ShapeInv'
    BY <1>1, <2>2, <2>3, <2>5, FreshShapes, OneExchange
  <2> QED
    BY <2>1, <2>2, <2>3, <2>4, <2>6
<1> QED
  BY <1>2, <1>3

\* A request is taken up.
LEMMA ReceiveKeepsShape ==
  ASSUME ExchangeInv, NEW w \in Workers, Receive(w)
  PROVE  /\ ShapeInv' /\ request' \in [Workers -> Bodies]
         /\ pc[w] = "idle" /\ pc'[w] # "idle" /\ client[w] = NoClient
         /\ UNCHANGED <<capture, client>>
         /\ \A v \in Workers \ {w} : SameExchange(v)
<1>1. /\ TypeInv /\ TypeOK /\ clock <= MaxTime /\ ShapeInv /\ ExchangeShape(w)
      /\ StreamShape(capture[w], client[w]) /\ request \in [Workers -> Bodies]
  BY DEF ExchangeInv, TypeInv, ShapeInv
<1>2. PICK now \in Readings : \E call \in Calls[now] :
        Request(w, call.key, call.fingerprint) /\ request' = [request EXCEPT ![w] = call.body]
  BY DEF Receive
<1>3. PICK call \in Calls[now] :
        Request(w, call.key, call.fingerprint) /\ request' = [request EXCEPT ![w] = call.body]
  BY <1>2
<1>4. \E q \in HttpRequests : call.body = q.body
  <2>1. now \in (0 - Skew) .. (MaxTime + Skew)
    BY <1>1, SkewAssumption, BoundAssumption DEF Readings, TypeOK
  <2>2. Calls[now] =
          { [key |-> KeyLookup(e[1], e[2]).key, fingerprint |-> requestFingerprint(e[1], e[2]),
             body |-> e[2].body] :
            e \in { e \in Doors \X HttpRequests : Enter(e[1], e[2], now) = "execute" } }
    BY <2>1 DEF Calls
  <2>3. PICK e \in Doors \X HttpRequests :
          call = [key |-> KeyLookup(e[1], e[2]).key, fingerprint |-> requestFingerprint(e[1], e[2]),
                  body |-> e[2].body]
    BY <2>2
  <2> QED
    BY <2>3
<1>5. call.body \in Bodies /\ call.body # NoBody
  BY <1>4, RequestAssumption DEF Bodies
<1>6. UNCHANGED <<capture, client>> /\ request[w] = NoBody
  BY DEF Receive
<1>7. client[w] = NoClient /\ ~Captured(w) /\ pc[w] = "idle" /\ out[w] = "none"
  BY <1>1, <1>6 DEF ExchangeShape
<1>8. pc' = [pc EXCEPT ![w] = "begin"] /\ out' = [out EXCEPT ![w] = "none"]
  BY <1>3 DEF Request
<1>9. pc'[w] = "begin" /\ out'[w] = "none" /\ request'[w] # NoBody /\ request' \in [Workers -> Bodies]
      /\ \A v \in Workers \ {w} : SameExchange(v)
  BY <1>1, <1>3, <1>5, <1>6, <1>8 DEF TypeOK, SameExchange
<1>10. NoClient.stream = "none"
  BY DEF NoClient
<1>11. ExchangeShape(w)'
  BY <1>6, <1>7, <1>9, <1>10 DEF ExchangeShape, Captured
<1>12. ShapeInv'
  BY <1>1, <1>6, <1>9, <1>11, OneExchange DEF ShapeInv
<1> QED
  BY <1>6, <1>7, <1>9, <1>12

\* Every step keeps the invariant.
LEMMA ExchangeStep == ExchangeInv /\ [HttpNext]_httpVars => ExchangeInv'
<1> SUFFICES ASSUME ExchangeInv, [HttpNext]_httpVars PROVE ExchangeInv'
  OBVIOUS
<1>1. TypeInv /\ clock <= MaxTime /\ CopyInv /\ ShapeInv /\ request \in [Workers -> Bodies]
  BY DEF ExchangeInv
<1>2. TypeInv' /\ clock' <= MaxTime /\ CopyInv'
  BY <1>1, HttpKeepsEngine, CopyStep
<1>3. ASSUME NEW w \in Workers, Receive(w) PROVE ShapeInv' /\ request' \in [Workers -> Bodies]
  BY <1>3, ReceiveKeepsShape
<1>4. ASSUME NEW w \in Workers, DoorStep(w) \/ Dies(w)
      PROVE  ShapeInv' /\ request' \in [Workers -> Bodies]
  <2>1. CASE StoreCall(w) \/ HandlerThrows(w) \/ CopyResolved(w) \/ CopyRejected(w)
    <3>1. UNCHANGED request
      BY <2>1 DEF StoreCall, HandlerThrows, CopyResolved, CopyRejected
    <3> QED
      BY <1>1, <2>1, <3>1, ExecuteKeepsShape
  <2>2. CASE HandlerReturns(w)
    <3>1. UNCHANGED request
      BY <2>2 DEF HandlerReturns
    <3> QED
      BY <1>1, <2>2, <3>1, HandlerReturnsKeepsShape
  <2>3. CASE AnswerCaptured(w)
    <3>1. UNCHANGED request
      BY <2>3 DEF AnswerCaptured
    <3> QED
      BY <1>1, <2>3, <3>1, AnswerKeepsShape
  <2>4. CASE AnswerOther(w) \/ Over(w)
    <3>1. request' = [request EXCEPT ![w] = NoBody]
      BY <2>4 DEF AnswerOther, Over
    <3>2. request' \in [Workers -> Bodies]
      BY <1>1, <3>1 DEF Bodies
    <3> QED
      BY <2>4, <3>2, LastKeepsShape
  <2>5. CASE Dies(w)
    <3>1. UNCHANGED request
      BY <2>5 DEF Dies
    <3> QED
      BY <1>1, <2>5, <3>1, DeathKeepsShape
  <2> QED
    BY <1>4, <2>1, <2>2, <2>3, <2>4, <2>5 DEF DoorStep
<1>5. ASSUME NEW w \in Workers, StreamStep(w) \/ ClientStep(w) \/ ClientCancels(w), UNCHANGED request
      PROVE  ShapeInv' /\ request' \in [Workers -> Bodies]
  BY <1>1, <1>5, SourceKeepsShape, ClientKeepsShape DEF StreamStep
<1>6. ASSUME capture' = capture, client' = client, request' = request, pc' = pc, out' = out
      PROVE  ShapeInv' /\ request' \in [Workers -> Bodies]
  <2>1. ASSUME NEW w \in Workers PROVE StreamShape(capture[w], client[w])' /\ ExchangeShape(w)'
    <3>1. StreamShape(capture[w], client[w]) /\ ExchangeShape(w)
      BY <1>1 DEF ShapeInv
    <3>2. StreamShape(capture[w], client[w])'
      BY <1>6, <3>1 DEF StreamShape, Whole
    <3>3. ExchangeShape(w)'
      BY <1>6, <3>1 DEF ExchangeShape, Captured
    <3> QED
      BY <3>2, <3>3
  <2> QED
    BY <1>1, <1>6, <2>1 DEF ShapeInv
<1>7. ASSUME Tick \/ Purge, capture' = capture, client' = client, request' = request
      PROVE  ShapeInv' /\ request' \in [Workers -> Bodies]
  <2>1. pc' = pc /\ out' = out
    BY <1>7 DEF Tick, Purge, RemoveRows, worker
  <2> QED
    BY <1>6, <1>7, <2>1
<1>8. ASSUME UNCHANGED httpVars
      PROVE  ShapeInv' /\ request' \in [Workers -> Bodies]
  <2>1. capture' = capture /\ client' = client /\ request' = request /\ pc' = pc /\ out' = out
    BY <1>8 DEF httpVars, vars
  <2> QED
    BY <1>6, <2>1
<1>9. ShapeInv' /\ request' \in [Workers -> Bodies]
  <2>1. CASE \E w \in Workers : Receive(w) \/ DoorStep(w) \/ Dies(w)
    BY <1>3, <1>4, <2>1
  <2>2. CASE \E w \in Workers :
               (StreamStep(w) \/ ClientStep(w) \/ ClientCancels(w)) /\ UNCHANGED <<request, origin>>
    BY <1>5, <2>2
  <2>3. CASE (Tick \/ Purge) /\ UNCHANGED <<capture, client, request>>
    BY <1>7, <2>3
  <2> QED
    BY <1>8, <2>1, <2>2, <2>3 DEF HttpNext
<1> QED
  BY <1>2, <1>9 DEF ExchangeInv

LEMMA ExchangeInvInit == HttpInit => ExchangeInv
<1> SUFFICES ASSUME HttpInit PROVE ExchangeInv
  OBVIOUS
<1>1. TypeInv /\ clock <= MaxTime
  BY TypeInit, BoundAssumption DEF HttpInit, Init
<1>2. CopyInv
  BY BeginsSound DEF HttpInit, CopyInv
<1>3. request \in [Workers -> Bodies]
  BY DEF HttpInit, Bodies
<1>4. ASSUME NEW w \in Workers PROVE StreamShape(capture[w], client[w]) /\ ExchangeShape(w)
  <2>1. capture[w] = NoCapture /\ client[w] = NoClient /\ pc[w] = "idle" /\ out[w] = "none"
    BY DEF HttpInit, Init
  <2>2. NoCapture.settled = "none" /\ NoClient.stream = "none"
    BY DEF NoCapture, NoClient
  <2> QED
    BY <2>1, <2>2, FreshShapes DEF ExchangeShape, Captured
<1>5. client \in [Workers -> ClientRecords]
  BY FreshShapes DEF HttpInit
<1> QED
  BY <1>1, <1>2, <1>3, <1>4, <1>5 DEF ExchangeInv, ShapeInv

LEMMA ExchangeInvariant == HttpSpec => []ExchangeInv
  BY ExchangeInvInit, ExchangeStep, PTL DEF HttpSpec

\* The state of the door is well typed: chunks are numbered within a body, whoever
\* reads the source.
THEOREM HttpTypeCorrect == HttpSpec => []HttpTypeOK
<1>1. ExchangeInv => HttpTypeOK
  <2> SUFFICES ASSUME ExchangeInv PROVE HttpTypeOK
    OBVIOUS
  <2> DEFINE Chunks == 1 .. MaxChunks
             Typed == [ streaming : BOOLEAN, length : 0 .. MaxChunks, fails : BOOLEAN, at : 0 .. MaxChunks,
                        chunks : Seq(Chunks), reads : Seq({"pull", "drain"}),
                        clientOpen : BOOLEAN, settled : {"none", "no", "resolved", "rejected"} ]
  <2>1. TypeOK /\ CopyInv /\ ShapeInv
    BY DEF ExchangeInv, TypeInv
  <2>2. ASSUME NEW w \in Workers PROVE capture[w] \in Typed
    <3> DEFINE c == capture[w]
    <3>1. c \in CaptureRecords /\ CopyFollows(c) /\ c.length <= MaxChunks
      BY <2>1 DEF CopyInv, ShapeInv, StreamShape
    <3>2. c.length \in 0 .. MaxChunks /\ c.at \in 0 .. MaxChunks /\ c.at \in Nat
      BY <3>1, ChunkAssumption DEF CaptureRecords, CopyFollows
    <3>3. Kept(c.at) \in 0 .. MaxChunks
      BY <3>2, CapNat, ChunkAssumption DEF Kept
    <3>4. \A n \in 0 .. MaxChunks : Whole(n) \in Seq(Chunks)
      BY ChunkAssumption DEF Whole
    <3>5. c.chunks \in Seq(Chunks)
      BY <3>1, <3>3, <3>4 DEF CopyFollows
    <3> QED
      BY <3>1, <3>2, <3>5, Zenon DEF CaptureRecords
  <2>3. capture \in [Workers -> Typed]
    BY <2>1, <2>2 DEF CopyInv
  <2> QED
    BY <2>1, <2>3 DEF HttpTypeOK, ShapeInv, ClientRecords
<1> QED
  BY <1>1, ExchangeInvariant, PTL

-----------------------------------------------------------------------------
(* The promise                                                             *)

\* A step of one worker moves what its own client sees, and nothing else.
LEMMA ViewsMove ==
  ASSUME NEW w \in Workers, \A v \in Workers \ {w} : SameExchange(v)
  PROVE  /\ [v \in Workers |-> client'[v].state]
              = [[v \in Workers |-> client[v].state] EXCEPT ![w] = client'[w].state]
         /\ [v \in Workers |-> capture'[v].length]
              = [[v \in Workers |-> capture[v].length] EXCEPT ![w] = capture'[w].length]
         /\ [v \in Workers |-> client'[v].got]
              = [[v \in Workers |-> client[v].got] EXCEPT ![w] = client'[w].got]
         /\ [v \in Workers |-> pc'[v] = "idle"]
              = [[v \in Workers |-> pc[v] = "idle"] EXCEPT ![w] = (pc'[w] = "idle")]
  BY DEF SameExchange

\* What an interruption, a chunk that arrives and an end are to the client.
LEMMA InterruptedKeeps ==
  ASSUME NEW w \in Workers, Interrupted(w)
  PROVE  [Promise!ExchangeNext]_(Promise!exchange)
<1>1. CASE client'[w].state = client[w].state
  BY <1>1, ViewsMove DEF Interrupted, Promise!exchange
<1>2. CASE client[w].state = "open" /\ client'[w].state \in {"broken", "left"}
  <2>1. Promise!Interrupt(w)
    BY <1>2, ViewsMove DEF Interrupted, Promise!Interrupt
  <2> QED
    BY <2>1 DEF Promise!ExchangeNext
<1> QED
  BY <1>1, <1>2 DEF Interrupted

LEMMA ArrivedKeeps ==
  ASSUME NEW w \in Workers, Arrived(w)
  PROVE  Promise!ExchangeNext
<1> DEFINE Got == [v \in Workers |-> client[v].got]
<1>1. [v \in Workers |-> client'[v].got] = [Got EXCEPT ![w] = Append(Got[w], Len(Got[w]) + 1)]
  BY ViewsMove DEF Arrived
<1>2. /\ [v \in Workers |-> client'[v].state] = [v \in Workers |-> client[v].state]
      /\ [v \in Workers |-> capture'[v].length] = [v \in Workers |-> capture[v].length]
      /\ [v \in Workers |-> pc'[v] = "idle"] = [v \in Workers |-> pc[v] = "idle"]
  <2>1. \A v \in Workers : client'[v].state = client[v].state /\ capture'[v].length = capture[v].length
                           /\ pc'[v] = pc[v]
    BY DEF Arrived, SameExchange
  <2> QED
    BY <2>1
<1>3. [v \in Workers |-> client[v].state][w] = "open"
      /\ Len(Got[w]) < [v \in Workers |-> capture[v].length][w]
  BY DEF Arrived
<1>4. Promise!Arrive(w)
  BY <1>1, <1>2, <1>3, Zenon DEF Promise!Arrive
<1> QED
  BY <1>4 DEF Promise!ExchangeNext

LEMMA EndedKeeps ==
  ASSUME NEW w \in Workers, Ended(w)
  PROVE  Promise!ExchangeNext
<1>1. Promise!End(w)
  BY ViewsMove DEF Ended, Promise!End
<1> QED
  BY <1>1 DEF Promise!ExchangeNext

\* A step of execute that leaves the answer alone, and the attempt open or over.
LEMMA AttemptKeeps ==
  ASSUME NEW w \in Workers, UNCHANGED <<capture, client>>, pc[w] # "idle",
         \A v \in Workers \ {w} : pc'[v] = pc[v]
  PROVE  [Promise!ExchangeNext]_(Promise!exchange)
<1>1. CASE pc'[w] = "idle"
  <2>1. [v \in Workers |-> pc'[v] = "idle"]
          = [[v \in Workers |-> pc[v] = "idle"] EXCEPT ![w] = TRUE]
    BY <1>1
  <2>2. Promise!Settle(w)
    BY <2>1 DEF Promise!Settle
  <2> QED
    BY <2>2 DEF Promise!ExchangeNext
<1>2. CASE pc'[w] # "idle"
  <2>1. [v \in Workers |-> pc'[v] = "idle"] = [v \in Workers |-> pc[v] = "idle"]
    BY <1>2
  <2> QED
    BY <2>1 DEF Promise!exchange
<1> QED
  BY <1>1, <1>2

LEMMA ExecuteFrame ==
  ASSUME TypeInv, NEW w \in Workers,
         StoreCall(w) \/ HandlerThrows(w) \/ CopyResolved(w) \/ CopyRejected(w)
  PROVE  UNCHANGED <<capture, client>> /\ pc[w] # "idle" /\ \A v \in Workers \ {w} : pc'[v] = pc[v]
<1>1. UNCHANGED <<capture, client>>
  BY DEF StoreCall, HandlerThrows, CopyResolved, CopyRejected
<1>2. \/ BeginAcquired(w) \/ BeginRefused(w) \/ BeginError(w)
      \/ Complete(w) \/ CompleteError(w) \/ Abandon(w) \/ AbandonError(w)
      \/ RunStored(w) \/ RunFailed(w) \/ RunUnclaimed(w) \/ StoreResultThrows(w)
  BY DEF StoreCall, HandlerThrows, CopyResolved, CopyRejected, WorkerStep
<1>3. TypeOK
  BY DEF TypeInv
<1>4. CASE \/ BeginAcquired(w) \/ (BeginError(w) /\ FailOpen) \/ RunStored(w) \/ RunFailed(w)
  <2>1. pc[w] # "idle" /\ \E p \in {"run", "complete", "abandon"} : pc' = [pc EXCEPT ![w] = p]
    BY <1>4, ExecuteMoves
  <2> QED
    BY <1>1, <1>3, <2>1 DEF TypeOK
<1>5. CASE \/ BeginRefused(w) \/ (BeginError(w) /\ ~FailOpen) \/ Complete(w) \/ CompleteError(w)
           \/ Abandon(w) \/ AbandonError(w) \/ RunUnclaimed(w) \/ StoreResultThrows(w)
  <2>1. pc[w] # "idle" /\ \E answer \in Answers \cup {out[w], "unstored", "stored", "threw"} : Return(w, answer)
    BY <1>5, ExecuteMoves
  <2> QED
    BY <1>1, <1>3, <2>1, ReturnFrame
<1> QED
  BY <1>2, <1>4, <1>5

\* Every step of the door is one that the promise allows, or one its clients do not
\* see.
LEMMA PromiseStep ==
  ExchangeInv /\ [HttpNext]_httpVars => [Promise!ExchangeNext]_(Promise!exchange)
<1> SUFFICES ASSUME ExchangeInv, [HttpNext]_httpVars
             PROVE  [Promise!ExchangeNext]_(Promise!exchange)
  OBVIOUS
<1>1. TypeInv /\ CopyInv /\ ShapeInv
  BY DEF ExchangeInv
<1>2. ASSUME NEW w \in Workers, Receive(w) PROVE Promise!ExchangeNext
  <2>1. /\ pc[w] = "idle" /\ pc'[w] # "idle" /\ client[w].state = "none"
        /\ capture' = capture /\ client' = client /\ \A v \in Workers \ {w} : SameExchange(v)
    BY <1>2, ReceiveKeepsShape DEF NoClient
  <2>2. [v \in Workers |-> pc'[v] = "idle"] = [[v \in Workers |-> pc[v] = "idle"] EXCEPT ![w] = FALSE]
    BY <2>1 DEF SameExchange
  <2>3. Promise!Begin(w)
    BY <2>1, <2>2 DEF Promise!Begin
  <2> QED
    BY <2>3 DEF Promise!ExchangeNext
<1>3. ASSUME NEW w \in Workers, HandlerReturns(w) PROVE Promise!ExchangeNext
  <2>1. /\ client[w].state = "none" /\ client[w].got = <<>> /\ client'[w].state = "open"
        /\ client'[w].got = <<>> /\ capture'[w].length \in 0 .. MaxChunks
        /\ \A v \in Workers \ {w} : SameExchange(v)
    BY <1>1, <1>3, HandlerReturnsKeepsShape DEF NoClient
  <2>2. pc[w] # "idle" /\ pc' = pc
    BY <1>3 DEF HandlerReturns, vars
  <2>3. /\ [v \in Workers |-> client'[v].got] = [v \in Workers |-> client[v].got]
        /\ [v \in Workers |-> pc'[v] = "idle"] = [v \in Workers |-> pc[v] = "idle"]
    BY <2>1, <2>2 DEF SameExchange
  <2>4. Promise!Open(w)
    BY <2>1, <2>2, <2>3, ViewsMove DEF Promise!Open
  <2> QED
    BY <2>4 DEF Promise!ExchangeNext
<1>4. ASSUME NEW w \in Workers, Dies(w) PROVE Promise!ExchangeNext
  <2> DEFINE State == [v \in Workers |-> client[v].state]
  <2>1. /\ pc[w] # "idle" /\ pc'[w] = "idle" /\ capture'[w].length = capture[w].length
        /\ client'[w].got = client[w].got /\ \A v \in Workers \ {w} : SameExchange(v)
        /\ client'[w].state = IF client[w].state = "open" THEN "broken" ELSE client[w].state
    BY <1>1, <1>4, DeathKeepsShape
  <2>2. /\ [v \in Workers |-> client'[v].got] = [v \in Workers |-> client[v].got]
        /\ [v \in Workers |-> capture'[v].length] = [v \in Workers |-> capture[v].length]
    BY <2>1 DEF SameExchange
  <2>3. [v \in Workers |-> pc'[v] = "idle"] = [[v \in Workers |-> pc[v] = "idle"] EXCEPT ![w] = TRUE]
    BY <2>1 DEF SameExchange
  <2>4. [v \in Workers |-> client'[v].state]
          = [State EXCEPT ![w] = IF State[w] = "open" THEN "broken" ELSE State[w]]
    BY <2>1, ViewsMove
  <2>5. ~[v \in Workers |-> pc[v] = "idle"][w]
    BY <2>1
  <2>6. Promise!Die(w)
    BY <2>2, <2>3, <2>4, <2>5, Zenon DEF Promise!Die
  <2> QED
    BY <2>6 DEF Promise!ExchangeNext
<1>5. ASSUME NEW w \in Workers, AnswerOther(w) \/ Over(w)
      PROVE  [Promise!ExchangeNext]_(Promise!exchange)
  <2>1. /\ pc' = pc /\ pc[w] = "idle" /\ \A v \in Workers \ {w} : SameExchange(v)
        /\ \/ capture' = capture /\ client' = client
           \/ client[w].state # "open" /\ client'[w] = NoClient /\ capture'[w].length = 0
    BY <1>5, LastKeepsShape
  <2>2. CASE capture' = capture /\ client' = client
    BY <2>1, <2>2 DEF Promise!exchange
  <2>3. CASE client[w].state # "open" /\ client'[w] = NoClient /\ capture'[w].length = 0
    <3>1. client'[w].state = "none" /\ client'[w].got = <<>>
      BY <2>3 DEF NoClient
    <3>2. Promise!Forget(w)
      BY <2>1, <2>3, <3>1, ViewsMove DEF Promise!Forget
    <3> QED
      BY <3>2 DEF Promise!ExchangeNext
  <2> QED
    BY <2>1, <2>2, <2>3
<1>6. ASSUME NEW w \in Workers, DoorStep(w) PROVE [Promise!ExchangeNext]_(Promise!exchange)
  <2>1. CASE StoreCall(w) \/ HandlerThrows(w) \/ CopyResolved(w) \/ CopyRejected(w)
    BY <1>1, <2>1, ExecuteFrame, AttemptKeeps
  <2>2. CASE AnswerCaptured(w)
    BY <1>1, <2>2, AnswerKeepsShape, InterruptedKeeps, EndedKeeps
  <2> QED
    BY <1>3, <1>5, <1>6, <2>1, <2>2 DEF DoorStep
<1>7. ASSUME NEW w \in Workers, StreamStep(w) \/ ClientStep(w) \/ ClientCancels(w), request' = request
      PROVE  [Promise!ExchangeNext]_(Promise!exchange)
  <2>1. Interrupted(w) \/ Arrived(w) \/ Ended(w)
    BY <1>1, <1>7, SourceKeepsShape, ClientKeepsShape DEF StreamStep
  <2> QED
    BY <2>1, InterruptedKeeps, ArrivedKeeps, EndedKeeps
<1>8. ASSUME capture' = capture, client' = client, pc' = pc PROVE UNCHANGED Promise!exchange
  BY <1>8 DEF Promise!exchange
<1>9. ASSUME Tick \/ Purge, capture' = capture, client' = client PROVE UNCHANGED Promise!exchange
  <2>1. pc' = pc
    BY <1>9 DEF Tick, Purge, RemoveRows, worker
  <2> QED
    BY <1>8, <1>9, <2>1
<1>10. ASSUME UNCHANGED httpVars PROVE UNCHANGED Promise!exchange
  <2>1. capture' = capture /\ client' = client /\ pc' = pc
    BY <1>10 DEF httpVars, vars
  <2> QED
    BY <1>8, <2>1
<1>11. CASE \E w \in Workers : Receive(w) \/ DoorStep(w) \/ Dies(w)
  BY <1>2, <1>4, <1>6, <1>11
<1>12. CASE \E w \in Workers :
              (StreamStep(w) \/ ClientStep(w) \/ ClientCancels(w)) /\ UNCHANGED <<request, origin>>
  BY <1>7, <1>12
<1>13. CASE (Tick \/ Purge) /\ UNCHANGED <<capture, client, request>>
  BY <1>9, <1>13
<1> QED
  BY <1>10, <1>11, <1>12, <1>13 DEF HttpNext

\* The door keeps the promise to its clients (REQ-HTTP-7), for every number of
\* workers, length of a body, cap and fault: runIdempotent's early response, the
\* copy behind it and the client in front of it implement Exchange.
THEOREM PromiseKept == HttpSpec => KeepsPromise
<1>1. HttpInit => Promise!ExchangeInit
  <2> SUFFICES ASSUME HttpInit PROVE Promise!ExchangeInit
    OBVIOUS
  <2>1. ASSUME NEW w \in Workers
        PROVE  /\ client[w].state = "none" /\ client[w].got = <<>> /\ capture[w].length = 0
               /\ pc[w] = "idle"
    BY DEF HttpInit, Init, NoClient, NoCapture
  <2> QED
    BY <2>1 DEF Promise!ExchangeInit
<1> QED
  BY <1>1, PromiseStep, ExchangeInvariant, PTL DEF HttpSpec, KeepsPromise, Promise!ExchangeSpec

-----------------------------------------------------------------------------
(* The gate of a webhook                                                   *)

\* Of checks the last of which is always met, First takes one that is met, and none
\* before it is.
LEMMA FirstMet ==
  ASSUME NEW n \in Nat \ {0}, NEW checks, DOMAIN checks = 1 .. n, checks[n][1] = TRUE
  PROVE  \E i \in 1 .. n :
           checks[i][1] /\ First(checks) = checks[i][2] /\ \A j \in 1 .. n : j < i => ~checks[j][1]
<1> DEFINE holds == { i \in DOMAIN checks : checks[i][1] }
           IsFirst(i) == \A j \in holds : i <= j
<1>1. holds \in SUBSET Nat /\ n \in holds
  OBVIOUS
<1>2. \E i \in holds : IsFirst(i)
  <2> HIDE DEF holds
  <2> QED
    BY <1>1, LeastNat
<1> DEFINE first == CHOOSE i \in holds : IsFirst(i)
<1>3. first \in holds /\ IsFirst(first)
  BY <1>2
<1>4. First(checks) = checks[first][2]
  BY DEF First
<1> HIDE DEF first
<1> QED
  BY <1>3, <1>4

\* What the receiver lets through has passed every check before the last.
LEMMA ReceiverAdmits ==
  ASSUME NEW door, NEW q, NEW now, q.listed, webhookReceiver(door, q, now) \notin Problems
  PROVE  door.verify # "none" /\ Verified(door, q, now)
<1> DEFINE checks == << << door.verify = "none", "configuration-error" >>,
                        << ~q.listed, "pass" >>,
                        << ~readBody(q), "payload-too-large" >>,
                        << door.verify = "verify" /\ q.throws, "configuration-error" >>,
                        << ~Verified(door, q, now), "signature-invalid" >>,
                        << TRUE, runIdempotent(door, q) >> >>
<1>1. webhookReceiver(door, q, now) = First(checks)
  BY DEF webhookReceiver
<1>2. DOMAIN checks = 1 .. 6 /\ checks[6][1] = TRUE
  OBVIOUS
<1>3. PICK i \in 1 .. 6 :
        checks[i][1] /\ First(checks) = checks[i][2] /\ \A j \in 1 .. 6 : j < i => ~checks[j][1]
  <2> HIDE DEF checks
  <2>1. 6 \in Nat \ {0}
    OBVIOUS
  <2> QED
    BY <1>2, <2>1, FirstMet, Zenon
<1>4. /\ checks[1][2] = "configuration-error" /\ checks[3][2] = "payload-too-large"
      /\ checks[4][2] = "configuration-error" /\ checks[5][2] = "signature-invalid"
  OBVIOUS
<1>5. ~checks[2][1]
  OBVIOUS
<1>6. checks[1][1] \/ door.verify # "none"
  OBVIOUS
<1>7. checks[5][1] \/ Verified(door, q, now)
  OBVIOUS
<1> HIDE DEF checks
<1>8. i = 6
  BY <1>1, <1>3, <1>4, <1>5 DEF Problems
<1>9. ~checks[1][1] /\ ~checks[5][1]
  BY <1>3, <1>8
<1> QED
  BY <1>6, <1>7, <1>9

LEMMA GateIsSound ==
  ASSUME NEW now \in Int
  PROVE  AdmitsOnlyAuthentic(now)
<1> SUFFICES ASSUME NEW door \in Doors, NEW q \in HttpRequests, door.kind = "webhook", q.listed,
                    Enter(door, q, now) \notin Problems
             PROVE  \/ /\ door.verify = "verify"
                       /\ \E s \in q.signatures :
                            /\ s.secret \in Secrets /\ s.id = headersGet(q) /\ s.body = q.body
                            /\ s.at = q.at /\ now \in (s.at - Tolerance) .. (s.at + Tolerance)
                    \/ door.verify = "marker" /\ q.marked
  BY DEF AdmitsOnlyAuthentic
<1>1. door.verify # "none" /\ Verified(door, q, now)
  BY ReceiverAdmits DEF Enter
<1>2. door.verify \in {"none", "verify", "marker"}
  BY DoorAssumption DEF ResolvedHttpOptions
<1>3. CASE door.verify = "marker"
  BY <1>1, <1>3 DEF Verified, isVerified
<1>4. CASE door.verify = "verify"
  <2>1. standardWebhooksVerify(q, now)
    BY <1>1, <1>4 DEF Verified
  <2>2. PICK secret \in Secrets :
          [secret |-> secret, id |-> headersGet(q), at |-> q.at, body |-> q.body] \in q.signatures
    BY <2>1 DEF standardWebhooksVerify
  <2>3. q.at \in Int /\ now - q.at <= Tolerance /\ q.at - now <= Tolerance
    BY <2>1, RequestAssumption DEF standardWebhooksVerify
  <2>4. now \in (q.at - Tolerance) .. (q.at + Tolerance)
    BY <2>3, HttpBoundAssumption
  <2> QED
    BY <1>4, <2>2, <2>4
<1> QED
  BY <1>1, <1>2, <1>3, <1>4

\* No way leads around the gate of webhookReceiver, whatever its options, its
\* secrets and its tolerance are: GateHolds.
THEOREM GateSound == HttpSpec => []GateHolds
<1>1. ExchangeInv => GateHolds
  BY GateIsSound DEF ExchangeInv, TypeInv, TypeOK, GateHolds, AuthenticTimes
<1> QED
  BY <1>1, ExchangeInvariant, PTL

-----------------------------------------------------------------------------
(* The advice of a conflict                                                *)

\* Rounding up to whole seconds.
LEMMA RoundsUp ==
  ASSUME NEW s \in Nat \ {0}, NEW d \in Nat
  PROVE  LET k == (d + s - 1) \div s IN k \in Int /\ s * k >= d /\ s * k < d + s
<1> DEFINE k == (d + s - 1) \div s
<1>1. k \in Int
  OBVIOUS
<1>2. s * k <= d + s - 1 /\ d + s - 1 < s * k + s
  OBVIOUS
<1> QED
  BY <1>1, <1>2

LEMMA RetryEnough ==
  ASSUME NEW lease \in Nat, NEW now \in Nat
  PROVE  LET back == now + Second * retryAfterSeconds(lease, now) IN
         back >= lease /\ (now <= lease => back < lease + 2 * Second)
<1>1. CASE lease <= now
  BY <1>1, AnswerAssumption DEF retryAfterSeconds
<1>2. CASE lease > now
  <2> DEFINE k == (lease - now + Second - 1) \div Second
  <2>1. lease - now \in Nat /\ Second \in Nat \ {0}
    BY <1>2, AnswerAssumption
  <2>2. k \in Int /\ Second * k >= lease - now /\ Second * k < lease - now + Second
    BY <2>1, RoundsUp
  <2>3. retryAfterSeconds(lease, now) = k
    BY <1>2 DEF retryAfterSeconds
  <2> HIDE DEF k
  <2>4. Second * k \in Int
    BY <2>1, <2>2
  <2> DEFINE m == Second * k
  <2> HIDE DEF m
  <2>5. now + m >= lease /\ now + m < lease + 2 * Second
    BY <2>1, <2>2, <2>4 DEF m
  <2> QED
    BY <2>3, <2>5 DEF m
<1> QED
  BY <1>1, <1>2

LEMMA AdviceSound == AdvisesRetry
<1> SUFFICES ASSUME NEW lease \in 0 .. MaxLease, NEW now \in 0 .. MaxLease,
                    NEW rendered \in Renderings(409)
             PROVE  LET own == IF rendered = {} THEN <<>> ELSE (CHOOSE r \in rendered : TRUE).headers
                        res == failWith("conflict", ProtocolHeaders("conflict", lease, now), rendered)
                    IN  /\ res.status = 409
                        /\ "cache_control" \notin DOMAIN own => res.headers.cache_control = "no-store"
                        /\ "retry_after" \notin DOMAIN own =>
                             LET back == now + Second * res.headers.retry_after IN
                             back >= lease /\ (now <= lease => back < lease + 2 * Second)
  BY DEF AdvisesRetry
<1> DEFINE retry == retryAfterSeconds(lease, now)
           back == now + Second * retry
           advice == [retry_after |-> retry]
           res == failWith("conflict", ProtocolHeaders("conflict", lease, now), rendered)
<1>1. back >= lease /\ (now <= lease => back < lease + 2 * Second)
  BY RetryEnough, AnswerAssumption
<1>2. ProtocolHeaders("conflict", lease, now) = advice
  BY DEF ProtocolHeaders
<1>3. advice["retry_after"] = retry /\ "retry_after" \in DOMAIN advice /\ "cache_control" \notin DOMAIN advice
  OBVIOUS
<1> HIDE DEF retry, advice
<1>4. CASE rendered = {}
  <2> DEFINE defaults == [content_type |-> "problem", cache_control |-> "no-store"]
  <2>1. res = [ status |-> PROBLEM_STATUS["conflict"], bodyUsed |-> FALSE, copyable |-> TRUE,
                headers |-> Merged(advice, defaults) ]
    BY <1>2, <1>4 DEF failWith, problemResponse
  <2>2. PROBLEM_STATUS["conflict"] = 409
    BY DEF PROBLEM_STATUS, Problems
  <2>3. defaults["cache_control"] = "no-store" /\ "cache_control" \in DOMAIN defaults
    OBVIOUS
  <2> HIDE DEF defaults
  <2>4. Merged(advice, defaults)["cache_control"] = "no-store" /\ Merged(advice, defaults)["retry_after"] = retry
    BY <1>3, <2>3 DEF Merged
  <2> HIDE DEF res
  <2>5. res.status = 409 /\ res.headers.cache_control = "no-store" /\ res.headers.retry_after = retry
    BY <2>1, <2>2, <2>4
  <2> QED
    BY <1>1, <2>5 DEF res
<1>5. ASSUME NEW headers \in {<<>>, [cache_control |-> "max-age"], [retry_after |-> 0]},
             rendered = {[status |-> 409, headers |-> headers, bodyUsed |-> FALSE, copyable |-> TRUE]}
      PROVE  LET own == IF rendered = {} THEN <<>> ELSE (CHOOSE r \in rendered : TRUE).headers
             IN  /\ res.status = 409
                 /\ "cache_control" \notin DOMAIN own => res.headers.cache_control = "no-store"
                 /\ "retry_after" \notin DOMAIN own => res.headers.retry_after = retry
  <2> DEFINE r == [status |-> 409, headers |-> headers, bodyUsed |-> FALSE, copyable |-> TRUE]
             noStore == [cache_control |-> "no-store"]
             ours == Merged(advice, noStore)
  <2>1. rendered # {} /\ (CHOOSE x \in rendered : TRUE) = r
    BY <1>5
  <2>2. res = [r EXCEPT !.headers = Merged(r.headers, ours)]
    <3>1. res = withProtocolHeaders(r, ours)
      BY <1>2, <2>1, Zenon DEF failWith
    <3>2. ~r.bodyUsed /\ r.copyable
      OBVIOUS
    <3> QED
      BY <3>1, <3>2, Zenon DEF withProtocolHeaders
  <2>3. noStore["cache_control"] = "no-store" /\ "cache_control" \in DOMAIN noStore
    OBVIOUS
  <2>4. r.headers = headers /\ res.status = 409 /\ res.headers = Merged(headers, ours)
    BY <2>2
  <2> HIDE DEF noStore, res, r
  <2>5. /\ ours["cache_control"] = "no-store" /\ ours["retry_after"] = retry
        /\ "cache_control" \in DOMAIN ours /\ "retry_after" \in DOMAIN ours
    BY <1>3, <2>3 DEF Merged
  <2> HIDE DEF ours
  <2>6. /\ "cache_control" \notin DOMAIN headers => res.headers.cache_control = "no-store"
        /\ "retry_after" \notin DOMAIN headers => res.headers.retry_after = retry
    BY <2>4, <2>5 DEF Merged
  <2> QED
    BY <2>1, <2>4, <2>6
<1> QED
  BY <1>1, <1>4, <1>5 DEF Renderings

\* Whoever is answered with a conflict comes back after the lease it met, for every
\* length of a second and every lease: RetryOutlivesLease.
THEOREM AdviceHolds == HttpSpec => []RetryOutlivesLease
<1>1. RetryOutlivesLease
  BY AdviceSound DEF RetryOutlivesLease
<1> QED
  BY <1>1, PTL

-----------------------------------------------------------------------------
(* What a replay answers                                                   *)

\* The fingerprints that there are, each with a body it is made of.
Digests == { <<requestFingerprint(e[1], e[2]), e[2].body>> : e \in Doors \X HttpRequests }

Prefixed(b) == <<"method", "path">> \o b

\* Method and path hide nothing of what follows them.
LEMMA PrefixedTells ==
  ASSUME NEW a \in Seq(Nat), NEW b \in Seq(Nat), Prefixed(a) = Prefixed(b)
  PROVE  a = b
<1> DEFINE S == Nat \cup {"method", "path"}
           p == <<"method", "path">>
<1>1. a \in Seq(S) /\ b \in Seq(S) /\ p \in Seq(S)
  OBVIOUS
<1> HIDE DEF S, p
<1>2. p \o a = p \o b
  BY DEF Prefixed, p
<1> QED
  BY <1>1, <1>2, ConcatSimplifications, Zenon

\* What is hashed.
LEMMA FingerprintForm ==
  ASSUME NEW door, NEW q
  PROVE  \E x \in {q.body, Prefixed(q.body), Prefixed(canonicalize(q.body))} :
           requestFingerprint(door, q) = sha256Hex(x)
  BY DEF requestFingerprint, httpFingerprint, Prefixed

LEMMA DigestTells ==
  ASSUME NEW x, NEW y, sha256Hex(x) = sha256Hex(y)
  PROVE  x = y
<1>1. sha256Hex(x).sha256 = x /\ sha256Hex(y).sha256 = y
  BY DEF sha256Hex
<1> QED
  BY <1>1

\* Bodies with the same fingerprint, at whichever doors, are the same JSON value.
LEMMA FingerprintsTell ==
  ASSUME NEW f, NEW a, NEW b, <<f, a>> \in Digests, <<f, b>> \in Digests
  PROVE  canonicalize(a) = canonicalize(b)
<1>1. PICK d \in Doors, q \in HttpRequests : f = requestFingerprint(d, q) /\ a = q.body
  BY DEF Digests
<1>2. PICK e \in Doors, r \in HttpRequests : f = requestFingerprint(e, r) /\ b = r.body
  BY DEF Digests
<1>3. /\ \A c \in {a, b} : {c, canonicalize(c)} \subseteq Seq(Nat) /\ canonicalize(canonicalize(c)) = canonicalize(c)
      /\ a \notin {Prefixed(b), Prefixed(canonicalize(b))}
      /\ b \notin {Prefixed(a), Prefixed(canonicalize(a))}
  <2> DEFINE bodies == { c.body : c \in HttpRequests }
  <2>1. a \in bodies /\ b \in bodies
    BY <1>1, <1>2
  <2>2. \A s, t \in bodies :
          /\ {s, canonicalize(s)} \subseteq Seq(Nat) /\ canonicalize(canonicalize(s)) = canonicalize(s)
          /\ s \notin {Prefixed(t), Prefixed(canonicalize(t))}
    BY BodyAssumption, Zenon DEF Prefixed
  <2> HIDE DEF bodies
  <2> QED
    BY <2>1, <2>2
<1>4. PICK x \in {a, Prefixed(a), Prefixed(canonicalize(a))} : f = sha256Hex(x)
  BY <1>1, FingerprintForm
<1>5. PICK y \in {b, Prefixed(b), Prefixed(canonicalize(b))} : f = sha256Hex(y)
  BY <1>2, FingerprintForm
<1>6. x = y
  BY <1>4, <1>5, DigestTells
<1>7. ASSUME NEW s \in {a, canonicalize(a)}, NEW t \in {b, canonicalize(b)}, Prefixed(s) = Prefixed(t)
      PROVE  canonicalize(a) = canonicalize(b)
  <2>1. s = t
    BY <1>3, <1>7, PrefixedTells
  <2> QED
    BY <1>3, <2>1
<1> QED
  BY <1>3, <1>4, <1>5, <1>6, <1>7

\* An attempt is made under a fingerprint of its request, and a result kept under one
\* of the request that it was made for.
OriginInv ==
    /\ \A w \in Workers :
         /\ pc[w] # "idle" => <<op[w].fingerprint, request[w]>> \in Digests
         /\ pc[w] = "begin" => out[w] = "none"
    /\ \A k \in Keys :
         records[k].state = "completed" => <<records[k].fingerprint, origin[k]>> \in Digests

\* It is about attempts and rows that are still there.
LEMMA OriginFrame ==
  ASSUME OriginInv,
         \A v \in Workers : pc'[v] # "idle" =>
             /\ pc[v] # "idle" /\ op'[v].fingerprint = op[v].fingerprint /\ request'[v] = request[v],
         \A v \in Workers : pc'[v] = "begin" => pc[v] = "begin" /\ out'[v] = out[v],
         \A k \in Keys : records'[k].state = "completed" =>
             records'[k] = records[k] /\ origin'[k] = origin[k]
  PROVE  OriginInv'
  BY DEF OriginInv

\* A step of execute goes on with the attempt, or ends it.
LEMMA AttemptFrame ==
  ASSUME TypeInv, NEW w \in Workers,
         \/ StoreCall(w) \/ HandlerThrows(w) \/ CopyResolved(w) \/ CopyRejected(w) \/ Dies(w)
  PROVE  /\ pc[w] # "idle" /\ UNCHANGED request
         /\ \A v \in Workers : pc'[v] # "idle" =>
              pc[v] # "idle" /\ op'[v] = op[v]
         /\ \A v \in Workers : pc'[v] = "begin" => pc[v] = "begin" /\ out'[v] = out[v]
<1>1. UNCHANGED request
  BY DEF StoreCall, HandlerThrows, CopyResolved, CopyRejected, Dies
<1>2. \/ BeginAcquired(w) \/ BeginRefused(w) \/ BeginError(w)
      \/ Complete(w) \/ CompleteError(w) \/ Abandon(w) \/ AbandonError(w)
      \/ RunStored(w) \/ RunFailed(w) \/ RunUnclaimed(w) \/ StoreResultThrows(w) \/ Crash(w)
  BY DEF StoreCall, HandlerThrows, CopyResolved, CopyRejected, Dies, WorkerStep
<1>3. TypeOK
  BY DEF TypeInv
<1>4. CASE \/ BeginAcquired(w) \/ (BeginError(w) /\ FailOpen) \/ RunStored(w) \/ RunFailed(w)
  <2>1. pc[w] # "idle" /\ \E p \in {"run", "complete", "abandon"} : pc' = [pc EXCEPT ![w] = p]
    BY <1>4, ExecuteMoves
  <2>2. op' = op /\ \A v \in Workers \ {w} : out'[v] = out[v]
    BY <1>3, <1>4 DEF BeginAcquired, BeginError, RunStored, RunFailed, TypeOK
  <2> QED
    BY <1>1, <1>3, <2>1, <2>2 DEF TypeOK
<1>5. CASE \/ BeginRefused(w) \/ (BeginError(w) /\ ~FailOpen) \/ Complete(w) \/ CompleteError(w)
           \/ Abandon(w) \/ AbandonError(w) \/ RunUnclaimed(w) \/ StoreResultThrows(w) \/ Crash(w)
  <2>1. pc[w] # "idle" /\ \E answer \in Answers \cup {out[w], "none", "unstored", "stored", "threw"} : Return(w, answer)
    BY <1>5, ExecuteMoves
  <2> QED
    BY <1>1, <1>3, <2>1, ReturnFrame
<1> QED
  BY <1>2, <1>4, <1>5

\* Whoever completes a row leaves the body that it was made for with it.
LEMMA StoreCallKeepsOrigin ==
  ASSUME LeaseInv, OriginInv, NEW w \in Workers, StoreCall(w)
  PROVE  OriginInv'
<1>1. TypeInv
  BY DEF LeaseInv
<1>2. /\ request' = request
      /\ \A v \in Workers : pc'[v] # "idle" =>
           pc[v] # "idle" /\ op'[v] = op[v]
      /\ \A v \in Workers : pc'[v] = "begin" => pc[v] = "begin" /\ out'[v] = out[v]
  BY <1>1, AttemptFrame
<1>3. ASSUME NEW k \in Keys, records'[k].state = "completed"
      PROVE  <<records'[k].fingerprint, origin'[k]>> \in Digests
  <2>1. origin'[k] = IF records'[k] # records[k] THEN request[w] ELSE origin[k]
    BY <1>3 DEF StoreCall
  <2>2. CASE records'[k] # records[k]
    <3>1. WorkerStep(w) \/ Fault(w)
      BY DEF StoreCall, Fault
    <3>2. pc[w] = "complete" /\ records'[k].fingerprint = op[w].fingerprint
      BY <1>3, <2>2, <3>1, CompletedBy
    <3> QED
      BY <2>1, <2>2, <3>2 DEF OriginInv
  <2>3. CASE records'[k] = records[k]
    BY <1>3, <2>1, <2>3 DEF OriginInv
  <2> QED
    BY <2>2, <2>3
<1> QED
  BY <1>2, <1>3 DEF OriginInv

\* A request is taken up under a fingerprint of its body.
LEMMA ReceiveKeepsOrigin ==
  ASSUME ExchangeInv, OriginInv, NEW w \in Workers, Receive(w)
  PROVE  OriginInv'
<1>1. PICK now \in Readings : \E call \in Calls[now] :
        Request(w, call.key, call.fingerprint) /\ request' = [request EXCEPT ![w] = call.body]
  BY DEF Receive
<1>2. PICK call \in Calls[now] :
        Request(w, call.key, call.fingerprint) /\ request' = [request EXCEPT ![w] = call.body]
  BY <1>1
<1>3. <<call.fingerprint, call.body>> \in Digests
  <2>1. now \in (0 - Skew) .. (MaxTime + Skew)
    BY SkewAssumption, BoundAssumption DEF ExchangeInv, Readings, TypeInv, TypeOK
  <2>2. PICK e \in Doors \X HttpRequests :
          call = [ key |-> KeyLookup(e[1], e[2]).key, fingerprint |-> requestFingerprint(e[1], e[2]),
                   body |-> e[2].body ]
    BY <2>1 DEF Calls
  <2>3. call.fingerprint = requestFingerprint(e[1], e[2]) /\ call.body = e[2].body
    BY <2>2
  <2> QED
    BY <2>3 DEF Digests
<1>4. /\ op'[w].fingerprint = call.fingerprint /\ request'[w] = call.body /\ out'[w] = "none"
      /\ \A v \in Workers \ {w} :
           op'[v] = op[v] /\ request'[v] = request[v] /\ out'[v] = out[v] /\ pc'[v] = pc[v]
  BY <1>2 DEF Request, ExchangeInv, TypeInv, TypeOK
<1>5. records' = records /\ origin' = origin
  BY <1>2 DEF Receive, Request
<1> QED
  BY <1>3, <1>4, <1>5 DEF OriginInv

LEMMA OriginStep ==
  ASSUME LeaseInv, ExchangeInv, OriginInv, [HttpNext]_httpVars
  PROVE  OriginInv'
<1>1. TypeInv /\ TypeOK
  BY DEF LeaseInv, TypeInv
<1>2. ASSUME NEW w \in Workers, HandlerThrows(w) \/ CopyResolved(w) \/ CopyRejected(w) \/ Dies(w)
      PROVE  OriginInv'
  <2>1. records' = records /\ origin' = origin
    BY <1>2 DEF HandlerThrows, CopyResolved, CopyRejected, Dies, RunFailed, RunUnclaimed, RunStored,
                StoreResultThrows, Crash
  <2> QED
    BY <1>1, <1>2, <2>1, AttemptFrame, OriginFrame
<1>3. ASSUME NEW w \in Workers, AnswerCaptured(w) \/ AnswerOther(w) \/ Over(w) PROVE OriginInv'
  <2>1. pc' = pc /\ op' = op /\ records' = records /\ origin' = origin /\ pc[w] = "idle"
    BY <1>3 DEF AnswerCaptured, AnswerOther, Over, Returned, vars
  <2>2. \A v \in Workers \ {w} : out'[v] = out[v] /\ request'[v] = request[v]
    BY <1>1, <1>3 DEF AnswerCaptured, AnswerOther, Over, vars, TypeOK, ExchangeInv
  <2> QED
    BY <2>1, <2>2, OriginFrame
<1>4. ASSUME pc' = pc, op' = op, records' = records, out' = out, request' = request, origin' = origin
      PROVE  OriginInv'
  BY <1>4, OriginFrame
<1>5. ASSUME NEW w \in Workers, HandlerReturns(w) PROVE OriginInv'
  <2>1. pc' = pc /\ op' = op /\ records' = records /\ out' = out /\ request' = request /\ origin' = origin
    BY <1>5 DEF HandlerReturns, vars
  <2> QED
    BY <1>4, <2>1
<1>6. ASSUME NEW w \in Workers, Receive(w) \/ DoorStep(w) \/ Dies(w) PROVE OriginInv'
  BY <1>2, <1>3, <1>5, <1>6, ReceiveKeepsOrigin, StoreCallKeepsOrigin DEF DoorStep
<1>7. ASSUME NEW w \in Workers, StreamStep(w) \/ ClientStep(w) \/ ClientCancels(w),
             request' = request, origin' = origin
      PROVE  OriginInv'
  <2>1. pc' = pc /\ op' = op /\ records' = records /\ out' = out
    BY <1>7, StreamLeavesEngine DEF vars
  <2> QED
    BY <1>4, <1>7, <2>1
<1>8. ASSUME Tick \/ Purge, request' = request,
             origin' = [k \in Keys |-> IF records'[k].state = "completed" THEN origin[k] ELSE NoBody]
      PROVE  OriginInv'
  <2>1. pc' = pc /\ op' = op /\ out' = out
    BY <1>8 DEF Tick, Purge, RemoveRows, worker
  <2>2. \A k \in Keys : records'[k].state = "completed" => records'[k] = records[k]
    BY <1>8, RemovedNotCompleted DEF Tick
  <2> QED
    BY <1>8, <2>1, <2>2, OriginFrame
<1>9. ASSUME UNCHANGED httpVars PROVE OriginInv'
  <2>1. pc' = pc /\ op' = op /\ records' = records /\ out' = out /\ request' = request /\ origin' = origin
    BY <1>9 DEF httpVars, vars
  <2> QED
    BY <1>4, <2>1
<1> QED
  BY <1>6, <1>7, <1>8, <1>9 DEF HttpNext

\* execute answers "replayed" to a begin that has found a completed row.
LEMMA ReplayCause ==
  ASSUME ExchangeInv, OriginInv, [HttpNext]_httpVars,
         NEW w \in Workers, pc[w] = "begin", out'[w] = "replayed"
  PROVE  RowOf(w).state = "completed" /\ RowOf(w).fingerprint = op[w].fingerprint
<1>1. TypeOK /\ out[w] = "none"
  BY DEF ExchangeInv, TypeInv, OriginInv
<1>2. out'[w] # out[w]
  BY <1>1
<1>3. BeginRefused(w) \/ BeginError(w)
  <2>1. [Next]_vars \/ \E v \in Workers : Forgets(v)
    BY HttpEngine DEF ExchangeInv
  <2>2. ~\E v \in Workers : Forgets(v)
    BY <1>1, <1>2 DEF Forgets, TypeOK
  <2>3. ~UNCHANGED vars /\ ~Tick /\ ~Purge /\ ~\E ks \in SUBSET Keys : NativeSweep(ks)
    BY <1>2 DEF vars, Tick, Purge, NativeSweep, RemoveRows, worker
  <2>4. ASSUME NEW v \in Workers, NEW k \in Keys, NEW f \in Fingerprints, Request(v, k, f) PROVE FALSE
    BY <1>1, <1>2, <2>4 DEF Request, TypeOK
  <2>5. PICK v \in Workers : WorkerStep(v) \/ Fault(v)
    BY <2>1, <2>2, <2>3, <2>4 DEF Next
  <2>6. v = w
    BY <1>1, <1>2, <2>5 DEF WorkerStep, Fault, BeginAcquired, BeginRefused, RunUnclaimed, RunStored,
              RunFailed, Complete, Abandon, BeginError, BeginResent, StoreResultThrows,
              CompleteError, CompleteResent, AbandonError, AbandonResent, Crash, Return, worker, TypeOK
  <2>7. ~Crash(w)
    BY <1>1, <1>2 DEF Crash, Return, TypeOK
  <2> QED
    BY <1>2, <2>5, <2>6, <2>7 DEF WorkerStep, Fault, BeginAcquired, RunUnclaimed, RunStored,
              RunFailed, Complete, Abandon, BeginResent, StoreResultThrows,
              CompleteError, CompleteResent, AbandonError, AbandonResent, worker
<1>4. CASE BeginError(w)
  BY <1>1, <1>2, <1>4 DEF BeginError, Return, TypeOK
<1>5. CASE BeginRefused(w)
  <2>1. out'[w] = Refusal[Outcome(w)] /\ Outcome(w) # "acquired"
    BY <1>1, <1>5, ReturnFrame DEF BeginRefused
  <2>2. Outcome(w) \in {"acquired", "completed", "in_flight", "mismatch"}
    BY OutcomeType DEF Outcome
  <2>3. Outcome(w) = "completed"
    BY <2>1, <2>2 DEF Refusal
  <2> QED
    BY <2>3 DEF Outcome, BeginOutcome
<1> QED
  BY <1>3, <1>4, <1>5

\* As long as attempts end within their lease, a replay answers the request it is
\* given for, at whichever of the doors either of them came in, and for every number
\* of workers and keys: ReplayAnswersRequest.
THEOREM ReplayRight == ASSUME WithinLease PROVE HttpSpec => ReplayAnswersRequest
<1> DEFINE Inv == LeaseInv /\ ExchangeInv /\ OriginInv
           Right == \A w \in Workers :
                      pc[w] = "begin" /\ out'[w] = "replayed" =>
                          canonicalize(origin[op[w].key]) = canonicalize(request[w])
<1>1. HttpInit => Inv
  <2> SUFFICES ASSUME HttpInit PROVE Inv
    OBVIOUS
  <2>1. LeaseInv
    BY LeaseInit DEF HttpInit
  <2>2. OriginInv
    BY DEF HttpInit, Init, OriginInv, Absent
  <2> QED
    BY <2>1, <2>2, ExchangeInvInit
<1>2. Inv /\ [HttpNext]_httpVars => Inv'
  <2> SUFFICES ASSUME Inv, [HttpNext]_httpVars PROVE Inv'
    OBVIOUS
  <2>1. LeaseInv'
    BY HttpKeepsEngine DEF ExchangeInv
  <2> QED
    BY <2>1, ExchangeStep, OriginStep
<1>3. Inv /\ [HttpNext]_httpVars => Right
  <2> SUFFICES ASSUME Inv, [HttpNext]_httpVars,
                      NEW w \in Workers, pc[w] = "begin", out'[w] = "replayed"
               PROVE  canonicalize(origin[op[w].key]) = canonicalize(request[w])
    OBVIOUS
  <2>1. RowOf(w).state = "completed" /\ RowOf(w).fingerprint = op[w].fingerprint
    BY ReplayCause
  <2>2. op[w].key \in Keys
    BY DEF LeaseInv, TypeInv, AttemptShape
  <2>3. /\ <<op[w].fingerprint, request[w]>> \in Digests
        /\ <<op[w].fingerprint, origin[op[w].key]>> \in Digests
    BY <2>1, <2>2 DEF OriginInv, RowOf
  <2> QED
    BY <2>3, FingerprintsTell
<1> QED
  BY <1>1, <1>2, <1>3, PTL DEF HttpSpec, ReplayAnswersRequest

-----------------------------------------------------------------------------
(* The keys that rows are kept under                                       *)

\* Headers.get finds a string, if anything: one value, or two joined.
LEMMA HeaderIsString ==
  ASSUME NEW q \in HttpRequests, headersGet(q) # NoHeader
  PROVE  headersGet(q) \in Seq(Chars)
<1>1. q.values \in Seq(Seq(Chars)) /\ Len(q.values) \in Nat /\ Len(q.values) <= 2
  BY RequestAssumption
<1>2. Len(q.values) # 0
  BY DEF headersGet
<1>3. CASE Len(q.values) = 1
  BY <1>1, <1>3 DEF headersGet
<1>4. CASE Len(q.values) = 2
  <2>1. q.values[1] \in Seq(Chars) /\ q.values[2] \in Seq(Chars)
    BY <1>1, <1>4
  <2>2. <<"comma", "space">> \in Seq(Chars)
    BY DEF Chars
  <2>3. headersGet(q) = (q.values[1] \o <<"comma", "space">>) \o q.values[2]
    <3>1. headersGet(q) = Joined(q.values[1], q.values[2])
      BY <1>4 DEF headersGet
    <3> QED
      BY <3>1, Zenon DEF Joined
  <2>4. q.values[1] \o <<"comma", "space">> \in Seq(Chars)
    BY <2>1, <2>2
  <2>5. (q.values[1] \o <<"comma", "space">>) \o q.values[2] \in Seq(Chars)
    BY <2>1, <2>4
  <2> QED
    BY <2>3, <2>5, Zenon
<1>5. Len(q.values) = 1 \/ Len(q.values) = 2
  <2>1. \A n \in Nat : n <= 2 /\ n # 0 => n = 1 \/ n = 2
    OBVIOUS
  <2> QED
    BY <1>1, <1>2, <2>1, Zenon
<1> QED
  BY <1>3, <1>4, <1>5, Zenon

\* A key that is looked up as "ok" is a legal one.
LEMMA LookupLegal ==
  ASSUME NEW q \in HttpRequests, NEW syntax \in Syntaxes, lookupKey(q, syntax).kind \notin {"missing", "invalid"}
  PROVE  lookupKey(q, syntax).key \in LegalKeys
<1> DEFINE value == IF headersGet(q) = NoHeader THEN <<>> ELSE headersGet(q)
           parsed == parseKey(value, syntax)
<1>1. lookupKey(q, syntax).key = parsed.key
  BY DEF lookupKey
<1>2. headersGet(q) # NoHeader /\ parsed.ok
  BY DEF lookupKey
<1>3. value \in Seq(Chars) /\ value = headersGet(q)
  BY <1>2, HeaderIsString
<1>4. /\ parseKey(headersGet(q), syntax).ok /\ headersGet(q) \in Seq(Chars)
      /\ parsed = parseKey(headersGet(q), syntax)
  BY <1>2, <1>3
<1> HIDE DEF parsed, value
<1> QED
  BY <1>1, <1>4, AcceptedKeysAreWritten

\* So is the key of a request that runIdempotent passes on to execute.
LEMMA ExecutesLegal ==
  ASSUME NEW door \in Doors, NEW q \in HttpRequests, runIdempotent(door, q) = "execute"
  PROVE  KeyLookup(door, q).key \in LegalKeys
<1> DEFINE lookup == KeyLookup(door, q)
           checks == << << ~q.listed \/ q.skip, "pass" >>,
                        << lookup.kind = "missing" /\ ~door.required, "pass" >>,
                        << lookup.kind = "missing", "missing-key" >>,
                        << lookup.kind = "invalid", "invalid-key" >>,
                        << ~HasScope(door, q), "missing-principal" >>,
                        << ~readBody(q), "payload-too-large" >>,
                        << TRUE, "execute" >> >>
<1>1. runIdempotent(door, q) = First(checks)
  BY DEF runIdempotent
<1>2. DOMAIN checks = 1 .. 7 /\ checks[7][1] = TRUE
  OBVIOUS
<1>3. PICK i \in 1 .. 7 :
        checks[i][1] /\ First(checks) = checks[i][2] /\ \A j \in 1 .. 7 : j < i => ~checks[j][1]
  <2> HIDE DEF checks
  <2>1. 7 \in Nat \ {0}
    OBVIOUS
  <2> QED
    BY <1>2, <2>1, FirstMet, Zenon
<1>4. \A j \in 1 .. 6 : checks[j][2] # "execute"
  OBVIOUS
<1>5. (checks[3][1] \/ lookup.kind # "missing") /\ (checks[4][1] \/ lookup.kind # "invalid")
  OBVIOUS
<1> HIDE DEF checks
<1>6. i = 7
  BY <1>1, <1>3, <1>4
<1>7. lookup.kind \notin {"missing", "invalid"}
  BY <1>3, <1>5, <1>6
<1>8. door.syntax \in Syntaxes /\ "lenient" \in Syntaxes
  BY DoorAssumption DEF ResolvedHttpOptions, Syntaxes
<1>9. CASE door.kind = "webhook"
  <2>1. lookup = resolveKey(q)
    BY <1>9 DEF KeyLookup
  <2>2. headersGet(q) # <<>>
    BY <1>7, <2>1 DEF resolveKey
  <2>3. lookup = lookupKey(q, "lenient")
    BY <2>1, <2>2 DEF resolveKey
  <2> QED
    BY <1>7, <1>8, <2>3, LookupLegal
<1>10. CASE door.kind # "webhook"
  <2>1. lookup = lookupKey(q, door.syntax)
    BY <1>10 DEF KeyLookup
  <2> QED
    BY <1>7, <1>8, <2>1, LookupLegal
<1> QED
  BY <1>9, <1>10

\* A receiver calls execute only through runIdempotent.
LEMMA EntersLegal ==
  ASSUME NEW door \in Doors, NEW q \in HttpRequests, NEW now, Enter(door, q, now) = "execute"
  PROVE  KeyLookup(door, q).key \in LegalKeys
<1>1. CASE door.kind # "webhook"
  BY <1>1, ExecutesLegal DEF Enter
<1>2. CASE door.kind = "webhook"
  <2> DEFINE checks == << << door.verify = "none", "configuration-error" >>,
                          << ~q.listed, "pass" >>,
                          << ~readBody(q), "payload-too-large" >>,
                          << door.verify = "verify" /\ q.throws, "configuration-error" >>,
                          << ~Verified(door, q, now), "signature-invalid" >>,
                          << TRUE, runIdempotent(door, q) >> >>
  <2>1. First(checks) = "execute"
    BY <1>2 DEF Enter, webhookReceiver
  <2>2. DOMAIN checks = 1 .. 6 /\ checks[6][1] = TRUE
    OBVIOUS
  <2>3. PICK i \in 1 .. 6 : First(checks) = checks[i][2]
    <3> HIDE DEF checks
    <3>1. 6 \in Nat \ {0}
      OBVIOUS
    <3> QED
      BY <2>2, <3>1, FirstMet, Zenon
  <2>4. checks[6][2] = runIdempotent(door, q) /\ \A j \in 1 .. 5 : checks[j][2] # "execute"
    OBVIOUS
  <2> HIDE DEF checks
  <2>5. i = 6
    BY <2>1, <2>3, <2>4
  <2> QED
    BY <2>1, <2>3, <2>4, <2>5, ExecutesLegal
<1> QED
  BY <1>1, <1>2

\* Attempts are made, and rows kept, under legal keys.
LegalInv ==
    /\ \A w \in Workers : pc[w] # "idle" => op[w].key \in LegalKeys
    /\ \A k \in Keys : Present(records[k]) => k \in LegalKeys

\* It is about attempts that go on and rows that are still there.
LEMMA LegalFrame ==
  ASSUME LegalInv,
         \A v \in Workers : pc'[v] # "idle" => pc[v] # "idle" /\ op'[v] = op[v],
         \A k \in Keys : Present(records'[k]) => Present(records[k]) \/ k \in LegalKeys
  PROVE  LegalInv'
  BY DEF LegalInv

\* A request is taken up under a legal key.
LEMMA ReceiveKeepsLegal ==
  ASSUME ExchangeInv, LegalInv, NEW w \in Workers, Receive(w)
  PROVE  LegalInv'
<1>1. PICK now \in Readings : \E call \in Calls[now] : Request(w, call.key, call.fingerprint)
  BY DEF Receive
<1>2. PICK call \in Calls[now] : Request(w, call.key, call.fingerprint)
  BY <1>1
<1>3. call.key \in LegalKeys
  <2>1. now \in (0 - Skew) .. (MaxTime + Skew)
    BY SkewAssumption, BoundAssumption DEF ExchangeInv, Readings, TypeInv, TypeOK
  <2>2. PICK e \in Doors \X HttpRequests :
          /\ Enter(e[1], e[2], now) = "execute"
          /\ call = [ key |-> KeyLookup(e[1], e[2]).key, fingerprint |-> requestFingerprint(e[1], e[2]),
                      body |-> e[2].body ]
    BY <2>1 DEF Calls
  <2>3. call.key = KeyLookup(e[1], e[2]).key /\ e[1] \in Doors /\ e[2] \in HttpRequests
    BY <2>2
  <2> QED
    BY <2>2, <2>3, EntersLegal
<1>4. op'[w].key = call.key /\ \A v \in Workers \ {w} : op'[v] = op[v] /\ pc'[v] = pc[v]
  BY <1>2 DEF Request, ExchangeInv, TypeInv, TypeOK
<1>5. records' = records
  BY <1>2 DEF Request
<1> QED
  BY <1>3, <1>4, <1>5 DEF LegalInv

\* A call of the store writes no row but that of the attempt's key.
LEMMA StoreCallKeepsLegal ==
  ASSUME TypeInv, LegalInv, NEW w \in Workers, StoreCall(w)
  PROVE  LegalInv'
<1>1. /\ pc[w] # "idle"
      /\ \A v \in Workers : pc'[v] # "idle" => pc[v] # "idle" /\ op'[v] = op[v]
  BY AttemptFrame
<1>2. op[w].key \in LegalKeys
  BY <1>1 DEF LegalInv
<1>3. ASSUME ApplyBegin(w) \/ ApplyComplete(w) \/ ApplyAbandon(w) \/ records' = records,
             NEW k \in Keys, Present(records'[k])
      PROVE  Present(records[k]) \/ k \in LegalKeys
  <2>1. k # op[w].key => records'[k] = records[k]
    BY <1>3 DEF ApplyBegin, ApplyComplete, ApplyAbandon, TypeInv, TypeOK
  <2> QED
    BY <1>2, <1>3, <2>1
<1>4. ApplyBegin(w) \/ ApplyComplete(w) \/ ApplyAbandon(w) \/ records' = records
  BY DEF StoreCall, WorkerStep, BeginAcquired, BeginRefused, RunUnclaimed, RunStored, RunFailed,
         Complete, Abandon, BeginError, CompleteError, AbandonError
<1> QED
  BY <1>1, <1>3, <1>4, LegalFrame

LEMMA LegalStep ==
  ASSUME ExchangeInv, LegalInv, [HttpNext]_httpVars
  PROVE  LegalInv'
<1>1. TypeInv
  BY DEF ExchangeInv
<1>2. ASSUME pc' = pc, op' = op, records' = records
      PROVE  LegalInv'
  BY <1>2, LegalFrame
<1>3. ASSUME NEW w \in Workers, HandlerThrows(w) \/ CopyResolved(w) \/ CopyRejected(w) \/ Dies(w)
      PROVE  LegalInv'
  <2>1. records' = records
    BY <1>3 DEF HandlerThrows, CopyResolved, CopyRejected, Dies, RunFailed, RunUnclaimed, RunStored,
                StoreResultThrows, Crash
  <2> QED
    BY <1>1, <1>3, <2>1, AttemptFrame, LegalFrame
<1>4. ASSUME NEW w \in Workers, HandlerReturns(w) \/ AnswerCaptured(w) \/ AnswerOther(w) \/ Over(w)
      PROVE  LegalInv'
  <2>1. pc' = pc /\ op' = op /\ records' = records
    BY <1>4 DEF HandlerReturns, AnswerCaptured, AnswerOther, Over, vars
  <2> QED
    BY <1>2, <2>1
<1>5. ASSUME NEW w \in Workers, Receive(w) \/ DoorStep(w) \/ Dies(w) PROVE LegalInv'
  BY <1>1, <1>3, <1>4, <1>5, ReceiveKeepsLegal, StoreCallKeepsLegal DEF DoorStep
<1>6. ASSUME NEW w \in Workers, StreamStep(w) \/ ClientStep(w) \/ ClientCancels(w) PROVE LegalInv'
  <2>1. pc' = pc /\ op' = op /\ records' = records
    BY <1>6, StreamLeavesEngine DEF vars
  <2> QED
    BY <1>2, <2>1
<1>7. CASE Tick
  BY <1>2, <1>7 DEF Tick, worker
<1>8. CASE Purge
  <2>1. PICK r \in Readings : RemoveRows(Keys, [k \in Keys |-> PurgedRow(records[k], r)])
    BY <1>8 DEF Purge
  <2>2. pc' = pc /\ op' = op /\ \A k \in Keys : records'[k] = PurgedRow(records[k], r)
    BY <2>1 DEF RemoveRows, worker
  <2>3. \A k \in Keys : Present(records'[k]) => Present(records[k])
    BY <2>2 DEF PurgedRow, Absent, Present
  <2> QED
    BY <2>2, <2>3, LegalFrame
<1>9. CASE UNCHANGED httpVars
  BY <1>2, <1>9 DEF httpVars, vars
<1> QED
  BY <1>5, <1>6, <1>7, <1>8, <1>9 DEF HttpNext

\* For any number of workers and any requests, doors and lengths of keys, rows are
\* kept under legal keys only, and header values and keys correspond: KeyParsing.
THEOREM KeysRight == HttpSpec => []KeyParsing
<1> DEFINE Inv == ExchangeInv /\ LegalInv
<1>1. HttpInit => Inv
  <2> SUFFICES ASSUME HttpInit PROVE Inv
    OBVIOUS
  <2>1. LegalInv
    BY DEF HttpInit, Init, LegalInv, Absent, Present
  <2> QED
    BY <2>1, ExchangeInvInit
<1>2. Inv /\ [HttpNext]_httpVars => Inv'
  BY ExchangeStep, LegalStep
<1>3. Inv => KeyParsing
  BY KeysAreParsed DEF LegalInv, KeyParsing
<1> QED
  BY <1>1, <1>2, <1>3, PTL DEF HttpSpec

\* In every store, requests share a row exactly if they agree in endpoint, principal
\* and key, and deliveries of webhooks if they agree in source and key: RecordsApart.
THEOREM RecordsKeptApart == HttpSpec => []RecordsApart
<1>1. RecordsApart
  BY RowsAreApart DEF RecordsApart
<1> QED
  BY <1>1, PTL

\* From whichever store it comes, a replay has the status, the allowed headers and
\* every byte of the response that its row was made of: ReplayFaithful.
THEOREM ReplaysKeptFaithful == HttpSpec => []ReplayFaithful
<1>1. ReplayFaithful
  BY ReplaysAreFaithful DEF ReplayFaithful
<1> QED
  BY <1>1, PTL

=============================================================================
