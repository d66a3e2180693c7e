---------------------------- MODULE HttpCapture -----------------------------
(***************************************************************************)
(* The captured response of a handler (packages/core/src/http/capture.ts): *)
(* the body goes to the client while a copy of it is kept for the store.   *)
(*                                                                         *)
(* capture[w] is the state of captureResponse's closures, client[w] that   *)
(* of the ReadableStream they feed and of the client behind it.  The       *)
(* handler's body is a source of chunks, numbered from 1, each one unit of *)
(* maxResultBytes.  Reads of the source are answered one by one, in the    *)
(* order they were asked in: the one read of a pull, and, once the client  *)
(* has cancelled, the reads of the drain behind it.                        *)
(***************************************************************************)
EXTENDS Engine, Sequences

CONSTANTS
    MaxChunks,        \* bound: the longest body of a handler
    MaxResultBytes,   \* the option maxResultBytes
    StoreMaxBytes     \* maxResultBytes of the store

ASSUME ChunkAssumption == {MaxChunks, MaxResultBytes, StoreMaxBytes} \subseteq Nat

VARIABLES capture, client

captureVars == <<capture, client>>

\* The cap never exceeds what the store can hold whole.
Cap == IF MaxResultBytes <= StoreMaxBytes THEN MaxResultBytes ELSE StoreMaxBytes

NoCapture ==
    [ streaming |-> FALSE, length |-> 0, fails |-> FALSE,
      at |-> 0, chunks |-> <<>>, reads |-> <<>>,
      clientOpen |-> FALSE, settled |-> "none" ]

NoClient == [state |-> "none", stream |-> "none", queue |-> <<>>, got |-> <<>>]

Captured(w) == capture[w].settled # "none"

\* The handler returns a response with a body of n chunks, which may break off
\* after them, and the stream pulls for the first time.
captureStreaming(w, n, fails) ==
    /\ capture' = [capture EXCEPT ![w] =
                     [ NoCapture EXCEPT !.streaming = TRUE, !.length = n, !.fails = fails,
                         !.reads = <<"pull">>, !.clientOpen = TRUE, !.settled = "no" ]]
    /\ client' = [client EXCEPT ![w] = [NoClient EXCEPT !.state = "open", !.stream = "open"]]

\* It returns one without a body: there is nothing to copy, and the client waits
\* for the record.
captureBodiless(w) ==
    /\ capture' = [capture EXCEPT ![w] = [NoCapture EXCEPT !.settled = "resolved"]]
    /\ client' = [client EXCEPT ![w] = [NoClient EXCEPT !.state = "open"]]

\* The copy with chunk i: it stops growing once it is over the cap.
record(chunks, i) == IF Len(chunks) > Cap THEN chunks ELSE Append(chunks, i)

\* The source is exhausted or errored: its lock is released, which ends every
\* other read, and the record settles, once.
finish(c, result) ==
    IF c.settled = "no" THEN [c EXCEPT !.settled = result, !.reads = <<>>] ELSE c

-----------------------------------------------------------------------------
(* The source answers the first read.                                      *)

Reads(w, who) == capture[w].reads # <<>> /\ Head(capture[w].reads) = who

\* Mutant: a chunk that the client will not have is not kept.
PullDropsCancelled(w) ==
    LET c == capture[w]
        i == c.at + 1
        fits == c.clientOpen /\ client[w].stream = "open"
    IN  /\ Reads(w, "pull") /\ c.at < c.length
        /\ capture' = [capture EXCEPT ![w] =
                         [c EXCEPT !.at = i, !.reads = Tail(@), !.clientOpen = fits,
                            !.chunks = IF fits THEN record(@, i) ELSE @]]
        /\ client' = [client EXCEPT ![w].queue = IF fits THEN Append(@, i) ELSE @]
        /\ UNCHANGED vars

\* A chunk for a pull goes to the client and into the copy.  A client that has
\* cancelled, its callback still to come, lets enqueue throw.
PullChunk(w) ==
    LET c == capture[w]
        i == c.at + 1
        fits == c.clientOpen /\ client[w].stream = "open"
    IN  /\ Reads(w, "pull") /\ c.at < c.length
        /\ capture' = [capture EXCEPT ![w] =
                         [c EXCEPT !.at = i, !.reads = Tail(@), !.clientOpen = fits,
                            !.chunks = record(@, i)]]
        /\ client' = [client EXCEPT ![w].queue = IF fits THEN Append(@, i) ELSE @]
        /\ UNCHANGED vars

\* A chunk for the drain goes into the copy, and the drain reads on.
DrainChunk(w) ==
    LET c == capture[w]
        i == c.at + 1
    IN  /\ Reads(w, "drain") /\ c.at < c.length
        /\ capture' = [capture EXCEPT ![w] =
                         [c EXCEPT !.at = i, !.chunks = record(@, i),
                            !.reads = Append(Tail(@), "drain")]]
        /\ UNCHANGED <<vars, client>>

\* The stream of w is broken off, unless the client had left it already.
errorStream(w) ==
    client' = [client EXCEPT ![w] =
                 IF @.stream = "open"
                 THEN [@ EXCEPT !.state = "broken", !.stream = "closed", !.queue = <<>>]
                 ELSE @]

\* Mutant: the client stream is closed as soon as the source has ended.
SourceEndsAndCloses(w) ==
    /\ capture[w].reads # <<>>
    /\ capture[w].at = capture[w].length /\ ~capture[w].fails
    /\ capture' = [capture EXCEPT ![w] = finish(@, "resolved")]
    /\ client' = [client EXCEPT ![w].stream = IF @ = "open" THEN "closing" ELSE @]
    /\ UNCHANGED vars

\* The source has ended: the copy is whole.  The client stream stays open.
SourceEnds(w) ==
    /\ capture[w].reads # <<>>
    /\ capture[w].at = capture[w].length /\ ~capture[w].fails
    /\ capture' = [capture EXCEPT ![w] = finish(@, "resolved")]
    /\ UNCHANGED <<vars, client>>

\* The source breaks off: a pull passes that on to a client that is still there.
SourceFails(w) ==
    LET c == capture[w] IN
    /\ c.reads # <<>> /\ c.at = c.length /\ c.fails
    /\ IF Reads(w, "pull") /\ c.clientOpen
       THEN /\ capture' = [capture EXCEPT ![w] =
                             finish([c EXCEPT !.clientOpen = FALSE], "rejected")]
            /\ errorStream(w)
       ELSE /\ capture' = [capture EXCEPT ![w] = finish(c, "rejected")]
            /\ UNCHANGED client
    /\ UNCHANGED vars

-----------------------------------------------------------------------------
(* The client and its stream                                               *)

\* The client takes the chunk in the queue, and the stream pulls the next one,
\* unless it is closing or the source has ended.
ClientReads(w) ==
    LET b == client[w] IN
    /\ b.state = "open" /\ b.queue # <<>>
    /\ client' = [client EXCEPT ![w] = [b EXCEPT !.queue = <<>>, !.got = @ \o b.queue]]
    /\ capture' = [capture EXCEPT ![w].reads =
                     IF b.stream = "open" /\ capture[w].settled = "no"
                     THEN Append(@, "pull") ELSE @]
    /\ UNCHANGED vars

\* It finds the body at its end.
ClientEnds(w) ==
    /\ client[w].state = "open" /\ client[w].stream = "closing" /\ client[w].queue = <<>>
    /\ client' = [client EXCEPT ![w] = [@ EXCEPT !.state = "ended", !.stream = "closed"]]
    /\ UNCHANGED <<vars, capture>>

\* It goes away; the stream has yet to call the cancel callback.
ClientCancels(w) ==
    /\ client[w].state = "open" /\ client[w].stream \in {"open", "closing"}
    /\ client' = [client EXCEPT ![w] =
                    [@ EXCEPT !.state = "left", !.stream = "cancelling", !.queue = <<>>]]
    /\ UNCHANGED <<vars, capture>>

\* Mutant: nobody reads on.
CancelWithoutDrain(w) ==
    /\ client[w].stream = "cancelling"
    /\ client' = [client EXCEPT ![w].stream = "closed"]
    /\ capture' = [capture EXCEPT ![w].clientOpen = FALSE]
    /\ UNCHANGED vars

\* The cancel callback: the drain takes over, behind a pull that may be waiting.
Cancel(w) ==
    LET c == capture[w] IN
    /\ client[w].stream = "cancelling"
    /\ client' = [client EXCEPT ![w].stream = "closed"]
    /\ capture' = [capture EXCEPT ![w] =
                     [c EXCEPT !.clientOpen = FALSE,
                        !.reads = IF c.settled = "no" THEN Append(@, "drain") ELSE @]]
    /\ UNCHANGED vars

-----------------------------------------------------------------------------
(* What the door does with the capture when execute has returned           *)

\* The body may end now; a response without one is handed out.
close(w) ==
    IF capture[w].streaming
    THEN /\ capture' = [capture EXCEPT ![w].clientOpen = FALSE]
         /\ client' = [client EXCEPT ![w].stream =
                         IF capture[w].clientOpen /\ @ = "open" THEN "closing" ELSE @]
    ELSE /\ client' = [client EXCEPT ![w].state = "ended"]
         /\ UNCHANGED capture

\* The body breaks off, and a record that is not settled is given up; a response
\* without a body is handed out as it is.
fail(w) ==
    CASE capture[w].streaming /\ capture[w].clientOpen ->
           /\ capture' = [capture EXCEPT ![w] =
                            finish([@ EXCEPT !.clientOpen = FALSE], "rejected")]
           /\ errorStream(w)
      [] capture[w].streaming /\ ~capture[w].clientOpen -> UNCHANGED captureVars
      [] OTHER -> /\ client' = [client EXCEPT ![w].state = "ended"]
                  /\ UNCHANGED capture

SourceStep(w) == PullChunk(w) \/ DrainChunk(w) \/ SourceEnds(w) \/ SourceFails(w)
ClientStep(w) == ClientReads(w) \/ ClientEnds(w)

-----------------------------------------------------------------------------
(* Property                                                                *)

Whole(n) == [i \in 1 .. n |-> i]

\* What a capture hands to the store is the handler's whole body, in order, or
\* marked as too large for it: never a part of it, however pulls, the drain and a
\* cancelling client have shared the source.  The copy never outgrows the cap by
\* more than a chunk.
CopyWhole ==
    \A w \in Workers :
        LET c == capture[w] IN
        /\ Len(c.chunks) <= Cap + 1
        /\ c.settled = "resolved" =>
             IF c.length <= Cap THEN c.chunks = Whole(c.length) ELSE Len(c.chunks) > Cap

=============================================================================
