------------------------- MODULE TelemetryPipeline -------------------------
(***************************************************************************)
(* The agent's telemetry path: the collectors offer ORM events to the      *)
(* aggregator's EventCh, the aggregator folds them into its window and     *)
(* every flush interval hands the window, as one batch, to SendCh; the     *)
(* sender takes the batches and POSTs each to /api/v1/agent/batch, with    *)
(* retries, where it is added to the stream the ingest workers read.  Both *)
(* channels are bounded and every send on them is non-blocking.  Collector,*)
(* aggregator and sender are goroutines that stop on the same cancelled    *)
(* context, and main returns without waiting for them.  The handler of a   *)
(* POST runs on its own: the agent gives a POST up after its timeout while *)
(* the handler may still add the batch to the stream, now or much later.   *)
(***************************************************************************)
EXTENDS Integers, Sequences, FiniteSets, SequencesExt

CONSTANTS
    MaxEvents,      \* bound: events the collectors offer in one behaviour
    EventChSize,    \* EventChannelSize (4096 in the code)
    SendChSize,     \* capacity of SendCh (4 in the code)
    MaxAttempts,    \* 1 + MaxRetries: POSTs of one batch (3 in the code)
    XAddTries,      \* 1 + MaxRetries of the Redis client (4 by its default)
    MaxAdds         \* bound: XADDs in one behaviour

ASSUME TelemetryAssumption ==
    /\ MaxEvents \in Nat /\ MaxAdds \in Nat
    /\ EventChSize \in Nat \ {0} /\ SendChSize \in Nat \ {0}
    /\ MaxAttempts \in Nat \ {0} /\ XAddTries \in Nat \ {0}

VARIABLES
    offered,        \* how many events were offered to EventCh; event n is the n-th
    eventCh,        \* EventCh, oldest event first
    window,         \* events counted in the aggregator's open window
    sendCh,         \* SendCh, oldest batch first; a batch is its set of events
    aggregator,     \* Aggregator.Run: "run", "drain" after ctx.Done, "stopped"
    sender,         \* Sender.Run: where the loop or its sendBatch is
    batch,          \* the batch inside sendBatch
    attempt,        \* sendBatch's attempt counter
    requests,       \* POSTs whose handler may still add to the stream
    stream,         \* entries of agent:ingest, in XADD order
    dropped,        \* events given up, each at a place the code names
    cancelled,      \* the agent's context is cancelled
    up              \* the agent process runs

aggVars == <<offered, eventCh, window, aggregator>>
sndVars == <<sender, batch, attempt, requests, stream>>
vars == <<offered, eventCh, window, sendCh, aggregator, sender, batch, attempt,
          requests, stream, dropped, cancelled, up>>

Event == 1..MaxEvents

\* The n-th POST of batch b as its handler sees it: it has added nothing yet.
Request(b, n) == [events |-> b, attempt |-> n, adds |-> 0]

\* What the handler's next XADD leaves in the stream.
Entry(r) == [events |-> r.events, attempt |-> r.attempt, copy |-> r.adds + 1]

Init ==
    /\ offered = 0 /\ eventCh = <<>> /\ window = {} /\ sendCh = <<>>
    /\ aggregator = "run" /\ sender = "recv" /\ batch = {} /\ attempt = 0
    /\ requests = {} /\ stream = <<>> /\ dropped = {} /\ cancelled = FALSE /\ up = TRUE
-----------------------------------------------------------------------------
(* Collectors *)

\* A collector's non-blocking send: a full EventCh loses the new event.
HandleEntry ==
    /\ up /\ offered < MaxEvents
    /\ offered' = offered + 1
    /\ \/ /\ Len(eventCh) < EventChSize
          /\ eventCh' = Append(eventCh, offered + 1)
          /\ UNCHANGED dropped
       \/ /\ Len(eventCh) = EventChSize
          /\ dropped' = dropped \cup {offered + 1}
          /\ UNCHANGED eventCh
    /\ UNCHANGED <<window, sendCh, aggregator, sndVars, cancelled, up>>
-----------------------------------------------------------------------------
(* Aggregator *)

\* Run's receive case and one turn of drainChannel: the event is counted in
\* the window whatever the sampler decides about its raw copy.
Ingest ==
    /\ up /\ aggregator \in {"run", "drain"} /\ eventCh # <<>>
    /\ window' = window \cup {Head(eventCh)}
    /\ eventCh' = Tail(eventCh)
    /\ UNCHANGED <<offered, sendCh, aggregator, sndVars, dropped, cancelled, up>>

\* Mutant of FlushAndSend: no resetWindow after a successful send.
FlushAndSendKeepsWindow ==
    \/ window = {} /\ UNCHANGED <<window, sendCh, dropped>>
    \/ /\ window # {} /\ Len(sendCh) < SendChSize
       /\ sendCh' = Append(sendCh, window) /\ UNCHANGED <<window, dropped>>
    \/ /\ window # {} /\ Len(sendCh) = SendChSize
       /\ dropped' = dropped \cup window /\ window' = {} /\ UNCHANGED sendCh

\* flush and the non-blocking send on SendCh: an empty window sends nothing,
\* a full SendCh drops the batch; the window is reset in every case.
FlushAndSend ==
    /\ window' = {}
    /\ \/ window = {} /\ UNCHANGED <<sendCh, dropped>>
       \/ /\ window # {} /\ Len(sendCh) < SendChSize
          /\ sendCh' = Append(sendCh, window) /\ UNCHANGED dropped
       \/ /\ window # {} /\ Len(sendCh) = SendChSize
          /\ dropped' = dropped \cup window /\ UNCHANGED sendCh

\* The flush ticker fires; it may win the select after the cancellation too.
Tick ==
    /\ up /\ aggregator = "run" /\ window # {}
    /\ FlushAndSend
    /\ UNCHANGED <<offered, eventCh, aggregator, sndVars, cancelled, up>>

\* Run sees ctx.Done and starts to drain EventCh.
AggregatorDone ==
    /\ up /\ cancelled /\ aggregator = "run"
    /\ aggregator' = "drain"
    /\ UNCHANGED <<offered, eventCh, window, sendCh, sndVars, dropped, cancelled, up>>

\* drainChannel finds EventCh empty: the final flush, then Run returns.
FinalFlush ==
    /\ up /\ aggregator = "drain" /\ eventCh = <<>>
    /\ FlushAndSend
    /\ aggregator' = "stopped"
    /\ UNCHANGED <<offered, eventCh, sndVars, cancelled, up>>
-----------------------------------------------------------------------------
(* Sender *)

Posting == sender \in {"post", "drainPost"}

\* sendBatch returns to the loop that called it.
Returned == IF sender = "post" THEN "recv" ELSE "drain"

\* sendBatch up to its first POST: the rate limiter may drop the batch.  With
\* the live context already cancelled no request leaves the agent: the first
\* POST fails at once and the wait for a retry sees ctx.Done.
TakeBatch(allow) ==
    /\ up /\ sender \in {"recv", "drain"} /\ sendCh # <<>>
    /\ sendCh' = Tail(sendCh)
    /\ \/ /\ allow /\ ~(sender = "recv" /\ cancelled)
          /\ batch' = Head(sendCh) /\ attempt' = 1
          /\ requests' = requests \cup {Request(Head(sendCh), 1)}
          /\ sender' = IF sender = "recv" THEN "post" ELSE "drainPost"
          /\ UNCHANGED dropped
       \/ /\ ~allow \/ (sender = "recv" /\ cancelled)
          /\ dropped' = dropped \cup Head(sendCh)
          /\ UNCHANGED <<batch, attempt, requests, sender>>
    /\ UNCHANGED <<aggVars, stream, cancelled, up>>

\* The POST is answered 2xx (possibly after a 401 and fresh credentials): its
\* handler has added the batch and is done.
PostOk ==
    /\ up /\ Posting
    /\ \E r \in requests :
         /\ r.events = batch /\ r.attempt = attempt /\ r.adds > 0
         /\ requests' = requests \ {r}
    /\ sender' = Returned /\ batch' = {} /\ attempt' = 0
    /\ UNCHANGED <<aggVars, sendCh, stream, dropped, cancelled, up>>

\* Mutant of PostFails: the batch goes back to the end of SendCh.
PostFailsRequeues ==
    /\ up /\ Posting
    /\ \/ /\ Len(sendCh) < SendChSize
          /\ sendCh' = Append(sendCh, batch) /\ UNCHANGED dropped
       \/ /\ Len(sendCh) = SendChSize
          /\ dropped' = dropped \cup batch /\ UNCHANGED sendCh
    /\ sender' = Returned /\ batch' = {} /\ attempt' = 0
    /\ UNCHANGED <<aggVars, requests, stream, cancelled, up>>

\* Mutant of PostFails: the retries of a refused batch never end.
PostFailsForEver ==
    /\ up /\ Posting
    /\ attempt' = IF attempt < MaxAttempts THEN attempt + 1 ELSE 1
    /\ UNCHANGED <<aggVars, sendCh, sender, batch, requests, stream, dropped,
                   cancelled, up>>

\* The POST fails for the agent: an error status, or no answer within the
\* client's timeout.  Its handler is not stopped by that.  sendBatch retries
\* after the delay; it gives the batch up when the attempts are used, when the
\* context is cancelled, or, while draining, when the 5 s of drainCtx are over.
PostFails ==
    /\ up /\ Posting
    /\ \/ /\ attempt < MaxAttempts /\ ~(sender = "post" /\ cancelled)
          /\ attempt' = attempt + 1
          /\ requests' = requests \cup {Request(batch, attempt + 1)}
          /\ UNCHANGED <<sender, batch, dropped>>
       \/ /\ attempt = MaxAttempts \/ cancelled
          /\ dropped' = dropped \cup batch
          /\ sender' = Returned /\ batch' = {} /\ attempt' = 0
          /\ UNCHANGED requests
    /\ UNCHANGED <<aggVars, sendCh, stream, cancelled, up>>

\* Run sees ctx.Done: the drain loop starts.
SenderDone ==
    /\ up /\ cancelled /\ sender = "recv"
    /\ sender' = "drain"
    /\ UNCHANGED <<aggVars, sendCh, batch, attempt, requests, stream, dropped,
                   cancelled, up>>

\* Mutant of SenderStops: the drain loop waits for another batch.
SenderStopsAfterBatch ==
    /\ up /\ sender = "drain" /\ sendCh # <<>>
    /\ sender' = "stopped"
    /\ UNCHANGED <<aggVars, sendCh, batch, attempt, requests, stream, dropped,
                   cancelled, up>>

\* The drain loop finds SendCh empty and Run returns.
SenderStops ==
    /\ up /\ sender = "drain" /\ sendCh = <<>>
    /\ sender' = "stopped"
    /\ UNCHANGED <<aggVars, sendCh, batch, attempt, requests, stream, dropped,
                   cancelled, up>>
-----------------------------------------------------------------------------
(* Agent process *)

\* SIGINT or SIGTERM.
Cancel ==
    /\ up /\ ~cancelled
    /\ cancelled' = TRUE
    /\ UNCHANGED <<aggVars, sendCh, sndVars, dropped, up>>

\* The sync loop returns and main with it; it waits for no goroutine.
Exit ==
    /\ up /\ cancelled
    /\ up' = FALSE
    /\ UNCHANGED <<aggVars, sendCh, sndVars, dropped, cancelled>>
-----------------------------------------------------------------------------
(* Server *)

\* HandleIngestBatch calls XAdd once; the Redis client sends the command again
\* when its answer is late or its connection breaks, and each one that arrives
\* adds a copy.  The handler goes on after the agent or the server's own
\* timeout has given the request up, and after the agent has exited.
HandleIngestBatch(r) ==
    /\ r.adds < XAddTries /\ Len(stream) < MaxAdds
    /\ stream' = Append(stream, Entry(r))
    /\ requests' = (requests \ {r}) \cup {[r EXCEPT !.adds = @ + 1]}
    /\ UNCHANGED <<aggVars, sendCh, sender, batch, attempt, dropped, cancelled, up>>
-----------------------------------------------------------------------------
AggregatorStep == Ingest \/ Tick \/ AggregatorDone \/ FinalFlush

SenderStep ==
    \/ \E allow \in BOOLEAN : TakeBatch(allow)
    \/ PostOk
    \/ PostFails
    \/ SenderDone
    \/ SenderStops

IngestServer == \E r \in requests : HandleIngestBatch(r)

Next == HandleEntry \/ AggregatorStep \/ SenderStep \/ IngestServer \/ Cancel \/ Exit

Spec == Init /\ [][Next]_vars

\* The Go scheduler runs both loops, the flush ticker keeps firing, every POST
\* returns within the client's timeout, and a select with several ready cases
\* picks each of them in the end.  No POST ever has to succeed and no handler
\* has to come to its XADD.
TelemetryFairness ==
    /\ WF_vars(Ingest) /\ WF_vars(Tick) /\ WF_vars(AggregatorDone)
    /\ WF_vars(FinalFlush)
    /\ WF_vars(SenderStep)
-----------------------------------------------------------------------------
(* Properties *)

Queued == UNION ToSet(sendCh)
Streamed == UNION {e.events : e \in ToSet(stream)}

Held == ToSet(eventCh) \cup window \cup Queued \cup batch

\* Conservation across the three goroutines: an offered event is in one place
\* of the agent only (a channel, the window or the batch being sent), or it was
\* added to the server's stream, or given up at one of the places that say so.
EveryEventAccountedFor ==
    /\ 1..offered = Held \cup Streamed \cup dropped
    /\ Cardinality(Held) =
         Len(eventCh) + Cardinality(window) + Cardinality(Queued) + Cardinality(batch)

\* Every event of S was collected before every event of T.
Before(S, T) == \A m \in S, n \in T : m < n

\* Retries and late handlers reorder only what cannot be helped: the batches of
\* the stream are disjoint and in the order their events were collected, except
\* that a batch comes after a newer one when the agent gave it up or when this
\* is a further copy of a batch that came in its place.  One batch has at most
\* XAddTries copies for each of its POSTs.
StreamInOrder ==
    /\ \A i, j \in DOMAIN stream :
         (i < j /\ stream[i].events # stream[j].events) =>
             \/ Before(stream[i].events, stream[j].events)
             \/ /\ Before(stream[j].events, stream[i].events)
                /\ \/ stream[j].events \subseteq dropped
                   \/ \E k \in 1..(i - 1) : stream[k].events = stream[j].events
    /\ \A i \in DOMAIN stream :
         Cardinality({j \in DOMAIN stream : stream[j].events = stream[i].events})
             <= MaxAttempts * XAddTries

\* While the agent is not being stopped every event it counts reaches the
\* stream or is given up: no batch stays in a channel behind a sender that
\* waits for a dead server.
EventConcludes ==
    \A n \in Event :
        n <= offered ~> (n \in Streamed \/ n \in dropped \/ cancelled)

\* After the context is cancelled both loops return, unless the process exits
\* first: neither drain loop can be kept busy for ever.
ShutdownCompletes ==
    cancelled ~> (~up \/ (aggregator = "stopped" /\ sender = "stopped"))

\* When both loops have returned, no batch is left in SendCh (sender.go:
\* "Drain any remaining batches in the channel", aggregator.go: "It blocks
\* until ctx is canceled, then performs a final flush").
FinalFlushIsSent ==
    (aggregator = "stopped" /\ sender = "stopped") => sendCh = <<>>
=============================================================================
