--------------------------- MODULE ErrorPipeline ---------------------------
(***************************************************************************)
(* The agent's error pipeline: the ir.logging collector and the log tailer *)
(* push error events into the ring buffer, the flusher drains it every     *)
(* interval and POSTs the batch to /api/v1/agent/errors, which ingests the *)
(* events one transaction at a time.  The three agent loops are goroutines *)
(* that share only the buffer; a failed POST pushes the whole batch back.  *)
(* The buffer is DropOldestQueue, which RingBuffer implements.             *)
(*                                                                         *)
(* The buffer, the batch and the collector's cursor are in memory only: an *)
(* agent that starts again polls from the first row.  The tailer reads the *)
(* log file to which Odoo writes the same errors.  An error can so be      *)
(* captured several times; an event here is one capture of it.             *)
(***************************************************************************)
EXTENDS Integers, FiniteSets

CONSTANTS
    Capacity,       \* AGENT_ERROR_BUFFER_SIZE
    MaxLogId,       \* ir.logging rows 1..MaxLogId can appear in Odoo
    TailEvent,      \* errors Odoo writes to the log file, rows of 1..MaxLogId or others
    EmptyRow,       \* rows whose message is empty: recordToErrorEvent skips them
    PollLimit,      \* the "limit" of one search_read (200 in the code)
    BodyLimit,      \* how many events fit the server's 1 MB body limit
    MaxFaults,      \* bound on POSTs the network or the server's database fails
    MaxRestarts     \* bound on restarts of the agent

LogId == 1..MaxLogId

\* A row as the collector of one life of the agent captures it, and a log-file
\* entry, which is read at most once: the tailer starts at the end of the file.
RowIn(id, life) == [error |-> id, source |-> "row", life |-> life]
FileEntry(e) == [error |-> e, source |-> "file", life |-> 0]

Event == {RowIn(id, life) : id \in LogId \ EmptyRow, life \in 0..MaxRestarts}
           \cup {FileEntry(e) : e \in TailEvent}

ASSUME PipelineAssumption ==
    /\ Capacity \in Nat \ {0}
    /\ MaxLogId \in Nat /\ EmptyRow \subseteq LogId
    /\ PollLimit \in Nat \ {0} /\ BodyLimit \in Nat
    /\ MaxFaults \in Nat /\ MaxRestarts \in Nat

VARIABLES
    len, entries,   \* the ring buffer, oldest entry first
    events,         \* Flush's local slice: what its last DrainAll returned
    rows,           \* ir.logging rows visible to a search_read
    lastLogID,      \* the collector's cursor
    records,        \* rows of the current poll the collector has yet to handle
    unread,         \* log-file entries the tailer has yet to read
    flusher,        \* where the flusher's loop is
    next,           \* re-push loop: index of the next event to push back
    stopping,       \* the agent's context is cancelled
    ctx,            \* the context of the current flush: live, cancelled or final
    ingested,       \* [Event -> Nat]: committed occurrences on the server
    faults,         \* failed POSTs so far
    restarts,       \* restarts of the agent so far: its current life
    captured,       \* history: events that entered the buffer from a source
    evicted,        \* history: events overwritten in a full buffer
    discarded,      \* history: events held when the agent's process ended
    late            \* history: rows that became visible below an id already read

bufVars    == <<len, entries>>
sourceVars == <<rows, lastLogID, records, unread, late>>
flushVars  == <<flusher, next, ctx, faults>>
lifeVars   == <<restarts, discarded>>
vars == <<len, entries, events, rows, lastLogID, records, unread, flusher, next,
          stopping, ctx, ingested, faults, restarts, captured, evicted, discarded, late>>

Buf == INSTANCE DropOldestQueue WITH Value <- Event, result <- events

Init ==
    /\ Buf!AInit
    /\ rows = {} /\ lastLogID = 0 /\ records = {} /\ late = {}
    /\ unread = TailEvent
    /\ flusher = "idle" /\ next = 0 /\ stopping = FALSE /\ ctx = "live"
    /\ ingested = [e \in Event |-> 0]
    /\ faults = 0 /\ restarts = 0 /\ captured = {} /\ evicted = {} /\ discarded = {}

\* Push into the shared buffer; a full buffer silently loses its oldest entry.
Push(e) ==
    /\ Buf!APush(e)
    /\ evicted' = IF len = Capacity THEN evicted \cup {entries[1]} ELSE evicted
-----------------------------------------------------------------------------
(* Odoo *)

\* A worker of Odoo commits its ir.logging row.  Ids are handed out before
\* the transactions commit, so rows can become visible out of id order.
CommitRow(id) ==
    /\ id \notin rows
    /\ rows' = rows \cup {id}
    /\ late' = IF id <= lastLogID \/ \E r \in records : id < r
                 THEN late \cup {id} ELSE late
    /\ UNCHANGED <<bufVars, events, lastLogID, records, unread, flushVars,
                   stopping, ingested, captured, evicted, lifeVars>>
-----------------------------------------------------------------------------
(* Collector: a goroutine of its own; poll fetches, then handles row by row *)

\* Rows the poll's domain selects: no id condition until the cursor is set.
Domain == {id \in rows : lastLogID > 0 => id > lastLogID}

\* Mutant of Page: "order": "id desc".
PageNewestFirst(S) == {id \in S : Cardinality({r \in S : r > id}) < PollLimit}

\* "order": "id asc", "limit": the PollLimit smallest ids of a set.
Page(S) == {id \in S : Cardinality({r \in S : r < id}) < PollLimit}

Poll ==
    /\ records = {} /\ ~stopping
    /\ Page(Domain) # {}
    /\ records' = Page(Domain)
    /\ UNCHANGED <<bufVars, events, rows, lastLogID, unread, late, flushVars,
                   stopping, ingested, captured, evicted, lifeVars>>

\* One turn of poll's loop over the records, in id order.
HandleRecord(id) ==
    /\ id \in records /\ \A r \in records : id <= r
    /\ records' = records \ {id}
    /\ lastLogID' = IF id > lastLogID THEN id ELSE lastLogID
    /\ \/ /\ id \notin EmptyRow
          /\ Push(RowIn(id, restarts))
          /\ captured' = captured \cup {RowIn(id, restarts)}
       \/ id \in EmptyRow /\ UNCHANGED <<bufVars, events, captured, evicted>>
    /\ UNCHANGED <<rows, unread, late, flushVars, stopping, ingested, lifeVars>>
-----------------------------------------------------------------------------
(* Log tailer: handleEntry pushes each error entry it reads, without looking *)
(* whether the collector has captured the same error                        *)

HandleEntry(e) ==
    /\ e \in unread
    /\ unread' = unread \ {e}
    /\ Push(FileEntry(e))
    /\ captured' = captured \cup {FileEntry(e)}
    /\ UNCHANGED <<rows, lastLogID, records, late, flushVars, stopping, ingested, lifeVars>>
-----------------------------------------------------------------------------
(* Flusher *)

\* RunLoop's select fires and Flush drains the buffer.  Once the context is
\* cancelled the select may still pick the ticker; when it picks ctx.Done it
\* makes the final flush, which has a context of its own.
Flush(last) ==
    /\ flusher = "idle"
    /\ last => stopping
    /\ Buf!ADrainAll
    /\ \/ len = 0 /\ flusher' = IF last THEN "stopped" ELSE "idle"
       \/ len # 0 /\ flusher' = "post"
    /\ ctx' = IF last THEN "final" ELSE IF stopping THEN "cancelled" ELSE "live"
    /\ UNCHANGED <<sourceVars, next, faults, stopping, ingested, captured, evicted, lifeVars>>

\* RunLoop after Flush returns: next tick, or return after the final flush.
AfterFlush == IF ctx = "final" THEN "stopped" ELSE "idle"

\* The server commits the first k events of the batch, one transaction each.
IngestBatch(k) ==
    ingested' = [e \in Event |->
                    ingested[e] + Cardinality({i \in 1..k : events.entries[i] = e})]

\* DecodeAndValidate refuses the whole batch before the first transaction.
Refused == events.len > BodyLimit

Posting == flusher \in {"post", "postAgain"}

\* Mutant of PostSucceeds: the re-push loop runs after a success too.
PostSucceedsAndRepushes ==
    /\ Posting /\ ~Refused
    /\ ctx # "cancelled"
    /\ IngestBatch(events.len)
    /\ flusher' = "repush" /\ next' = 1
    /\ UNCHANGED <<bufVars, events, sourceVars, ctx, faults, stopping, captured, evicted, lifeVars>>

\* 2xx: all events are committed and the answer arrives.
PostSucceeds ==
    /\ Posting /\ ~Refused
    /\ ctx # "cancelled"
    /\ IngestBatch(events.len)
    /\ flusher' = AfterFlush
    /\ UNCHANGED <<bufVars, events, sourceVars, next, ctx, faults, stopping,
                   captured, evicted, lifeVars>>

\* Mutant of PostFails: the error is logged and the batch forgotten.
PostFailsWithoutRepush(k) ==
    /\ Posting /\ ~Refused
    /\ ctx # "cancelled" /\ faults < MaxFaults
    /\ k \in 0..events.len
    /\ IngestBatch(k)
    /\ flusher' = AfterFlush
    /\ faults' = faults + 1
    /\ UNCHANGED <<bufVars, events, sourceVars, next, ctx, stopping, captured, evicted, lifeVars>>

\* A failure Flush cannot tell from any other: no connection (k = 0), the
\* database fails on event k+1, the client's timeout cuts the request off, or
\* the answer to a fully ingested batch is lost.  The batch goes back to the
\* buffer.
PostFails(k) ==
    /\ Posting /\ ~Refused
    /\ ctx # "cancelled" /\ faults < MaxFaults
    /\ k \in 0..events.len
    /\ IngestBatch(k)
    /\ flusher' = "repush" /\ next' = 1
    /\ faults' = faults + 1
    /\ UNCHANGED <<bufVars, events, sourceVars, ctx, stopping, captured, evicted, lifeVars>>

\* The context is cancelled before the request leaves the agent: Do returns
\* its error.  Not a fault of the network, and not bounded.
PostCancelled ==
    /\ Posting /\ stopping /\ ctx # "final"
    /\ flusher' = "repush" /\ next' = 1
    /\ UNCHANGED <<bufVars, events, sourceVars, ctx, faults, stopping, ingested,
                   captured, evicted, lifeVars>>

\* The server answers 400 or 413: same handling, nothing ingested.
PostRefused ==
    /\ Posting /\ Refused /\ ctx # "cancelled"
    /\ flusher' = "repush" /\ next' = 1
    /\ UNCHANGED <<bufVars, events, sourceVars, ctx, faults, stopping, ingested,
                   captured, evicted, lifeVars>>

\* 401: refresh the credentials, then post once more with the new key; a
\* second 401 or a failed refresh is a failure like any other.
PostUnauthorized ==
    /\ Posting /\ ctx # "cancelled" /\ faults < MaxFaults
    /\ faults' = faults + 1
    /\ \/ flusher = "post" /\ flusher' = "postAgain" /\ UNCHANGED next
       \/ flusher' = "repush" /\ next' = 1
    /\ UNCHANGED <<bufVars, events, sourceVars, ctx, stopping, ingested, captured,
                   evicted, lifeVars>>

\* One turn of the re-push loop; the producers run between two turns.
Repush ==
    /\ flusher = "repush"
    /\ Push(events.entries[next])
    /\ next' = IF next = events.len THEN 0 ELSE next + 1
    /\ flusher' = IF next = events.len THEN AfterFlush ELSE "repush"
    /\ UNCHANGED <<sourceVars, ctx, faults, stopping, ingested, captured, lifeVars>>

\* SIGINT or SIGTERM cancels the context all loops watch.
Cancel ==
    /\ ~stopping
    /\ stopping' = TRUE
    /\ UNCHANGED <<bufVars, events, sourceVars, flushVars, ingested, captured, evicted, lifeVars>>
-----------------------------------------------------------------------------
(* The end of the process, and a new one *)

Buffered == {entries[i] : i \in 1..len}

\* The events of the drained batch that Flush has neither delivered nor
\* pushed back yet.
InFlight ==
    CASE Posting -> {events.entries[i] : i \in 1..events.len}
      [] flusher = "repush" -> {events.entries[i] : i \in next..events.len}
      [] OTHER -> {}

\* The agent is killed, crashes, or has made its final flush, and starts again.
\* The server may have committed a first part of a batch that was being posted;
\* entries written to the log file before the start are not read.
Restart(k) ==
    /\ restarts < MaxRestarts
    /\ k \in IF Posting /\ ~Refused /\ ctx # "cancelled" THEN 0..events.len ELSE {0}
    /\ IngestBatch(k)
    /\ restarts' = restarts + 1
    /\ discarded' = discarded \cup Buffered \cup InFlight
    /\ len' = 0 /\ entries' = Buf!NoEntries
    /\ events' = [len |-> 0, entries |-> Buf!NoEntries]
    /\ lastLogID' = 0 /\ records' = {} /\ late' = {}
    /\ unread' \in SUBSET unread
    /\ flusher' = "idle" /\ next' = 0 /\ stopping' = FALSE /\ ctx' = "live"
    /\ UNCHANGED <<rows, faults, captured, evicted>>
-----------------------------------------------------------------------------
CollectorStep == Poll \/ \E id \in LogId : HandleRecord(id)

PostStep ==
    \/ PostSucceeds
    \/ \E k \in 0..Capacity : PostFails(k)
    \/ PostCancelled
    \/ PostRefused
    \/ PostUnauthorized

Next ==
    \/ \E id \in LogId : CommitRow(id)
    \/ CollectorStep
    \/ \E e \in TailEvent : HandleEntry(e)
    \/ \E last \in BOOLEAN : Flush(last)
    \/ PostStep
    \/ Repush
    \/ Cancel
    \/ \E k \in 0..Capacity : Restart(k)

Spec == Init /\ [][Next]_vars

\* The Go scheduler runs the collector and the flusher; the flusher's ticker
\* keeps firing and every POST returns (15 s client timeout).  Odoo, the log
\* file and the operator owe nothing.  Failures are finite (MaxFaults).
FairSpec ==
    /\ Spec
    /\ WF_vars(CollectorStep)
    /\ WF_vars(Flush(FALSE))
    /\ WF_vars(PostStep)
    /\ WF_vars(Repush)
-----------------------------------------------------------------------------
(* Properties *)

\* Conservation: an event that entered the buffer is still in the buffer, in
\* the batch the flusher holds, committed on the server, was overwritten in a
\* full buffer, or was held when the process ended.  No interleaving of the
\* producers with Flush's drain, POST and re-push loses one silently, and none
\* holds one twice: re-pushing a failed batch puts no second copy beside one
\* that is buffered, and while the agent lives the cursor keeps the collector
\* from fetching a row again.
NothingLostSilently ==
    /\ captured \subseteq
         Buffered \cup InFlight \cup {e \in Event : ingested[e] > 0} \cup evicted \cup discarded
    /\ \A i, j \in 1..len : entries[i] = entries[j] => i = j
    /\ Buffered \cap InFlight = {}

\* The captures of one error that the server has counted.
Counted(error) == {e \in Event : e.error = error /\ ingested[e] > 0}

\* The server counts an error again only for a reason that can be named: a
\* capture is counted once and once more for each POST whose outcome the agent
\* could not see, and an error is captured once from the log file and, because
\* lastLogID starts at 0 with the process, once from ir.logging in each life of
\* the agent (collector.go poll, main.go startErrorPipeline, startLogTailer).
CountedAgainOnlyForAReason ==
    /\ \A e \in Event : ingested[e] <= 1 + faults
    /\ \A error \in LogId \cup TailEvent :
         Cardinality(Counted(error)) <= (IF error \in LogId THEN 1 + restarts ELSE 0)
                                          + (IF error \in TailEvent THEN 1 ELSE 0)

\* The cursor skips nothing: since the agent's start a row at or below
\* lastLogID has been handled, unless it became visible only after a higher id
\* had been read.  Pages of PollLimit rows therefore leave no gap.
CursorSkipsNothing ==
    \A id \in rows :
        id <= lastLogID => RowIn(id, restarts) \in captured \/ id \in EmptyRow \cup late

\* A captured event reaches the server through any finite number of failures,
\* unless it is overwritten in a full buffer, the agent is shut down or killed,
\* or the event sits in a batch too large for the server: such a batch is
\* refused, pushed back and posted again in one piece on every tick.
DeliveredUnlessOversize ==
    \A e \in Event :
        e \in captured ~> \/ ingested[e] > 0
                          \/ e \in evicted \cup discarded
                          \/ stopping
                          \/ Refused /\ e \in InFlight
=============================================================================
