------------------------ MODULE ErrorPipeline_proofs ------------------------
(***************************************************************************)
(* Proofs about the agent's error pipeline, for every buffer capacity, page*)
(* size, body limit, number of rows, failed POSTs and restarts.  The       *)
(* inductive invariant PipeInv says where an event may be: an event is held*)
(* at most once by the buffer and the flusher together, only what a source *)
(* delivered is held, a row is captured once in each life of the agent, and*)
(* the cursor splits the visible rows into handled, pending and late ones. *)
(*                                                                         *)
(* The second part is about the log tailers that feed the pipeline, for    *)
(* any number of entries, rotations and restarts.  TailInv says where an   *)
(* entry may be: handed on, being put together, or still in the file, in   *)
(* that order, and with its own text unless it is one of the doubtful.     *)
(***************************************************************************)
EXTENDS ErrorPipeline, LogTailer, FiniteSetTheorems, WellFoundedInduction, TLAPS

QueueOK ==
    /\ len \in 0..Capacity
    /\ entries \in [1..len -> Event]

BatchOK ==
    /\ events.len \in 0..Capacity
    /\ events.entries \in [1..events.len -> Event]
    /\ Posting => events.len # 0
    /\ flusher = "repush" => next \in 1..events.len

CountsOK ==
    /\ ingested \in [Event -> Nat]
    /\ faults \in Nat
    /\ restarts \in 0..MaxRestarts

SourcesOK ==
    /\ rows \subseteq LogId /\ records \subseteq LogId
    /\ lastLogID \in 0..MaxLogId
    /\ unread \subseteq TailEvent
    /\ captured \subseteq Event

\* The events of the buffer are distinct, and so are those of the batch that
\* the flusher still has to deliver or to push back.
Distinct ==
    /\ \A i, j \in 1..len : entries[i] = entries[j] => i = j
    /\ Posting \/ flusher = "repush" =>
         \A i, j \in 1..events.len : events.entries[i] = events.entries[j] => i = j

\* The buffer and the flusher hold only events a source delivered, and no
\* event both.
HeldApart ==
    /\ Buffered \cup InFlight \subseteq captured
    /\ Buffered \cap InFlight = {}

\* What a source has delivered it does not deliver again.
SourcesFresh ==
    /\ \A e \in unread : FileEntry(e) \notin captured
    /\ \A id \in LogId : RowIn(id, restarts) \in captured => id <= lastLogID
    /\ \A e \in captured : e.life <= restarts
    /\ \A r \in records : r > lastLogID

Conserved ==
    captured \subseteq
        Buffered \cup InFlight \cup {e \in Event : ingested[e] > 0} \cup evicted \cup discarded

\* An event that is still held has been committed at most once by each failed
\* POST; one that has left the agent may have had its successful POST too.
CommitsBounded ==
    \A e \in Event :
        /\ e \notin captured => ingested[e] = 0
        /\ e \in Buffered \cup InFlight => ingested[e] <= faults
        /\ ingested[e] <= 1 + faults

\* Below the cursor, and below any row of the fetched page, every visible row
\* is handled, pending in the page, or late.
CursorOK ==
    /\ CursorSkipsNothing
    /\ \A r \in records : \A id \in rows :
         id < r => RowIn(id, restarts) \in captured \/ id \in records \cup EmptyRow \cup late

PipeInv ==
    /\ QueueOK /\ BatchOK /\ CountsOK /\ SourcesOK
    /\ Distinct /\ HeldApart /\ SourcesFresh
    /\ Conserved /\ CommitsBounded /\ CursorOK
-----------------------------------------------------------------------------
(* Operators of the model *)

\* What Push of an event the buffer does not hold leaves behind: the event is
\* held once, and an old one is lost only to evicted.
LEMMA PushFacts ==
    ASSUME QueueOK, NEW e \in Event, e \notin Buffered, Push(e),
           \A i, j \in 1..len : entries[i] = entries[j] => i = j
    PROVE  /\ len' \in 0..Capacity /\ entries' \in [1..len' -> Event]
           /\ events' = events
           /\ \A i, j \in 1..len' : entries'[i] = entries'[j] => i = j
           /\ Buffered' \subseteq Buffered \cup {e}
           /\ e \in Buffered'
           /\ Buffered \subseteq Buffered' \cup evicted'
           /\ evicted \subseteq evicted'
<1> USE PipelineAssumption DEF QueueOK
<1>1. CASE Buf!AppendEntry(e)
  <2>1. /\ len < Capacity /\ len' = len + 1 /\ events' = events
        /\ entries' = [i \in 1..(len + 1) |-> IF i = len + 1 THEN e ELSE entries[i]]
        /\ evicted' = evicted
    BY <1>1 DEF Buf!AppendEntry, Push
  <2>2. /\ entries'[len + 1] = e
        /\ \A i \in 1..len : entries'[i] = entries[i] /\ entries[i] # e
    BY <2>1 DEF Buffered
  <2>3. len' \in 0..Capacity /\ entries' \in [1..len' -> Event]
    BY <2>1
  <2>5. \A i \in 1..len' : i \in 1..len \/ i = len + 1
    BY <2>1
  <2>4. \A i, j \in 1..len' : entries'[i] = entries'[j] => i = j
    BY <2>2, <2>5
  <2>6. Buffered' \subseteq Buffered \cup {e}
    BY <2>2, <2>5 DEF Buffered
  <2>7. e \in Buffered' /\ Buffered \subseteq Buffered'
    BY <2>1, <2>2 DEF Buffered
  <2> QED BY <2>1, <2>3, <2>4, <2>6, <2>7
<1>2. CASE Buf!DropOldestAndAppend(e)
  <2>1. /\ len = Capacity /\ len' = len /\ events' = events
        /\ entries' = [i \in 1..len |-> IF i = len THEN e ELSE entries[i + 1]]
        /\ evicted' = evicted \cup {entries[1]}
    BY <1>2 DEF Buf!DropOldestAndAppend, Push
  <2>2. /\ len \in 1..len /\ entries'[len] = e
        /\ \A i \in 1..(len - 1) :
             i + 1 \in 1..len /\ entries'[i] = entries[i + 1] /\ entries[i + 1] # e
    BY <2>1 DEF Buffered
  <2>3. len' \in 0..Capacity /\ entries' \in [1..len' -> Event]
    BY <2>1
  <2>4. \A i, j \in 1..len' : entries'[i] = entries'[j] => i = j
    <3> TAKE i, j \in 1..len'
    <3> HAVE entries'[i] = entries'[j]
    <3>1. i \in 1..len /\ j \in 1..len
      BY <2>1
    <3>2. (i = len \/ i \in 1..(len - 1)) /\ (j = len \/ j \in 1..(len - 1))
      BY <3>1
    <3>3. ~(i = len /\ j # len) /\ ~(j = len /\ i # len)
      BY <2>2, <3>2
    <3>4. CASE i \in 1..(len - 1) /\ j \in 1..(len - 1)
      <4>1. entries[i + 1] = entries[j + 1] /\ i + 1 \in 1..len /\ j + 1 \in 1..len
        BY <2>2, <3>4
      <4> QED BY <4>1, <3>1
    <3> QED BY <3>2, <3>3, <3>4
  <2>5. Buffered' \subseteq Buffered \cup {e}
    <3> SUFFICES ASSUME NEW i \in 1..len PROVE entries'[i] \in Buffered \cup {e}
      BY <2>1 DEF Buffered
    <3>1. i = len \/ i \in 1..(len - 1)
      OBVIOUS
    <3> QED BY <2>2, <3>1 DEF Buffered
  <2>6. e \in Buffered'
    BY <2>1, <2>2 DEF Buffered
  <2>7. Buffered \subseteq Buffered' \cup evicted'
    <3> SUFFICES ASSUME NEW i \in 1..len PROVE entries[i] \in Buffered' \cup evicted'
      BY DEF Buffered
    <3>1. i = 1 \/ (i - 1 \in 1..(len - 1) /\ (i - 1) + 1 = i)
      OBVIOUS
    <3>2. CASE i = 1
      BY <3>2, <2>1
    <3>3. CASE i - 1 \in 1..(len - 1) /\ (i - 1) + 1 = i
      <4>1. entries'[i - 1] = entries[i] /\ i - 1 \in 1..len'
        BY <3>3, <2>1, <2>2
      <4> QED BY <4>1 DEF Buffered
    <3> QED BY <3>1, <3>2, <3>3
  <2> QED BY <2>1, <2>3, <2>4, <2>5, <2>6, <2>7
<1> QED BY <1>1, <1>2 DEF Push, Buf!APush

\* The server counts an event of a batch of distinct events at most once, and
\* exactly once when it commits the whole batch.
LEMMA IngestFacts ==
    ASSUME BatchOK, CountsOK, NEW k \in 0..events.len, IngestBatch(k),
           \A i, j \in 1..events.len : events.entries[i] = events.entries[j] => i = j
    PROVE  /\ ingested' \in [Event -> Nat]
           /\ \A e \in Event :
                /\ ingested[e] <= ingested'[e] /\ ingested'[e] <= ingested[e] + 1
                /\ ingested'[e] # ingested[e] => \E i \in 1..events.len : events.entries[i] = e
                /\ (\E i \in 1..k : events.entries[i] = e) => ingested'[e] > 0
<1> USE PipelineAssumption DEF BatchOK, CountsOK
<1> DEFINE At(e) == {i \in 1..k : events.entries[i] = e}
<1>1. ASSUME NEW e \in Event
      PROVE  \/ At(e) = {} /\ Cardinality(At(e)) = 0
             \/ /\ Cardinality(At(e)) = 1
                /\ \E i \in 1..events.len : events.entries[i] = e
  <2>1. CASE At(e) = {}
    BY <2>1, FS_EmptySet
  <2>2. CASE At(e) # {}
    <3>1. PICK i \in 1..k : events.entries[i] = e
      BY <2>2
    <3>2. ASSUME NEW j \in At(e) PROVE j = i
      <4>1. i \in 1..events.len /\ j \in 1..events.len /\ events.entries[j] = e
        OBVIOUS
      <4> QED BY <3>1, <4>1
    <3>3. At(e) = {i} /\ i \in 1..events.len
      BY <3>1, <3>2
    <3> QED BY <3>1, <3>3, FS_Singleton
  <2> QED BY <2>1, <2>2
<1>2. \A e \in Event : Cardinality(At(e)) \in Nat
  BY <1>1
<1>3. ingested' = [e \in Event |-> ingested[e] + Cardinality(At(e))]
  BY DEF IngestBatch
<1>4. ingested' \in [Event -> Nat]
  <2> HIDE DEF At
  <2> QED BY <1>2, <1>3
<1>5. ASSUME NEW e \in Event
      PROVE  /\ ingested[e] <= ingested'[e] /\ ingested'[e] <= ingested[e] + 1
             /\ ingested'[e] # ingested[e] => \E i \in 1..events.len : events.entries[i] = e
             /\ (\E i \in 1..k : events.entries[i] = e) => ingested'[e] > 0
  <2>1. ingested'[e] = ingested[e] + Cardinality(At(e)) /\ ingested[e] \in Nat
    BY <1>3
  <2>2. (\E i \in 1..k : events.entries[i] = e) => At(e) # {}
    OBVIOUS
  <2> HIDE DEF At
  <2> QED BY <1>1, <2>1, <2>2
<1> QED BY <1>4, <1>5

\* A page of a search_read leaves no gap: with a row it holds every smaller
\* row of the domain.
LEMMA PageHasNoGap ==
    ASSUME NEW S \in SUBSET LogId, NEW r \in Page(S), NEW id \in S, id < r
    PROVE  id \in Page(S)
<1> USE PipelineAssumption DEF LogId
<1> DEFINE Below(x) == {y \in S : y < x}
<1>1. IsFiniteSet(Below(r))
  <2>1. IsFiniteSet(1..MaxLogId)
    BY FS_Interval
  <2> QED BY <2>1, FS_Subset
<1>2. Below(id) \subseteq Below(r)
  <2>1. r \in 1..MaxLogId /\ id \in 1..MaxLogId /\ S \subseteq 1..MaxLogId
    BY DEF Page
  <2>2. ASSUME NEW y \in S, y < id PROVE y < r
    <3>1. y \in Int /\ id \in Int /\ r \in Int
      BY <2>1
    <3> QED BY <2>2, <3>1
  <2> QED BY <2>2
<1>3. /\ Cardinality(Below(id)) <= Cardinality(Below(r))
      /\ Cardinality(Below(id)) \in Nat /\ Cardinality(Below(r)) \in Nat
  <2> HIDE DEF Below
  <2>1. IsFiniteSet(Below(id))
    BY <1>1, <1>2, FS_Subset
  <2> QED BY <1>1, <1>2, <2>1, FS_Subset, FS_CardinalityType
<1>4. Cardinality(Below(r)) < PollLimit
  BY DEF Page
<1>5. Cardinality(Below(id)) < PollLimit
  <2> HIDE DEF Below
  <2> QED BY <1>3, <1>4
<1> QED BY <1>5 DEF Page
-----------------------------------------------------------------------------
(* The parts of the state *)

\* Where Flush's batch counts as in flight.
LEMMA InFlightCases ==
    /\ Posting => InFlight = {events.entries[i] : i \in 1..events.len}
    /\ flusher = "repush" => InFlight = {events.entries[i] : i \in next..events.len}
    /\ ~Posting /\ flusher # "repush" => InFlight = {}
BY DEF InFlight, Posting

\* The flusher's steps do not disturb the collector and the tailer.
LEMMA SourcesFrame ==
    ASSUME PipeInv, UNCHANGED <<sourceVars, captured, restarts>>
    PROVE  SourcesOK' /\ SourcesFresh' /\ CursorOK'
BY DEF PipeInv, SourcesOK, SourcesFresh, CursorOK, CursorSkipsNothing, sourceVars

\* Nothing is lost, doubled or miscounted while the buffer, the batch and the
\* counts stand still.
LEMMA HeldFrame ==
    ASSUME PipeInv, UNCHANGED <<bufVars, events, flushVars, ingested, captured, evicted, lifeVars>>
    PROVE  /\ QueueOK' /\ BatchOK' /\ CountsOK' /\ Distinct'
           /\ HeldApart' /\ Conserved' /\ CommitsBounded'
<1>1. Buffered' = Buffered /\ InFlight' = InFlight /\ Posting' = Posting
  BY DEF Buffered, InFlight, Posting, bufVars, flushVars
<1> QED
  BY <1>1 DEF PipeInv, QueueOK, BatchOK, CountsOK, Distinct, HeldApart, Conserved,
              CommitsBounded, bufVars, flushVars, lifeVars

\* A source pushes an event that was never captured.
LEMMA NewEvent ==
    ASSUME PipeInv, NEW e \in Event, e \notin captured, Push(e),
           captured' = captured \cup {e}, UNCHANGED <<flushVars, ingested, lifeVars>>
    PROVE  /\ QueueOK' /\ BatchOK' /\ CountsOK' /\ Distinct'
           /\ HeldApart' /\ Conserved' /\ CommitsBounded'
<1> USE DEF PipeInv
<1>1. e \notin Buffered /\ e \notin InFlight
  BY DEF HeldApart
<1>2. /\ QueueOK' /\ events' = events
      /\ \A i, j \in 1..len' : entries'[i] = entries'[j] => i = j
      /\ Buffered' \subseteq Buffered \cup {e} /\ e \in Buffered'
      /\ Buffered \subseteq Buffered' \cup evicted' /\ evicted \subseteq evicted'
  BY <1>1, PushFacts DEF Distinct, QueueOK
<1>3. InFlight' = InFlight /\ Posting' = Posting /\ UNCHANGED <<flusher, next, faults>>
  BY <1>2 DEF InFlight, Posting, flushVars
<1>4. BatchOK'
  BY <1>2, <1>3 DEF BatchOK
<1>5. CountsOK'
  BY <1>3 DEF CountsOK, lifeVars
<1>6. Distinct'
  BY <1>2, <1>3 DEF Distinct
<1>7. HeldApart'
  BY <1>1, <1>2, <1>3 DEF HeldApart
<1>8. Conserved'
  BY <1>2, <1>3 DEF Conserved, lifeVars
<1>9. CommitsBounded'
  <2>1. ingested[e] <= faults
    BY DEF CommitsBounded, CountsOK
  <2> QED BY <2>1, <1>2, <1>3 DEF CommitsBounded
<1> QED BY <1>2, <1>4, <1>5, <1>6, <1>7, <1>8, <1>9

\* After any failure the whole batch is waiting to be pushed back.
LEMMA ToRepush ==
    ASSUME PipeInv, Posting, flusher' = "repush", next' = 1,
           UNCHANGED <<bufVars, events, captured>>
    PROVE  /\ QueueOK' /\ BatchOK' /\ Distinct' /\ HeldApart'
           /\ Buffered' = Buffered /\ InFlight' = InFlight
<1> USE DEF PipeInv
<1>1. Buffered' = Buffered /\ QueueOK'
  BY DEF Buffered, QueueOK, bufVars
<1>2. InFlight = {events.entries[i] : i \in 1..events.len}
  BY InFlightCases
<1>3. InFlight' = {events.entries[i] : i \in 1..events.len} /\ ~Posting'
  BY DEF InFlight, Posting
<1>4. BatchOK'
  BY <1>3 DEF BatchOK
<1>5. Distinct'
  BY DEF Distinct, bufVars
<1>6. HeldApart'
  BY <1>1, <1>2, <1>3 DEF HeldApart
<1> QED BY <1>1, <1>2, <1>3, <1>4, <1>5, <1>6
-----------------------------------------------------------------------------
(* Odoo, the collector and the tailer *)

\* A row that becomes visible below the cursor or below a fetched row is late.
LEMMA CommitRowStep ==
    ASSUME PipeInv, NEW id \in LogId, CommitRow(id)
    PROVE  PipeInv'
<1> USE DEF PipeInv
<1>1. /\ QueueOK' /\ BatchOK' /\ CountsOK' /\ Distinct'
      /\ HeldApart' /\ Conserved' /\ CommitsBounded'
  BY HeldFrame DEF CommitRow
<1>2. SourcesOK' /\ SourcesFresh'
  BY DEF CommitRow, SourcesOK, SourcesFresh, lifeVars
<1>3. CursorOK'
  BY DEF CommitRow, CursorOK, CursorSkipsNothing, lifeVars
<1> QED BY <1>1, <1>2, <1>3

\* The fetched page holds, with a row, every row of the domain below it.
LEMMA PollStep ==
    ASSUME PipeInv, Poll
    PROVE  PipeInv'
<1> USE DEF PipeInv
<1>1. /\ QueueOK' /\ BatchOK' /\ CountsOK' /\ Distinct'
      /\ HeldApart' /\ Conserved' /\ CommitsBounded'
  BY HeldFrame DEF Poll
<1>2. Domain \in SUBSET LogId /\ Page(Domain) \subseteq Domain
  BY DEF Domain, Page, SourcesOK
<1>3. SourcesOK'
  BY <1>2 DEF Poll, SourcesOK
<1>4. \A r \in Domain : r > lastLogID
  BY PipelineAssumption DEF Domain, SourcesOK, LogId
<1>5. SourcesFresh'
  BY <1>2, <1>4 DEF Poll, SourcesFresh, lifeVars
<1>6. CursorOK'
  <2>1. CursorSkipsNothing'
    BY DEF Poll, CursorOK, CursorSkipsNothing, lifeVars
  <2>2. ASSUME NEW r \in Page(Domain), NEW id \in rows, id < r
        PROVE  RowIn(id, restarts) \in captured \/ id \in Page(Domain) \cup EmptyRow \cup late
    <3>1. CASE id \in Domain
      BY <1>2, <2>2, <3>1, PageHasNoGap
    <3>2. CASE id \notin Domain
      <4>1. id <= lastLogID
        BY <3>2, PipelineAssumption DEF Domain, SourcesOK, LogId
      <4> QED BY <4>1 DEF CursorOK, CursorSkipsNothing
    <3> QED BY <3>1, <3>2
  <2> QED BY <2>1, <2>2 DEF CursorOK, Poll, lifeVars
<1> QED BY <1>1, <1>3, <1>5, <1>6

\* The cursor moves to the smallest row of the page, which is handled.
LEMMA HandleRecordStep ==
    ASSUME PipeInv, NEW id \in LogId, HandleRecord(id)
    PROVE  PipeInv'
<1> USE DEF PipeInv
<1> DEFINE ev == RowIn(id, restarts)
<1>0. /\ id \in records /\ \A r \in records : id <= r
      /\ records' = records \ {id}
      /\ UNCHANGED <<rows, unread, late, flushVars, ingested, lifeVars>>
      /\ restarts' = restarts
  BY DEF HandleRecord, lifeVars
<1>1. id > lastLogID /\ lastLogID' = id /\ ev \notin captured
  BY <1>0, PipelineAssumption DEF HandleRecord, SourcesFresh, SourcesOK, LogId
<1>2. \/ captured' = captured \cup {ev} /\ id \notin EmptyRow /\ Push(ev)
      \/ captured' = captured /\ id \in EmptyRow /\ UNCHANGED <<bufVars, events, evicted>>
  BY DEF HandleRecord
<1>9. /\ id \notin EmptyRow => ev \in Event
      /\ ev.life = restarts
      /\ \A x : x # id => RowIn(x, restarts) # ev
      /\ \A x : FileEntry(x) # ev
  BY DEF Event, CountsOK, RowIn, FileEntry
<1> HIDE DEF ev
<1>3. /\ QueueOK' /\ BatchOK' /\ CountsOK' /\ Distinct'
      /\ HeldApart' /\ Conserved' /\ CommitsBounded'
  <2>1. CASE captured' = captured \cup {ev} /\ id \notin EmptyRow /\ Push(ev)
    BY <1>0, <1>1, <1>9, <2>1, NewEvent
  <2>2. CASE captured' = captured /\ id \in EmptyRow /\ UNCHANGED <<bufVars, events, evicted>>
    BY <1>0, <2>2, HeldFrame
  <2> QED BY <1>2, <2>1, <2>2
<1>4. /\ ev \in captured' \/ id \in EmptyRow
      /\ captured \subseteq captured' /\ captured' \subseteq captured \cup {ev}
  BY <1>2
<1>5. SourcesOK'
  <2>1. captured' \subseteq Event
    BY <1>2, <1>9 DEF SourcesOK
  <2> QED BY <1>0, <1>1, <2>1 DEF SourcesOK, LogId
<1>6. SourcesFresh'
  <2>1. \A r \in records' : r > lastLogID'
    BY <1>0, <1>1, PipelineAssumption DEF SourcesOK, LogId
  <2>2. \A x \in LogId : RowIn(x, restarts) \in captured' => x <= lastLogID'
    <3> SUFFICES ASSUME NEW x \in LogId, RowIn(x, restarts) \in captured' PROVE x <= id
      BY <1>1
    <3>1. x = id \/ x <= lastLogID
      BY <1>4, <1>9 DEF SourcesFresh
    <3> QED BY <1>1, <3>1, PipelineAssumption DEF SourcesOK, LogId
  <2>3. \A e \in unread : FileEntry(e) \notin captured'
    BY <1>4, <1>9 DEF SourcesFresh
  <2>4. \A e \in captured' : e.life <= restarts
    BY <1>4, <1>9 DEF SourcesFresh, CountsOK
  <2> QED BY <1>0, <2>1, <2>2, <2>3, <2>4 DEF SourcesFresh
<1>7. CursorOK'
  <2>1. ASSUME NEW x \in rows, x <= id
        PROVE  RowIn(x, restarts) \in captured' \/ x \in EmptyRow \cup late
    <3>1. CASE x = id
      BY <3>1, <1>4 DEF ev
    <3>2. CASE x # id
      <4>1. x < id /\ x \notin records
        BY <3>2, <2>1, <1>0, PipelineAssumption DEF SourcesOK, LogId
      <4> QED BY <4>1, <1>0, <1>4 DEF CursorOK
    <3> QED BY <3>1, <3>2
  <2>2. CursorSkipsNothing'
    BY <2>1, <1>0, <1>1 DEF CursorSkipsNothing
  <2>3. ASSUME NEW r \in records', NEW x \in rows', x < r
        PROVE  RowIn(x, restarts) \in captured' \/ x \in records' \cup EmptyRow \cup late'
    <3>1. RowIn(x, restarts) \in captured \/ x \in records \cup EmptyRow \cup late
      BY <1>0, <2>3 DEF CursorOK
    <3>2. CASE x = id
      BY <3>2, <1>4 DEF ev
    <3> QED BY <3>1, <3>2, <1>0, <1>4
  <2> QED BY <1>0, <2>2, <2>3 DEF CursorOK
<1> QED BY <1>3, <1>5, <1>6, <1>7

\* The tailer captures an entry it has not read before.
LEMMA HandleEntryStep ==
    ASSUME PipeInv, NEW e \in TailEvent, HandleEntry(e)
    PROVE  PipeInv'
<1> USE DEF PipeInv
<1> DEFINE ev == FileEntry(e)
<1>0. /\ e \in unread /\ unread' = unread \ {e}
      /\ Push(ev) /\ captured' = captured \cup {ev}
      /\ UNCHANGED <<rows, lastLogID, records, late, flushVars, ingested, lifeVars>>
      /\ restarts' = restarts
  BY DEF HandleEntry, lifeVars
<1>1. /\ ev \in Event /\ ev \notin captured /\ ev.life = 0
      /\ \A x, n : RowIn(x, n) # ev
      /\ \A x : x # e => FileEntry(x) # ev
  BY <1>0 DEF SourcesFresh, Event, RowIn, FileEntry
<1> HIDE DEF ev
<1>2. /\ QueueOK' /\ BatchOK' /\ CountsOK' /\ Distinct'
      /\ HeldApart' /\ Conserved' /\ CommitsBounded'
  BY <1>0, <1>1, NewEvent
<1>3. SourcesOK' /\ SourcesFresh'
  <2>1. SourcesOK'
    BY <1>0, <1>1 DEF SourcesOK
  <2>2. \A x \in unread' : FileEntry(x) \notin captured'
    BY <1>0, <1>1 DEF SourcesFresh
  <2>3. \A x \in captured' : x.life <= restarts
    BY <1>0, <1>1 DEF SourcesFresh, CountsOK
  <2>4. \A id \in LogId : RowIn(id, restarts) \in captured' => id <= lastLogID
    BY <1>0, <1>1 DEF SourcesFresh
  <2>5. \A r \in records' : r > lastLogID'
    BY <1>0 DEF SourcesFresh
  <2> QED BY <1>0, <2>1, <2>2, <2>3, <2>4, <2>5 DEF SourcesFresh
<1>4. CursorOK'
  BY <1>0 DEF CursorOK, CursorSkipsNothing
<1> QED BY <1>2, <1>3, <1>4
-----------------------------------------------------------------------------
(* The flusher *)

\* Draining moves the buffer's events into the batch.
LEMMA FlushStep ==
    ASSUME PipeInv, NEW last \in BOOLEAN, Flush(last)
    PROVE  PipeInv'
<1> USE PipelineAssumption DEF PipeInv
<1>0. SourcesOK' /\ SourcesFresh' /\ CursorOK'
  BY SourcesFrame DEF Flush, lifeVars
<1>1. /\ flusher = "idle" /\ len' = 0 /\ entries' = Buf!NoEntries
      /\ events' = [len |-> len, entries |-> entries]
      /\ UNCHANGED <<next, faults, ingested, captured, evicted, restarts, discarded>>
  BY DEF Flush, Buf!ADrainAll, lifeVars
<1>2. events'.len = len /\ events'.entries = entries
  BY <1>1
<1>3. \/ len = 0 /\ flusher' \in {"idle", "stopped"}
      \/ len # 0 /\ flusher' = "post"
  BY DEF Flush
<1>4. QueueOK'
  BY <1>1 DEF QueueOK, Buf!NoEntries
<1>5. InFlight = {} /\ Buffered' = {}
  BY <1>1, InFlightCases DEF Posting, Buffered
<1>6. InFlight' = Buffered
  <2>1. CASE len = 0 /\ flusher' \in {"idle", "stopped"}
    <3>1. InFlight' = {}
      BY <2>1, InFlightCases DEF InFlight, Posting
    <3>2. Buffered = {}
      BY <2>1 DEF Buffered
    <3> QED BY <3>1, <3>2
  <2>2. CASE len # 0 /\ flusher' = "post"
    BY <2>2, <1>2 DEF InFlight, Posting, Buffered
  <2> QED BY <1>3, <2>1, <2>2
<1>7. BatchOK'
  <2>1. events'.len \in 0..Capacity /\ events'.entries \in [1..events'.len -> Event]
    BY <1>2 DEF QueueOK
  <2>2. (Posting' => events'.len # 0) /\ flusher' # "repush"
    BY <1>2, <1>3 DEF Posting
  <2> QED BY <2>1, <2>2 DEF BatchOK
<1>8. CountsOK'
  BY <1>1 DEF CountsOK
<1>9. Distinct'
  <2>1. \A i, j \in 1..events'.len : events'.entries[i] = events'.entries[j] => i = j
    BY <1>2 DEF Distinct
  <2>2. \A i, j \in 1..len' : entries'[i] = entries'[j] => i = j
    BY <1>1
  <2> QED BY <2>1, <2>2 DEF Distinct
<1>10. HeldApart'
  BY <1>1, <1>5, <1>6 DEF HeldApart
<1>11. Conserved'
  BY <1>1, <1>5, <1>6 DEF Conserved
<1>12. CommitsBounded'
  BY <1>1, <1>5, <1>6 DEF CommitsBounded
<1> QED BY <1>0, <1>4, <1>7, <1>8, <1>9, <1>10, <1>11, <1>12

\* A successful POST delivers every event of the batch, each counted once more.
LEMMA PostSucceedsStep ==
    ASSUME PipeInv, PostSucceeds
    PROVE  PipeInv'
<1> USE PipelineAssumption DEF PipeInv
<1>0. SourcesOK' /\ SourcesFresh' /\ CursorOK'
  BY SourcesFrame DEF PostSucceeds, lifeVars
<1>1. /\ Posting /\ IngestBatch(events.len)
      /\ flusher' \in {"idle", "stopped"}
      /\ UNCHANGED <<len, entries, events, faults, captured, evicted, restarts, discarded>>
  BY DEF PostSucceeds, AfterFlush, bufVars, lifeVars
<1>2. /\ InFlight = {events.entries[i] : i \in 1..events.len}
      /\ InFlight' = {} /\ Buffered' = Buffered
      /\ ~Posting' /\ flusher' # "repush"
  BY <1>1, InFlightCases DEF InFlight, Posting, Buffered
<1>3. /\ ingested' \in [Event -> Nat]
      /\ \A e \in Event :
           /\ ingested[e] <= ingested'[e] /\ ingested'[e] <= ingested[e] + 1
           /\ ingested'[e] # ingested[e] => \E i \in 1..events.len : events.entries[i] = e
           /\ (\E i \in 1..events.len : events.entries[i] = e) => ingested'[e] > 0
  <2>1. events.len \in 0..events.len
    BY DEF BatchOK
  <2> QED BY <1>1, <2>1, IngestFacts DEF Distinct
<1>4. QueueOK' /\ BatchOK' /\ CountsOK' /\ Distinct'
  BY <1>1, <1>2, <1>3 DEF QueueOK, BatchOK, CountsOK, Distinct
<1>5. HeldApart'
  BY <1>1, <1>2 DEF HeldApart
<1>6. Conserved'
  <2>1. ASSUME NEW e \in captured
        PROVE  e \in Buffered \cup {x \in Event : ingested'[x] > 0} \cup evicted \cup discarded
    <3>1. e \in Event
      BY DEF SourcesOK
    <3>2. CASE e \in InFlight
      BY <3>1, <3>2, <1>2, <1>3
    <3>3. CASE ingested[e] > 0
      BY <3>1, <3>3, <1>3 DEF CountsOK
    <3> QED BY <3>1, <3>2, <3>3 DEF Conserved
  <2> QED BY <2>1, <1>1, <1>2 DEF Conserved
<1>7. CommitsBounded'
  <2> SUFFICES ASSUME NEW e \in Event
               PROVE  /\ e \notin captured => ingested'[e] = 0
                      /\ e \in Buffered => ingested'[e] <= faults
                      /\ ingested'[e] <= 1 + faults
    BY <1>1, <1>2 DEF CommitsBounded
  <2>1. /\ e \notin captured => ingested[e] = 0
        /\ e \in Buffered \cup InFlight => ingested[e] <= faults
        /\ ingested[e] <= 1 + faults
    BY DEF CommitsBounded
  <2>2. e \in InFlight => e \in captured /\ e \notin Buffered
    BY DEF HeldApart
  <2>3. e \notin InFlight => ingested'[e] = ingested[e]
    BY <1>2, <1>3
  <2>4. /\ ingested'[e] <= ingested[e] + 1 /\ faults \in Nat
        /\ ingested[e] \in Nat /\ ingested'[e] \in Nat
    BY <1>3 DEF CountsOK
  <2> QED BY <2>1, <2>2, <2>3, <2>4
<1> QED BY <1>0, <1>4, <1>5, <1>6, <1>7

\* A failed POST may have committed any first part of the batch; the count of
\* failures grows with the counts of the events.
LEMMA PostFailsStep ==
    ASSUME PipeInv, NEW k \in 0..Capacity, PostFails(k)
    PROVE  PipeInv'
<1> USE PipelineAssumption DEF PipeInv
<1>0. SourcesOK' /\ SourcesFresh' /\ CursorOK'
  BY SourcesFrame DEF PostFails, lifeVars
<1>1. /\ Posting /\ IngestBatch(k) /\ k \in 0..events.len
      /\ flusher' = "repush" /\ next' = 1 /\ faults' = faults + 1
      /\ UNCHANGED <<bufVars, events, captured, evicted, restarts, discarded>>
  BY DEF PostFails, lifeVars
<1>2. /\ QueueOK' /\ BatchOK' /\ Distinct' /\ HeldApart'
      /\ Buffered' = Buffered /\ InFlight' = InFlight
  BY <1>1, ToRepush
<1>3. InFlight = {events.entries[i] : i \in 1..events.len}
  BY <1>1, InFlightCases
<1>4. /\ ingested' \in [Event -> Nat]
      /\ \A e \in Event :
           /\ ingested[e] <= ingested'[e] /\ ingested'[e] <= ingested[e] + 1
           /\ ingested'[e] # ingested[e] => \E i \in 1..events.len : events.entries[i] = e
  BY <1>1, IngestFacts DEF Distinct
<1>5. CountsOK'
  BY <1>1, <1>4 DEF CountsOK
<1>6. Conserved'
  <2>1. \A e \in Event : ingested[e] > 0 => ingested'[e] > 0
    BY <1>4 DEF CountsOK
  <2> QED BY <2>1, <1>1, <1>2 DEF Conserved
<1>7. CommitsBounded'
  <2> SUFFICES ASSUME NEW e \in Event
               PROVE  /\ e \notin captured => ingested'[e] = 0
                      /\ e \in Buffered \cup InFlight => ingested'[e] <= faults + 1
                      /\ ingested'[e] <= 1 + (faults + 1)
    BY <1>1, <1>2 DEF CommitsBounded
  <2>1. /\ e \notin captured => ingested[e] = 0
        /\ e \in Buffered \cup InFlight => ingested[e] <= faults
        /\ ingested[e] <= 1 + faults
    BY DEF CommitsBounded
  <2>2. e \in InFlight => e \in captured
    BY DEF HeldApart
  <2>3. e \notin InFlight => ingested'[e] = ingested[e]
    BY <1>3, <1>4
  <2>4. /\ ingested'[e] <= ingested[e] + 1 /\ faults \in Nat
        /\ ingested[e] \in Nat /\ ingested'[e] \in Nat
    BY <1>4 DEF CountsOK
  <2> QED BY <2>1, <2>2, <2>3, <2>4
<1> QED BY <1>0, <1>2, <1>5, <1>6, <1>7

\* A POST that commits nothing sends the batch back as it was.
LEMMA PostWithoutCommitStep ==
    ASSUME PipeInv, PostCancelled \/ PostRefused \/ PostUnauthorized
    PROVE  PipeInv'
<1> USE DEF PipeInv
<1>0. SourcesOK' /\ SourcesFresh' /\ CursorOK'
  BY SourcesFrame DEF PostCancelled, PostRefused, PostUnauthorized, lifeVars
<1>1. /\ Posting /\ faults' \in {faults, faults + 1}
      /\ UNCHANGED <<bufVars, events, ingested, captured, evicted, restarts, discarded>>
      /\ \/ flusher' = "repush" /\ next' = 1
         \/ flusher' = "postAgain" /\ next' = next
  BY DEF PostCancelled, PostRefused, PostUnauthorized, lifeVars
<1>2. /\ QueueOK' /\ BatchOK' /\ Distinct' /\ HeldApart'
      /\ Buffered' = Buffered /\ InFlight' = InFlight
  <2>1. CASE flusher' = "repush" /\ next' = 1
    BY <1>1, <2>1, ToRepush
  <2>2. CASE flusher' = "postAgain" /\ next' = next
    <3>1. Posting' /\ InFlight' = InFlight /\ Buffered' = Buffered
      BY <1>1, <2>2, InFlightCases DEF InFlight, Posting, Buffered, bufVars
    <3> QED BY <1>1, <2>2, <3>1 DEF QueueOK, BatchOK, Distinct, HeldApart, bufVars
  <2> QED BY <1>1, <2>1, <2>2
<1>3. CountsOK' /\ faults <= faults'
  BY <1>1 DEF CountsOK
<1>4. Conserved'
  BY <1>1, <1>2 DEF Conserved
<1>5. CommitsBounded'
  <2>1. faults \in Nat /\ faults' \in Nat /\ \A e \in Event : ingested[e] \in Nat
    BY <1>3 DEF CountsOK
  <2> QED BY <2>1, <1>1, <1>2, <1>3 DEF CommitsBounded
<1> QED BY <1>0, <1>2, <1>3, <1>4, <1>5

\* One turn of the re-push loop moves the next event back to the buffer.
LEMMA RepushStep ==
    ASSUME PipeInv, Repush
    PROVE  PipeInv'
<1> USE PipelineAssumption DEF PipeInv
<1>0. SourcesOK' /\ SourcesFresh' /\ CursorOK'
  BY SourcesFrame DEF Repush, lifeVars
<1>1. /\ flusher = "repush" /\ Push(events.entries[next])
      /\ UNCHANGED <<faults, ingested, captured, restarts, discarded>>
      /\ \/ next = events.len /\ flusher' \in {"idle", "stopped"}
         \/ next # events.len /\ flusher' = "repush" /\ next' = next + 1
  BY DEF Repush, AfterFlush, lifeVars
<1>2. next \in 1..events.len /\ events.len \in Nat
  BY <1>1 DEF BatchOK
<1>3. PICK e \in Event : e = events.entries[next]
  BY <1>2 DEF BatchOK
<1>4. /\ InFlight = {events.entries[i] : i \in next..events.len}
      /\ e \in InFlight /\ e \notin Buffered /\ Push(e)
  BY <1>1, <1>2, <1>3, InFlightCases DEF HeldApart
<1>5. /\ QueueOK' /\ events' = events
      /\ \A i, j \in 1..len' : entries'[i] = entries'[j] => i = j
      /\ Buffered' \subseteq Buffered \cup {e} /\ e \in Buffered'
      /\ Buffered \subseteq Buffered' \cup evicted' /\ evicted \subseteq evicted'
  BY <1>4, PushFacts DEF Distinct, QueueOK
<1>6. InFlight' = {events.entries[i] : i \in (next + 1)..events.len}
  <2>1. CASE next = events.len /\ flusher' \in {"idle", "stopped"}
    <3>1. InFlight' = {}
      BY <2>1 DEF InFlight, Posting
    <3>2. (next + 1)..events.len = {}
      BY <2>1, <1>2
    <3> QED BY <3>1, <3>2
  <2>2. CASE next # events.len /\ flusher' = "repush" /\ next' = next + 1
    BY <2>2, <1>5 DEF InFlight, Posting
  <2> QED BY <1>1, <2>1, <2>2
<1>7. InFlight = InFlight' \cup {e} /\ e \notin InFlight'
  <2>1. \A i \in next..events.len : i = next \/ i \in (next + 1)..events.len
    BY <1>2
  <2>2. \A i \in (next + 1)..events.len :
          i \in next..events.len /\ i \in 1..events.len /\ i # next
    BY <1>2
  <2>3. \A i \in (next + 1)..events.len : events.entries[i] # e
    BY <2>2, <1>1, <1>2, <1>3 DEF Distinct
  <2>4. next \in next..events.len
    BY <1>2
  <2> QED BY <1>3, <1>4, <1>6, <2>1, <2>2, <2>3, <2>4
<1>8. BatchOK' /\ CountsOK'
  <2>1. flusher' = "repush" => next' \in 1..events.len
    BY <1>1, <1>2
  <2>2. ~Posting'
    BY <1>1 DEF Posting
  <2> QED BY <1>1, <1>5, <2>1, <2>2 DEF BatchOK, CountsOK
<1>9. Distinct'
  BY <1>1, <1>5 DEF Distinct
<1>10. HeldApart'
  BY <1>1, <1>5, <1>7 DEF HeldApart
<1>11. Conserved'
  BY <1>1, <1>5, <1>7 DEF Conserved
<1>12. CommitsBounded'
  BY <1>1, <1>5, <1>7 DEF CommitsBounded
<1> QED BY <1>0, <1>5, <1>8, <1>9, <1>10, <1>11, <1>12
-----------------------------------------------------------------------------
(* A restart *)

\* The new process holds nothing and has read nothing; what the old one held is
\* lost, or committed once more than before.
LEMMA RestartStep ==
    ASSUME PipeInv, NEW k \in 0..Capacity, Restart(k)
    PROVE  PipeInv'
<1> USE PipelineAssumption DEF PipeInv
<1>0. /\ restarts < MaxRestarts /\ restarts' = restarts + 1 /\ IngestBatch(k)
      /\ k = 0 \/ (Posting /\ k \in 0..events.len)
      /\ discarded' = discarded \cup Buffered \cup InFlight
      /\ len' = 0 /\ entries' = Buf!NoEntries
      /\ events' = [len |-> 0, entries |-> Buf!NoEntries]
      /\ lastLogID' = 0 /\ records' = {} /\ late' = {}
      /\ unread' \subseteq unread /\ flusher' = "idle"
      /\ UNCHANGED <<rows, faults, captured, evicted>>
  BY DEF Restart
<1>1. /\ events'.len = 0 /\ events'.entries = Buf!NoEntries /\ ~Posting'
      /\ Buffered' = {} /\ InFlight' = {}
  BY <1>0 DEF Posting, Buffered, InFlight
<1>2. QueueOK' /\ BatchOK' /\ Distinct' /\ HeldApart'
  BY <1>0, <1>1 DEF QueueOK, BatchOK, Distinct, HeldApart, Buf!NoEntries
<1>3. /\ ingested' \in [Event -> Nat]
      /\ \A e \in Event :
           /\ ingested[e] <= ingested'[e] /\ ingested'[e] <= ingested[e] + 1
           /\ ingested'[e] # ingested[e] => e \in InFlight
  <2>1. CASE Posting /\ k \in 0..events.len
    <3>1. InFlight = {events.entries[i] : i \in 1..events.len}
      BY <2>1, InFlightCases
    <3> QED BY <1>0, <2>1, <3>1, IngestFacts DEF Distinct
  <2>2. CASE k = 0
    <3>1. \A e \in Event : {i \in 1..k : events.entries[i] = e} = {}
      BY <2>2
    <3>2. Cardinality({}) = 0
      BY FS_EmptySet
    <3>3. ingested' = [e \in Event |-> ingested[e]]
      <4>1. ASSUME NEW e \in Event
            PROVE  ingested[e] + Cardinality({i \in 1..k : events.entries[i] = e}) = ingested[e]
        BY <3>1, <3>2 DEF CountsOK
      <4> QED BY <1>0, <4>1 DEF IngestBatch
    <3> QED BY <3>3 DEF CountsOK
  <2> QED BY <1>0, <2>1, <2>2
<1>4. CountsOK'
  BY <1>0, <1>3 DEF CountsOK
<1>5. SourcesOK'
  BY <1>0 DEF SourcesOK
<1>6. SourcesFresh'
  <2>1. \A id : RowIn(id, restarts + 1).life = restarts + 1
    BY DEF RowIn
  <2>2. restarts \in Nat /\ \A e \in captured : e.life <= restarts
    BY DEF CountsOK, SourcesFresh
  <2>3. \A id \in LogId : RowIn(id, restarts + 1) \notin captured
    BY <2>1, <2>2
  <2>4. \A e \in captured : e.life <= restarts + 1
    <3>1. ASSUME NEW e \in captured PROVE e.life \in Int
      <4>1. e \in Event
        BY DEF SourcesOK
      <4> QED BY <4>1 DEF Event, RowIn, FileEntry
    <3> QED BY <2>2, <3>1
  <2> QED BY <1>0, <2>3, <2>4 DEF SourcesFresh
<1>7. Conserved'
  <2>1. \A e \in Event : ingested[e] > 0 => ingested'[e] > 0
    BY <1>3 DEF CountsOK
  <2> QED BY <1>0, <1>1, <2>1 DEF Conserved
<1>8. CommitsBounded'
  <2> SUFFICES ASSUME NEW e \in Event
               PROVE  /\ e \notin captured => ingested'[e] = 0
                      /\ ingested'[e] <= 1 + faults
    BY <1>0, <1>1 DEF CommitsBounded
  <2>1. /\ e \notin captured => ingested[e] = 0
        /\ e \in Buffered \cup InFlight => ingested[e] <= faults
        /\ ingested[e] <= 1 + faults
    BY DEF CommitsBounded
  <2>2. e \in InFlight => e \in captured
    BY DEF HeldApart
  <2>3. e \notin InFlight => ingested'[e] = ingested[e]
    BY <1>3
  <2>4. /\ ingested'[e] <= ingested[e] + 1 /\ faults \in Nat
        /\ ingested[e] \in Nat /\ ingested'[e] \in Nat
    BY <1>3 DEF CountsOK
  <2> QED BY <2>1, <2>2, <2>3, <2>4
<1>9. CursorOK'
  <2>1. \A id \in rows : ~(id <= 0)
    BY DEF SourcesOK, LogId
  <2> QED BY <1>0, <2>1 DEF CursorOK, CursorSkipsNothing
<1> QED BY <1>2, <1>4, <1>5, <1>6, <1>7, <1>8, <1>9
-----------------------------------------------------------------------------
(* The invariant and the theorems *)

\* Nothing is held when the agent starts.
LEMMA PipeInitInv == Init => PipeInv
<1> SUFFICES ASSUME Init PROVE PipeInv
  OBVIOUS
<1> USE PipelineAssumption DEF Init, Buf!AInit
<1>1. QueueOK
  BY DEF QueueOK, Buf!NoEntries
<1>2. events.len = 0 /\ events.entries = Buf!NoEntries /\ ~Posting
  BY DEF Posting
<1>3. BatchOK
  BY <1>2 DEF BatchOK, Buf!NoEntries
<1>4. Buffered = {} /\ InFlight = {}
  BY InFlightCases, <1>2 DEF Buffered
<1>5. CountsOK /\ SourcesOK
  BY DEF CountsOK, SourcesOK
<1>6. Distinct
  BY <1>2 DEF Distinct
<1>7. HeldApart /\ SourcesFresh /\ Conserved
  BY <1>4 DEF HeldApart, SourcesFresh, Conserved
<1>8. CommitsBounded
  BY <1>4 DEF CommitsBounded
<1>9. CursorOK
  BY DEF CursorOK, CursorSkipsNothing
<1> QED BY <1>1, <1>3, <1>5, <1>6, <1>7, <1>8, <1>9 DEF PipeInv

\* Every step of every loop preserves the invariant.
LEMMA PipeStep == PipeInv /\ [Next]_vars => PipeInv'
<1> SUFFICES ASSUME PipeInv, [Next]_vars PROVE PipeInv'
  OBVIOUS
<1>1. CASE \E id \in LogId : CommitRow(id)
  BY <1>1, CommitRowStep
<1>2. CASE CollectorStep
  BY <1>2, PollStep, HandleRecordStep DEF CollectorStep
<1>3. CASE \E e \in TailEvent : HandleEntry(e)
  BY <1>3, HandleEntryStep
<1>4. CASE \E last \in BOOLEAN : Flush(last)
  BY <1>4, FlushStep
<1>5. CASE PostStep
  BY <1>5, PostSucceedsStep, PostFailsStep, PostWithoutCommitStep DEF PostStep
<1>6. CASE Repush
  BY <1>6, RepushStep
<1>7. CASE Cancel \/ UNCHANGED vars
  <2>1. UNCHANGED <<bufVars, events, sourceVars, flushVars, ingested, captured, evicted, lifeVars>>
    BY <1>7 DEF Cancel, vars, bufVars, sourceVars, flushVars, lifeVars
  <2> QED BY <2>1, HeldFrame, SourcesFrame DEF PipeInv, lifeVars
<1>8. CASE \E k \in 0..Capacity : Restart(k)
  BY <1>8, RestartStep
<1> QED BY <1>1, <1>2, <1>3, <1>4, <1>5, <1>6, <1>7, <1>8 DEF Next

\* The invariant holds in every behaviour of the pipeline.
LEMMA PipeInvHolds == Spec => []PipeInv
BY PipeInitInv, PipeStep, PTL DEF Spec

\* However the collector, the tailer, the flusher, failed POSTs, shutdown and
\* restarts interleave, an event that entered the buffer is held, committed on
\* the server, counted as overwritten or was held when a process ended, and is
\* never held twice.
THEOREM EventsConserved == Spec => []NothingLostSilently
<1>1. PipeInv => NothingLostSilently
  BY DEF PipeInv, NothingLostSilently, Conserved, Distinct, HeldApart
<1> QED BY <1>1, PipeInvHolds, PTL

\* The captures of an error are of the lives so far, and one of the log file.
LEMMA CapturesBounded ==
    ASSUME PipeInv, NEW error \in LogId \cup TailEvent
    PROVE  Cardinality(Counted(error)) <= (IF error \in LogId THEN 1 + restarts ELSE 0)
                                            + (IF error \in TailEvent THEN 1 ELSE 0)
<1> USE PipelineAssumption
<1> DEFINE R == IF error \in LogId THEN {RowIn(error, n) : n \in 0..restarts} ELSE {}
           F == IF error \in TailEvent THEN {FileEntry(error)} ELSE {}
<1>1. restarts \in Nat
  BY DEF PipeInv, CountsOK
<1>2. Counted(error) \subseteq R \cup F
  <2> SUFFICES ASSUME NEW e \in Event, e.error = error, ingested[e] > 0 PROVE e \in R \cup F
    BY DEF Counted
  <2>1. e.life <= restarts
    BY DEF PipeInv, CommitsBounded, SourcesFresh
  <2>2. CASE \E id \in LogId \ EmptyRow, n \in 0..MaxRestarts : e = RowIn(id, n)
    <3>1. PICK id \in LogId, n \in 0..MaxRestarts : e = RowIn(id, n)
      BY <2>2
    <3>2. id = error /\ n <= restarts
      BY <2>1, <3>1 DEF RowIn
    <3> QED BY <1>1, <3>1, <3>2
  <2>3. CASE \E x \in TailEvent : e = FileEntry(x)
    BY <2>3 DEF FileEntry
  <2> QED BY <2>2, <2>3 DEF Event
<1>3. /\ IsFiniteSet(R) /\ Cardinality(R) \in Nat
      /\ Cardinality(R) <= (IF error \in LogId THEN 1 + restarts ELSE 0)
  <2>1. CASE error \in LogId
    <3> DEFINE f == [n \in 0..restarts |-> RowIn(error, n)]
    <3>1. IsFiniteSet(0..restarts) /\ Cardinality(0..restarts) = 1 + restarts
      <4>1. 0 \in Int /\ restarts \in Int /\ ~(0 > restarts) /\ restarts - 0 + 1 = 1 + restarts
        BY <1>1
      <4> QED BY <4>1, FS_Interval
    <3>2. f \in Surjection(0..restarts, R)
      BY <2>1 DEF Surjection
    <3> HIDE DEF f, R
    <3>3. IsFiniteSet(R) /\ Cardinality(R) <= Cardinality(0..restarts)
      BY <3>1, <3>2, FS_Surjection
    <3> QED BY <2>1, <3>1, <3>3, FS_CardinalityType
  <2>2. CASE error \notin LogId
    BY <2>2, FS_EmptySet
  <2> QED BY <2>1, <2>2
<1>4. /\ IsFiniteSet(F) /\ Cardinality(F) = IF error \in TailEvent THEN 1 ELSE 0
  BY FS_EmptySet, FS_Singleton
<1> HIDE DEF R, F
<1>5. /\ IsFiniteSet(R \cup F)
      /\ Cardinality(R \cup F) = Cardinality(R) + Cardinality(F) - Cardinality(R \cap F)
  BY <1>3, <1>4, FS_Union
<1>6. Cardinality(R \cap F) \in Nat
  BY <1>3, FS_Intersection, FS_CardinalityType
<1>7. /\ Cardinality(Counted(error)) <= Cardinality(R \cup F)
      /\ Cardinality(Counted(error)) \in Nat /\ Cardinality(R \cup F) \in Nat
  BY <1>2, <1>5, FS_Subset, FS_CardinalityType
<1> QED BY <1>1, <1>3, <1>4, <1>5, <1>6, <1>7

\* The server counts a capture again only by the POSTs whose outcome the agent
\* could not see, and an error by the lives of the agent and by the log file.
THEOREM DoubleCountsExplained == Spec => []CountedAgainOnlyForAReason
<1>1. PipeInv => CountedAgainOnlyForAReason
  BY CapturesBounded DEF PipeInv, CountedAgainOnlyForAReason, CommitsBounded
<1> QED BY <1>1, PipeInvHolds, PTL

\* The collector's cursor never passes a visible row it has not handled since
\* the agent's start, but for rows that became visible after a higher one was
\* read.
THEOREM PollingSkipsNothing == Spec => []CursorSkipsNothing
<1>1. PipeInv => CursorSkipsNothing
  BY DEF PipeInv, CursorOK
<1> QED BY <1>1, PipeInvHolds, PTL

-----------------------------------------------------------------------------
Piece == [entry : Nat \ {0}, part : {"head", "cut", "rest"}]
Assembled == [entry : Nat, cont : Seq(Nat)]

\* A "rest" follows its own header at once, and a header is of a later entry
\* than everything before it.
InFileOrder(s) ==
    \A i \in DOMAIN s :
       /\ s[i].part # "rest" => \A j \in 1..(i - 1) : s[j].entry < s[i].entry
       /\ s[i].part = "rest" /\ i > 1 =>
            s[i - 1].entry = s[i].entry /\ s[i - 1].part # "rest"

Increasing(handed) == \A i, j \in DOMAIN handed : i < j => handed[i].entry < handed[j].entry

\* Some "rest" of entry n is in s, after its first i pieces.
RestAfter(s, i, n) ==
    \E k \in (i + 1)..Len(s) : s[k].part = "rest" /\ s[k].entry = n

Headers(s) == {s[i].entry : i \in {j \in DOMAIN s : s[j].part # "rest"}}

Doubtful == {0} \cup missable \cup mangled

\* Entry n has exactly the text that was written of it.
Whole(e) == e.cont = IF e.entry \in complete THEN <<e.entry>> ELSE <<>>

TailTyped ==
    /\ tailer \in {"errors", "orm", "server"}
    /\ files \in Seq(Seq(Piece))
    /\ path \in 0..Len(files) /\ written \in Nat
    /\ fd \in [file : Nat, pos : Nat, lastSize : Nat, checked : BOOLEAN, torn : BOOLEAN]
    /\ fd.file \in 0..Len(files)
    /\ acc \in Assembled /\ acc.entry <= written
    /\ emitted \in Seq(Assembled)
    /\ complete \subseteq 1..written

\* The files: every piece is of an entry written, every "rest" of a complete
\* one, and the file at the path ends with what was written last.
FilesOK ==
    /\ \A f \in 1..Len(files) :
         /\ InFileOrder(files[f])
         /\ \A i \in DOMAIN files[f] :
              /\ files[f][i].entry <= written
              /\ files[f][i].part = "rest" => files[f][i].entry \in complete
    /\ path # 0 /\ files[path] # <<>> =>
         LET last == files[path][Len(files[path])]
         IN  last.entry = written /\ (last.part = "rest" <=> written \in complete)

\* The open file: its offset and its last size are within it until it is
\* truncated; what is unread of a file that is not followed may be lost.
ReaderOK ==
    /\ fd.file = 0 => acc.entry = 0 /\ ~fd.torn
    /\ fd.file # 0 /\ ~fd.torn =>
         fd.pos <= Len(Content(fd.file)) /\ fd.lastSize <= Len(Content(fd.file))
    /\ ~Follows => EntriesIn(Unread) \subseteq missable
    /\ fd.torn => acc.entry \in Doubtful

\* Handed on, being assembled, to be read: in this order.
TailOrder ==
    /\ Increasing(emitted)
    /\ \A i \in DOMAIN emitted :
         /\ emitted[i].entry # 0 /\ emitted[i].entry <= written
         /\ acc.entry # 0 => emitted[i].entry < acc.entry
         /\ \A h \in Headers(Unread) : emitted[i].entry < h
    /\ \A h \in Headers(Unread) : acc.entry < h

\* Every entry is accounted for by its header.
TailAccounted ==
    \A n \in 1..written :
        n \in missable \cup EntriesIn(emitted) \cup {acc.entry} \cup Headers(Unread)

\* What was handed on is whole and stays so.
EmittedWhole ==
    \A i \in DOMAIN emitted : emitted[i].entry \notin Doubtful =>
       /\ Whole(emitted[i])
       /\ emitted[i].entry < written \/ emitted[i].entry \in complete

\* The text of an entry whose header is unread is unread too.
UnreadWhole ==
    \A n \in Headers(Unread) : n \notin Doubtful /\ n \in complete => RestAfter(Unread, 0, n)

\* The entry being assembled has its text unless that is still unread.
AccWhole ==
    acc.entry \notin Doubtful =>
      /\ acc.cont = IF acc.entry \in complete /\ ~RestAfter(Unread, 0, acc.entry)
                      THEN <<acc.entry>> ELSE <<>>
      /\ Unread # <<>> /\ Unread[1].part = "rest" => Unread[1].entry = acc.entry
      /\ Follows /\ Unread = <<>> => acc.entry = written

TailInv ==
    /\ TailTyped /\ FilesOK /\ ReaderOK /\ TailOrder /\ TailAccounted
    /\ EmittedWhole /\ UnreadWhole /\ AccWhole

\* Induction over the natural numbers, by the least number outside S.
LEMMA SetInduction ==
    ASSUME NEW S, 0 \in S, \A n \in Nat : n \in S => n + 1 \in S
    PROVE  Nat \subseteq S
<1> DEFINE missing == {n \in Nat : n \notin S}
<1>1. SUFFICES ASSUME missing # {} PROVE FALSE
  OBVIOUS
<1>2. missing \in SUBSET Nat
  OBVIOUS
<1>3. PICK m \in missing : \A n \in missing : ~(<<n, m>> \in OpToRel(<, Nat))
  BY <1>1, <1>2, NatLessThanWellFounded, WFMin, Zenon
<1>4. \A n \in missing : ~(n < m)
  BY <1>2, <1>3 DEF OpToRel
<1>5. m \in Nat /\ m \notin S /\ m # 0
  OBVIOUS
<1>6. m - 1 \in Nat /\ m - 1 < m /\ (m - 1) + 1 = m
  BY <1>5
<1>7. m - 1 \in S
  BY <1>4, <1>6
<1> QED
  BY <1>5, <1>6, <1>7

\* The fold over the lines is what its recursive definition says.
LEMMA FedDefined ==
    ASSUME NEW s, Len(s) \in Nat
    PROVE  Fed(s) = [i \in 0..Len(s) |-> IF i = 0 THEN [acc |-> acc, out |-> <<>>]
                                         ELSE Feed(Fed(s)[i - 1], s[i], IsHeader(s, i))]
<1> DEFINE Step(g, i) == IF i = 0 THEN [acc |-> acc, out |-> <<>>]
                         ELSE Feed(g[i - 1], s[i], IsHeader(s, i))
           R == {n \in Nat : \E g : g = [i \in 0..n |-> Step(g, i)]}
<1>1. 0 \in R
  <2>1. [i \in 0..0 |-> [acc |-> acc, out |-> <<>>]] =
          [i \in 0..0 |-> Step([j \in 0..0 |-> [acc |-> acc, out |-> <<>>]], i)]
    OBVIOUS
  <2> QED
    BY <2>1
<1>2. ASSUME NEW n \in Nat, n \in R
      PROVE  n + 1 \in R
  <2>1. PICK g : g = [i \in 0..n |-> Step(g, i)]
    BY <1>2
  <2> DEFINE h == [i \in 0..(n + 1) |-> IF i = n + 1 THEN Step(g, n + 1) ELSE g[i]]
  <2>2. \A i \in 0..n : h[i] = g[i]
    OBVIOUS
  <2>3. ASSUME NEW i \in 0..(n + 1)
        PROVE  h[i] = Step(h, i)
    <3>1. CASE i = 0
      BY <2>1, <3>1
    <3>2. CASE i # 0
      <4>1. i - 1 \in 0..n /\ h[i - 1] = g[i - 1]
        BY <3>2, <2>2
      <4>2. Step(h, i) = Step(g, i)
        BY <4>1
      <4>3. CASE i = n + 1
        BY <4>2, <4>3
      <4>4. CASE i # n + 1
        <5>1. i \in 0..n
          BY <4>4
        <5>2. g[i] = Step(g, i)
          BY <2>1, <5>1
        <5> QED
          BY <2>2, <4>2, <5>1, <5>2
      <4> QED
        BY <4>3, <4>4
    <3> QED
      BY <3>1, <3>2
  <2>4. h = [i \in 0..(n + 1) |-> Step(h, i)]
    BY <2>3
  <2> HIDE DEF h
  <2>5. \E f : f = [i \in 0..(n + 1) |-> Step(f, i)]
    BY <2>4
  <2>6. n + 1 \in Nat
    OBVIOUS
  <2> QED
    BY <2>5, <2>6
<1>3. Len(s) \in R
  <2> HIDE DEF R
  <2> QED
    BY <1>1, <1>2, SetInduction
<1>4. \E g : g = [i \in 0..Len(s) |-> Step(g, i)]
  BY <1>3
<1> QED
  BY <1>4 DEF Fed

\* So is the choice of the events the ORM collector sends.
LEMMA SentDefined ==
    ASSUME NEW handed, NEW keep, Len(handed) \in Nat
    PROVE  Sent(handed, keep) =
             [i \in 0..Len(handed) |->
                IF i = 0 THEN <<>> ELSE IF keep[i] THEN Append(Sent(handed, keep)[i - 1], handed[i])
                                        ELSE Sent(handed, keep)[i - 1]]
<1> DEFINE Step(g, i) == IF i = 0 THEN <<>> ELSE IF keep[i] THEN Append(g[i - 1], handed[i]) ELSE g[i - 1]
           R == {n \in Nat : \E g : g = [i \in 0..n |-> Step(g, i)]}
<1>1. 0 \in R
  <2>1. [i \in 0..0 |-> <<>>] = [i \in 0..0 |-> Step([j \in 0..0 |-> <<>>], i)]
    OBVIOUS
  <2> QED
    BY <2>1
<1>2. ASSUME NEW n \in Nat, n \in R
      PROVE  n + 1 \in R
  <2>1. PICK g : g = [i \in 0..n |-> Step(g, i)]
    BY <1>2
  <2> DEFINE h == [i \in 0..(n + 1) |-> IF i = n + 1 THEN Step(g, n + 1) ELSE g[i]]
  <2>2. \A i \in 0..n : h[i] = g[i]
    OBVIOUS
  <2>3. ASSUME NEW i \in 0..(n + 1)
        PROVE  h[i] = Step(h, i)
    <3>1. CASE i = 0
      BY <2>1, <3>1
    <3>2. CASE i # 0
      <4>1. i - 1 \in 0..n /\ h[i - 1] = g[i - 1]
        BY <3>2, <2>2
      <4>2. Step(h, i) = Step(g, i)
        BY <4>1
      <4>3. CASE i = n + 1
        BY <4>2, <4>3
      <4>4. CASE i # n + 1
        <5>1. i \in 0..n
          BY <4>4
        <5>2. g[i] = Step(g, i)
          BY <2>1, <5>1
        <5> QED
          BY <2>2, <4>2, <5>1, <5>2
      <4> QED
        BY <4>3, <4>4
    <3> QED
      BY <3>1, <3>2
  <2>4. h = [i \in 0..(n + 1) |-> Step(h, i)]
    BY <2>3
  <2> HIDE DEF h
  <2>5. \E f : f = [i \in 0..(n + 1) |-> Step(f, i)]
    BY <2>4
  <2>6. n + 1 \in Nat
    OBVIOUS
  <2> QED
    BY <2>5, <2>6
<1>3. Len(handed) \in R
  <2> HIDE DEF R
  <2> QED
    BY <1>1, <1>2, SetInduction
<1>4. \E g : g = [i \in 0..Len(handed) |-> Step(g, i)]
  BY <1>3
<1> QED
  BY <1>4 DEF Sent
-----------------------------------------------------------------------------
(* What a read makes of the lines it finds. *)

\* What a header does to the accumulator.
LEMMA FeedHeader ==
    ASSUME NEW a, NEW line
    PROVE  /\ Feed(a, line, TRUE).acc.entry = line.entry
           /\ Feed(a, line, TRUE).acc.cont = <<>>
           /\ Feed(a, line, TRUE).acc = [entry |-> line.entry, cont |-> <<>>]
           /\ Feed(a, line, TRUE).out = IF a.acc.entry # 0 THEN Append(a.out, a.acc) ELSE a.out
BY DEF Feed

\* What any other line does to it.
LEMMA FeedText ==
    ASSUME NEW a \in [acc : Assembled, out : Seq(Assembled)], NEW line
    PROVE  /\ Feed(a, line, FALSE).acc.entry = a.acc.entry
           /\ Feed(a, line, FALSE).acc.cont =
                IF a.acc.entry # 0 THEN Append(a.acc.cont, line.entry) ELSE a.acc.cont
           /\ Feed(a, line, FALSE).acc =
                [entry |-> a.acc.entry,
                 cont |-> IF a.acc.entry # 0 THEN Append(a.acc.cont, line.entry) ELSE a.acc.cont]
           /\ Feed(a, line, FALSE).out = a.out
BY DEF Feed, Assembled

\* The last line of s is a header that the end of the file cuts.
CutAt(s, i) == i = Len(s) /\ s[i].part = "cut"

\* What is known of a sequence of lines when it is read.
Readable(s) ==
    /\ s \in Seq(Piece) /\ InFileOrder(s)
    /\ \A i \in 1..Len(s) :
         /\ s[i].entry <= written
         /\ s[i].part = "rest" => s[i].entry \in complete
         /\ s[i].part # "rest" =>
              /\ acc.entry < s[i].entry
              /\ \A j \in 1..Len(emitted) : emitted[j].entry < s[i].entry
              /\ s[i].entry \notin Doubtful /\ s[i].entry \in complete => RestAfter(s, 0, s[i].entry)
    /\ acc.entry # 0 => \A j \in 1..Len(emitted) : emitted[j].entry < acc.entry
    /\ acc.entry \notin Doubtful =>
         /\ acc.cont = IF acc.entry \in complete /\ ~RestAfter(s, 0, acc.entry)
                         THEN <<acc.entry>> ELSE <<>>
         /\ s # <<>> /\ s[1].part = "rest" => s[1].entry = acc.entry

\* The accumulator and its output after i lines: typed, ...
FedTyped(a, i) ==
    /\ a \in [acc : Assembled, out : Seq(Assembled)]
    /\ a.acc.entry <= written
    /\ \A j \in 1..Len(a.out) : a.out[j].entry # 0

\* ... in order, ...
FedOrder(s, a, i) ==
    /\ Increasing(a.out)
    /\ \A j \in 1..Len(a.out) :
         /\ a.out[j].entry < a.acc.entry
         /\ \A k \in 1..Len(emitted) : emitted[k].entry < a.out[j].entry
    /\ a.acc.entry # 0 => \A k \in 1..Len(emitted) : emitted[k].entry < a.acc.entry
    /\ \A k \in (i + 1)..Len(s) : s[k].part # "rest" => a.acc.entry < s[k].entry

\* ... complete, ...
FedAccounted(s, a, i) ==
    /\ \A k \in 1..i : s[k].part # "rest" /\ ~CutAt(s, k) =>
         s[k].entry \in EntriesIn(a.out) \cup {a.acc.entry}
    /\ acc.entry \in EntriesIn(a.out) \cup {0, a.acc.entry}
    /\ a.acc.entry \in {acc.entry} \cup EntriesIn(s)

\* ... and with each entry's own text.
FedWhole(s, a, i) ==
    /\ \A j \in 1..Len(a.out) : a.out[j].entry \notin Doubtful =>
         Whole(a.out[j]) /\ a.out[j].entry < written
    /\ a.acc.entry \notin Doubtful /\ ~CutAt(s, i) =>
         /\ a.acc.cont = IF a.acc.entry \in complete /\ ~RestAfter(s, i, a.acc.entry)
                           THEN <<a.acc.entry>> ELSE <<>>
         /\ i # 0 => a.acc.entry = s[i].entry

FedInv(s, a, i) ==
    FedTyped(a, i) /\ FedOrder(s, a, i) /\ FedAccounted(s, a, i) /\ FedWhole(s, a, i)

\* The lines of a sequence are lines.
LEMMA PiecesTyped ==
    ASSUME NEW s \in Seq(Piece)
    PROVE  \A k \in 1..Len(s) : s[k] \in Piece /\ s[k].entry \in Nat /\ s[k].entry # 0
<1>1. \A k \in 1..Len(s) : s[k] \in Piece
  OBVIOUS
<1>2. \A p \in Piece : p.entry \in Nat /\ p.entry # 0
  BY DEF Piece
<1> QED
  BY <1>1, <1>2

\* The entries of a sequence are numbered.
LEMMA AssembledTyped ==
    ASSUME NEW handed \in Seq(Assembled)
    PROVE  /\ DOMAIN handed = 1..Len(handed) /\ Len(handed) \in Nat
           /\ \A k \in 1..Len(handed) : handed[k] \in Assembled /\ handed[k].entry \in Nat
<1>1. \A k \in 1..Len(handed) : handed[k] \in Assembled
  OBVIOUS
<1>2. \A p \in Assembled : p.entry \in Nat
  BY DEF Assembled
<1> QED
  BY <1>1, <1>2

\* A "rest" after a header is of that entry or of a later one, and the
\* header's own is after it.
LEMMA RestsAfterHeader ==
    ASSUME NEW s \in Seq(Piece), InFileOrder(s), NEW i \in 1..Len(s), s[i].part # "rest"
    PROVE  /\ \A k \in i..Len(s) : s[k].part = "rest" => s[i].entry <= s[k].entry
           /\ RestAfter(s, 0, s[i].entry) => RestAfter(s, i, s[i].entry)
<1>0. \A k \in 1..Len(s) : s[k].entry \in Nat
  BY PiecesTyped
<1>1. ASSUME NEW k \in i..Len(s), s[k].part = "rest"
      PROVE  s[i].entry <= s[k].entry
  <2>1. k > 1 /\ k \in DOMAIN s /\ k - 1 \in i..Len(s)
    BY <1>1
  <2>2. s[k - 1].entry = s[k].entry /\ s[k - 1].part # "rest"
    BY <1>1, <2>1 DEF InFileOrder
  <2>3. CASE k - 1 = i
    BY <2>2, <2>3, <1>0
  <2>4. CASE k - 1 # i
    <3>1. i \in 1..((k - 1) - 1) /\ k - 1 \in DOMAIN s
      BY <2>1, <2>4
    <3> QED
      BY <3>1, <2>1, <2>2, <1>0 DEF InFileOrder
  <2> QED
    BY <2>3, <2>4
<1>2. ASSUME RestAfter(s, 0, s[i].entry)
      PROVE  RestAfter(s, i, s[i].entry)
  <2>1. PICK k \in 1..Len(s) : s[k].part = "rest" /\ s[k].entry = s[i].entry
    BY <1>2 DEF RestAfter
  <2>2. ~(k < i)
    <3>1. i \in DOMAIN s /\ (k < i => k \in 1..(i - 1))
      OBVIOUS
    <3>2. k < i => s[k].entry < s[i].entry
      BY <3>1 DEF InFileOrder
    <3> QED
      BY <2>1, <3>2, <1>0
  <2>3. k \in (i + 1)..Len(s)
    BY <2>1, <2>2
  <2> QED
    BY <2>1, <2>3 DEF RestAfter
<1> QED
  BY <1>1, <1>2

\* After the "rest" of an entry there is no other.
LEMMA OneRest ==
    ASSUME NEW s \in Seq(Piece), InFileOrder(s), NEW i \in 1..Len(s), s[i].part = "rest"
    PROVE  ~RestAfter(s, i, s[i].entry)
<1>0. \A k \in 1..Len(s) : s[k].entry \in Nat
  BY PiecesTyped
<1>1. SUFFICES ASSUME NEW k \in (i + 1)..Len(s), s[k].part = "rest", s[k].entry = s[i].entry
               PROVE  FALSE
  BY DEF RestAfter
<1>2. k > 1 /\ k \in DOMAIN s /\ k - 1 \in i..Len(s)
  BY <1>1
<1>3. s[k - 1].entry = s[k].entry /\ s[k - 1].part # "rest"
  BY <1>1, <1>2 DEF InFileOrder
<1>4. i \in 1..((k - 1) - 1) /\ k - 1 \in DOMAIN s
  BY <1>2, <1>3
<1>5. s[i].entry < s[k - 1].entry
  BY <1>3, <1>4 DEF InFileOrder
<1> QED
  BY <1>0, <1>1, <1>3, <1>5

\* A line that is not the one looked for does not change what comes after it.
LEMMA RestAfterNext ==
    ASSUME NEW s \in Seq(Piece), NEW i \in 0..(Len(s) - 1), NEW n
    PROVE  RestAfter(s, i, n) <=>
             (s[i + 1].part = "rest" /\ s[i + 1].entry = n) \/ RestAfter(s, i + 1, n)
<1>1. i + 1 \in (i + 1)..Len(s) /\ \A k : k \in ((i + 1) + 1)..Len(s) => k \in (i + 1)..Len(s)
  OBVIOUS
<1>2. \A k \in (i + 1)..Len(s) : k = i + 1 \/ k \in ((i + 1) + 1)..Len(s)
  OBVIOUS
<1> QED
  BY <1>1, <1>2 DEF RestAfter

StateTyped == written \in Nat /\ acc \in Assembled /\ acc.entry <= written /\ emitted \in Seq(Assembled)

\* A header keeps what is known of the accumulator.
LEMMA FedStepHeader ==
    ASSUME StateTyped, NEW s, Readable(s), NEW i \in 0..(Len(s) - 1), NEW a,
           FedInv(s, a, i), IsHeader(s, i + 1)
    PROVE  FedInv(s, Feed(a, s[i + 1], TRUE), i + 1)
<1> DEFINE m == s[i + 1].entry
           b == Feed(a, s[i + 1], TRUE)
<1>1. s \in Seq(Piece) /\ InFileOrder(s) /\ i + 1 \in 1..Len(s) /\ i \in Nat
  BY DEF Readable
<1>2. s[i + 1].part # "rest" /\ m \in Nat \ {0} /\ m <= written /\ ~CutAt(s, i + 1)
  <2>1. s[i + 1].part # "rest" /\ ~CutAt(s, i + 1)
    BY <1>1 DEF IsHeader, CutAt
  <2>2. m \in Nat \ {0}
    BY <1>1, PiecesTyped
  <2>3. m <= written
    BY <1>1 DEF Readable
  <2> QED
    BY <2>1, <2>2, <2>3
<1>3. a \in [acc : Assembled, out : Seq(Assembled)] /\ a.acc.entry \in Nat /\ a.acc \in Assembled
      /\ a.out \in Seq(Assembled)
  BY DEF FedInv, FedTyped, Assembled
<1>4. b.acc.entry = m /\ b.acc = [entry |-> m, cont |-> <<>>] /\ b.acc.cont = <<>>
      /\ b.out = IF a.acc.entry # 0 THEN Append(a.out, a.acc) ELSE a.out
  <2>1. LET f == Feed(a, s[i + 1], TRUE)
        IN  /\ f.acc.entry = s[i + 1].entry /\ f.acc.cont = <<>>
            /\ f.acc = [entry |-> s[i + 1].entry, cont |-> <<>>]
            /\ f.out = IF a.acc.entry # 0 THEN Append(a.out, a.acc) ELSE a.out
    BY FeedHeader, ZenonT(60)
  <2> QED
    BY <2>1, Zenon
<1>5. b \in [acc : Assembled, out : Seq(Assembled)]
  <2>1. b = [acc |-> [entry |-> m, cont |-> <<>>],
             out |-> IF a.acc.entry # 0 THEN Append(a.out, a.acc) ELSE a.out]
    BY DEF Feed
  <2>2. [entry |-> m, cont |-> <<>>] \in Assembled
    BY <1>2 DEF Assembled
  <2>3. (IF a.acc.entry # 0 THEN Append(a.out, a.acc) ELSE a.out) \in Seq(Assembled)
    BY <1>3
  <2> HIDE DEF b, m
  <2> QED
    BY <2>1, <2>2, <2>3
<1>6. a.acc.entry < m
  BY <1>1, <1>2 DEF FedInv, FedOrder
<1> HIDE DEF b
<1>8. b.out \in Seq(Assembled) /\ Len(a.out) \in Nat /\ Len(b.out) \in Nat
  BY <1>3, <1>5
<1>9. \A j \in 1..Len(b.out) :
         \/ j \in 1..Len(a.out) /\ b.out[j] = a.out[j]
         \/ a.acc.entry # 0 /\ j = Len(a.out) + 1 /\ b.out[j] = a.acc
  BY <1>3, <1>4
<1>10. /\ \A j \in 1..Len(a.out) : j \in 1..Len(b.out) /\ b.out[j] = a.out[j]
       /\ a.acc.entry # 0 => Len(a.out) + 1 \in 1..Len(b.out) /\ b.out[Len(a.out) + 1] = a.acc
  <2>1. DOMAIN a.out = 1..Len(a.out) /\ Len(a.out) \in Nat
    BY <1>3
  <2>2. a.acc.entry = 0 => b.out = a.out
    BY <1>4
  <2>3. a.acc.entry # 0 => b.out = Append(a.out, a.acc)
    BY <1>4
  <2>4. LET z == Append(a.out, a.acc)
        IN  Len(z) = Len(a.out) + 1 /\ z[Len(a.out) + 1] = a.acc
            /\ \A j \in 1..Len(a.out) : z[j] = a.out[j]
    BY <1>3, <2>1
  <2> QED
    BY <2>1, <2>2, <2>3, <2>4
<1>7. FedTyped(b, i + 1)
  <2>1. \A j \in 1..Len(b.out) : b.out[j].entry # 0
    BY <1>9 DEF FedInv, FedTyped
  <2> QED
    BY <1>2, <1>4, <1>5, <2>1 DEF FedTyped
<1>11. \A j \in 1..Len(a.out) : a.out[j].entry \in Nat /\ a.out[j].entry < a.acc.entry
  BY <1>3, AssembledTyped DEF FedInv, FedOrder
<1>12. \A k \in 1..Len(emitted) : emitted[k].entry \in Nat
  BY AssembledTyped DEF StateTyped
<1>13. FedOrder(s, b, i + 1)
  <2>1. Increasing(b.out)
    <3>1. SUFFICES ASSUME NEW j \in 1..Len(b.out), NEW k \in 1..Len(b.out), j < k
                   PROVE  b.out[j].entry < b.out[k].entry
      BY <1>8 DEF Increasing
    <3>2. j \in 1..Len(a.out) /\ b.out[j] = a.out[j]
      BY <1>8, <1>9, <3>1
    <3>3. CASE k \in 1..Len(a.out) /\ b.out[k] = a.out[k]
      BY <1>8, <3>1, <3>2, <3>3, <1>3 DEF FedInv, FedOrder, Increasing
    <3>4. CASE b.out[k] = a.acc
      BY <3>2, <3>4, <1>11
    <3> QED
      BY <1>9, <3>3, <3>4
  <2>2. ASSUME NEW j \in 1..Len(b.out)
        PROVE  /\ b.out[j].entry < b.acc.entry
               /\ \A k \in 1..Len(emitted) : emitted[k].entry < b.out[j].entry
    <3>1. CASE j \in 1..Len(a.out) /\ b.out[j] = a.out[j]
      <4>1. b.out[j].entry < b.acc.entry
        BY <3>1, <1>2, <1>3, <1>4, <1>6, <1>11
      <4>2. \A k \in 1..Len(emitted) : emitted[k].entry < b.out[j].entry
        BY <3>1 DEF FedInv, FedOrder
      <4> QED
        BY <4>1, <4>2
    <3>2. CASE a.acc.entry # 0 /\ b.out[j] = a.acc
      BY <3>2, <1>4, <1>6 DEF FedInv, FedOrder
    <3> QED
      BY <1>9, <3>1, <3>2
  <2>3. \A k \in 1..Len(emitted) : emitted[k].entry < m
    BY <1>1, <1>2 DEF Readable
  <2>4. \A k \in ((i + 1) + 1)..Len(s) : s[k].part # "rest" => m < s[k].entry
    <3>1. ASSUME NEW k \in ((i + 1) + 1)..Len(s), s[k].part # "rest"
          PROVE  m < s[k].entry
      <4>1. k \in DOMAIN s /\ i + 1 \in 1..(k - 1)
        BY <1>1, <3>1
      <4> QED
        BY <1>1, <3>1, <4>1 DEF InFileOrder
    <3> QED
      BY <3>1
  <2> QED
    BY <1>4, <2>1, <2>2, <2>3, <2>4 DEF FedOrder
<1>14. FedAccounted(s, b, i + 1)
  <2>1. EntriesIn(b.out) = EntriesIn(a.out) \cup (IF a.acc.entry # 0 THEN {a.acc.entry} ELSE {})
    <3>1. DOMAIN a.out = 1..Len(a.out) /\ DOMAIN b.out = 1..Len(b.out)
      BY <1>3, <1>8
    <3>2. EntriesIn(b.out) \subseteq EntriesIn(a.out) \cup (IF a.acc.entry # 0 THEN {a.acc.entry} ELSE {})
      BY <3>1, <1>9 DEF EntriesIn
    <3>3. EntriesIn(a.out) \subseteq EntriesIn(b.out)
      BY <3>1, <1>10 DEF EntriesIn
    <3>4. a.acc.entry # 0 => a.acc.entry \in EntriesIn(b.out)
      BY <3>1, <1>10 DEF EntriesIn
    <3> QED
      BY <3>2, <3>3, <3>4
  <2>2. ASSUME NEW k \in 1..(i + 1), s[k].part # "rest", ~CutAt(s, k)
        PROVE  s[k].entry \in EntriesIn(b.out) \cup {b.acc.entry}
    <3>1. CASE k = i + 1
      BY <3>1, <1>4
    <3>2. CASE k # i + 1
      <4>1. k \in 1..i
        BY <1>1, <3>2
      <4>2. s[k].entry \in EntriesIn(a.out) \cup {a.acc.entry} /\ s[k].entry # 0
        BY <1>1, <2>2, <4>1, PiecesTyped DEF FedInv, FedAccounted
      <4> QED
        BY <2>1, <4>2
    <3> QED
      BY <3>1, <3>2
  <2>3. acc.entry \in EntriesIn(b.out) \cup {0, b.acc.entry}
    BY <2>1 DEF FedInv, FedAccounted
  <2>4. b.acc.entry \in EntriesIn(s)
    BY <1>1, <1>4 DEF EntriesIn
  <2> QED
    BY <2>2, <2>3, <2>4 DEF FedAccounted
<1>15. FedWhole(s, b, i + 1)
  <2>0. ~CutAt(s, i)
    BY <1>1 DEF CutAt
  <2>1. ~RestAfter(s, i, a.acc.entry)
    <3>1. SUFFICES ASSUME NEW k \in (i + 1)..Len(s), s[k].part = "rest", s[k].entry = a.acc.entry
                   PROVE  FALSE
      BY DEF RestAfter
    <3>2. m <= s[k].entry
      BY <1>1, <1>2, <3>1, RestsAfterHeader
    <3> QED
      BY <1>2, <1>3, <1>6, <3>1, <3>2
  <2>2. ASSUME NEW j \in 1..Len(b.out), b.out[j].entry \notin Doubtful
        PROVE  Whole(b.out[j]) /\ b.out[j].entry < written
    <3>1. CASE j \in 1..Len(a.out) /\ b.out[j] = a.out[j]
      BY <2>2, <3>1 DEF FedInv, FedWhole
    <3>2. CASE b.out[j] = a.acc
      <4>1. a.acc.cont = IF a.acc.entry \in complete THEN <<a.acc.entry>> ELSE <<>>
        BY <2>0, <2>1, <2>2, <3>2 DEF FedInv, FedWhole
      <4>2. a.acc.entry < written
        BY <1>2, <1>3, <1>6 DEF StateTyped
      <4> QED
        BY <3>2, <4>1, <4>2 DEF Whole
    <3> QED
      BY <1>9, <3>1, <3>2
  <2>3. ASSUME m \notin Doubtful
        PROVE  b.acc.cont = IF m \in complete /\ ~RestAfter(s, i + 1, m) THEN <<m>> ELSE <<>>
    <3>1. m \in complete => RestAfter(s, 0, m)
      BY <1>1, <1>2, <2>3 DEF Readable
    <3>2. m \in complete => RestAfter(s, i + 1, m)
      BY <1>1, <1>2, <3>1, RestsAfterHeader
    <3> QED
      BY <1>4, <3>2
  <2> QED
    BY <1>4, <2>2, <2>3 DEF FedWhole
<1> QED
  BY <1>7, <1>13, <1>14, <1>15 DEF FedInv, b

\* Any other line keeps it too.
LEMMA FedStepText ==
    ASSUME StateTyped, NEW s, Readable(s), NEW i \in 0..(Len(s) - 1), NEW a,
           FedInv(s, a, i), ~IsHeader(s, i + 1), i = 0 => a.acc = acc
    PROVE  FedInv(s, Feed(a, s[i + 1], FALSE), i + 1)
<1> DEFINE m == s[i + 1].entry
           n == a.acc.entry
           b == Feed(a, s[i + 1], FALSE)
           text == IF n # 0 THEN Append(a.acc.cont, m) ELSE a.acc.cont
<1>1. s \in Seq(Piece) /\ InFileOrder(s) /\ i + 1 \in 1..Len(s) /\ i \in Nat /\ ~CutAt(s, i)
  BY DEF Readable, CutAt
<1>2. s[i + 1] \in Piece /\ m \in Nat /\ m # 0
  BY <1>1, PiecesTyped
<1>3. s[i + 1].part = "rest" \/ CutAt(s, i + 1)
  <2>1. s[i + 1].part \in {"head", "cut", "rest"}
    BY <1>2 DEF Piece
  <2> QED
    BY <1>1, <2>1 DEF IsHeader, CutAt
<1>4. a \in [acc : Assembled, out : Seq(Assembled)]
  BY DEF FedInv, FedTyped
<1>5. n \in Nat /\ a.acc.cont \in Seq(Nat) /\ a.out \in Seq(Assembled) /\ text \in Seq(Nat)
  <2>1. n \in Nat /\ a.acc.cont \in Seq(Nat) /\ a.out \in Seq(Assembled)
    BY <1>4 DEF Assembled
  <2> QED
    BY <1>2, <2>1
<1>6. b.acc.entry = n /\ b.acc.cont = text /\ b.acc = [entry |-> n, cont |-> text] /\ b.out = a.out
  BY <1>4, FeedText
<1>7. FedTyped(b, i + 1)
  <2>1. b = [acc |-> b.acc, out |-> b.out]
    BY <1>4 DEF Feed
  <2>2. b.acc \in Assembled
    BY <1>5, <1>6 DEF Assembled
  <2>3. n <= written
    BY DEF FedInv, FedTyped
  <2> HIDE DEF b, n
  <2>4. b \in [acc : Assembled, out : Seq(Assembled)]
    BY <2>1, <2>2, <1>5, <1>6
  <2> QED
    BY <1>6, <2>3, <2>4 DEF FedTyped, FedInv
<1> HIDE DEF b, text
<1>8. FedOrder(s, b, i + 1)
  <2>1. \A k \in ((i + 1) + 1)..Len(s) : k \in (i + 1)..Len(s)
    BY <1>1
  <2> QED
    BY <1>6, <2>1 DEF FedInv, FedOrder
<1>9. FedAccounted(s, b, i + 1)
  <2>1. \A k \in 1..(i + 1) : k = i + 1 \/ k \in 1..i
    BY <1>1
  <2> QED
    BY <1>3, <1>6, <2>1 DEF FedInv, FedAccounted
<1>10. FedWhole(s, b, i + 1)
  <2>1. \A j \in 1..Len(b.out) : b.out[j].entry \notin Doubtful =>
          Whole(b.out[j]) /\ b.out[j].entry < written
    BY <1>6 DEF FedInv, FedWhole
  <2>2. ASSUME n \notin Doubtful, ~CutAt(s, i + 1)
        PROVE  /\ b.acc.cont = IF n \in complete /\ ~RestAfter(s, i + 1, n) THEN <<n>> ELSE <<>>
               /\ n = m
    <3>1. s[i + 1].part = "rest"
      BY <1>3, <2>2
    <3>2. n = m
      <4>1. CASE i = 0
        <5>1. s # <<>> /\ s[1].part = "rest" /\ m = s[1].entry
          BY <1>1, <3>1, <4>1
        <5> QED
          BY <2>2, <4>1, <5>1 DEF Readable
      <4>2. CASE i # 0
        <5>1. n = s[i].entry
          BY <1>1, <2>2, <4>2 DEF FedInv, FedWhole
        <5>2. i + 1 \in DOMAIN s /\ i + 1 > 1 /\ (i + 1) - 1 = i
          BY <1>1, <4>2
        <5>3. s[i].entry = m
          BY <1>1, <3>1, <5>2 DEF InFileOrder
        <5> QED
          BY <5>1, <5>3
      <4> QED
        BY <4>1, <4>2
    <3>3. RestAfter(s, i, n)
      BY <1>1, <3>1, <3>2, RestAfterNext
    <3>4. a.acc.cont = <<>>
      BY <1>1, <2>2, <3>3 DEF FedInv, FedWhole
    <3>5. n # 0
      BY <2>2 DEF Doubtful
    <3>6. b.acc.cont = <<n>>
      BY <1>6, <3>2, <3>4, <3>5 DEF text
    <3>7. n \in complete
      BY <1>1, <3>1, <3>2 DEF Readable
    <3>8. ~RestAfter(s, i + 1, n)
      BY <1>1, <3>1, <3>2, OneRest
    <3> QED
      BY <3>2, <3>6, <3>7, <3>8
  <2> QED
    BY <1>6, <2>1, <2>2 DEF FedWhole
<1> QED
  BY <1>7, <1>8, <1>9, <1>10 DEF FedInv, b

\* After all lines, what is known of the accumulator and of what it emitted.
LEMMA FedHolds ==
    ASSUME StateTyped, NEW s, Readable(s)
    PROVE  FedInv(s, FeedAll(s), Len(s))
<1>1. s \in Seq(Piece) /\ Len(s) \in Nat
  BY DEF Readable
<1>2. Fed(s) = [i \in 0..Len(s) |-> IF i = 0 THEN [acc |-> acc, out |-> <<>>]
                                    ELSE Feed(Fed(s)[i - 1], s[i], IsHeader(s, i))]
  BY <1>1, FedDefined
<1> DEFINE R == {i \in Nat : i <= Len(s) => FedInv(s, Fed(s)[i], i)}
<1>3. Fed(s)[0] = [acc |-> acc, out |-> <<>>]
  BY <1>1, <1>2
<1>4. FedInv(s, Fed(s)[0], 0)
  <2> DEFINE a == [acc |-> acc, out |-> <<>>]
  <2>1. a.acc = acc /\ a.out = <<>> /\ Len(a.out) = 0 /\ DOMAIN a.out = {}
    OBVIOUS
  <2>2. FedTyped(a, 0)
    BY <2>1 DEF FedTyped, StateTyped
  <2> HIDE DEF a
  <2>3. FedOrder(s, a, 0)
    <3>1. \A k \in 1..Len(s) : s[k].part # "rest" => acc.entry < s[k].entry
      BY DEF Readable
    <3>2. acc.entry # 0 => \A k \in 1..Len(emitted) : emitted[k].entry < acc.entry
      BY DEF Readable
    <3> QED
      BY <2>1, <3>1, <3>2 DEF FedOrder, Increasing
  <2>4. FedAccounted(s, a, 0)
    BY <2>1 DEF FedAccounted
  <2>5. FedWhole(s, a, 0)
    BY <2>1 DEF FedWhole, Readable
  <2> QED
    BY <1>3, <2>2, <2>3, <2>4, <2>5 DEF FedInv, a
<1>5. ASSUME NEW i \in Nat, i \in R
      PROVE  i + 1 \in R
  <2>1. SUFFICES ASSUME i + 1 <= Len(s) PROVE FedInv(s, Fed(s)[i + 1], i + 1)
    BY <1>5
  <2>2. i \in 0..(Len(s) - 1) /\ i <= Len(s) /\ i + 1 \in 0..Len(s) /\ i + 1 # 0 /\ (i + 1) - 1 = i
    BY <1>1, <2>1
  <2>3. FedInv(s, Fed(s)[i], i)
    BY <1>5, <2>2
  <2>4. Fed(s)[i + 1] = Feed(Fed(s)[i], s[i + 1], IsHeader(s, i + 1))
    BY <1>2, <2>2
  <2>5. i = 0 => Fed(s)[i].acc = acc
    BY <1>3
  <2>6. IsHeader(s, i + 1) \in BOOLEAN
    BY DEF IsHeader
  <2>7. CASE IsHeader(s, i + 1)
    <3>1. Fed(s)[i + 1] = Feed(Fed(s)[i], s[i + 1], TRUE)
      BY <2>4, <2>6, <2>7
    <3> QED
      BY <2>2, <2>3, <2>7, <3>1, FedStepHeader
  <2>8. CASE ~IsHeader(s, i + 1)
    <3>1. Fed(s)[i + 1] = Feed(Fed(s)[i], s[i + 1], FALSE)
      BY <2>4, <2>6, <2>8
    <3> QED
      BY <2>2, <2>3, <2>5, <2>8, <3>1, FedStepText
  <2> QED
    BY <2>7, <2>8
<1>6. 0 \in R
  BY <1>4
<1>7. Len(s) \in R
  <2> HIDE DEF R
  <2> QED
    BY <1>1, <1>5, <1>6, SetInduction
<1> QED
  BY <1>1, <1>7 DEF FeedAll
-----------------------------------------------------------------------------
(* What the readers do with the entries they are handed. *)

\* Appending an entry.
LEMMA AppendOne ==
    ASSUME NEW z \in Seq(Assembled), NEW e \in Assembled
    PROVE  /\ Append(z, e) \in Seq(Assembled) /\ Len(Append(z, e)) = Len(z) + 1
           /\ \A j \in 1..Len(z) : Append(z, e)[j] = z[j]
           /\ Append(z, e)[Len(z) + 1] = e
           /\ EntriesIn(Append(z, e)) = EntriesIn(z) \cup {e.entry}
<1>1. Append(z, e) \in Seq(Assembled) /\ Len(Append(z, e)) = Len(z) + 1 /\ Len(z) \in Nat
  OBVIOUS
<1>2. \A j \in 1..Len(z) : Append(z, e)[j] = z[j]
  OBVIOUS
<1>3. Append(z, e)[Len(z) + 1] = e
  OBVIOUS
<1>4. DOMAIN z = 1..Len(z) /\ DOMAIN Append(z, e) = 1..(Len(z) + 1)
  BY <1>1
<1>5. EntriesIn(Append(z, e)) \subseteq EntriesIn(z) \cup {e.entry}
  BY <1>1, <1>2, <1>3, <1>4 DEF EntriesIn
<1>6. EntriesIn(z) \subseteq EntriesIn(Append(z, e)) /\ e.entry \in EntriesIn(Append(z, e))
  BY <1>1, <1>2, <1>3, <1>4 DEF EntriesIn
<1> QED
  BY <1>1, <1>2, <1>3, <1>5, <1>6

\* z holds entries of the first i of handed, in their order.
PartOf(z, handed, i) ==
    /\ z \in Seq(Assembled) /\ (Increasing(handed) => Increasing(z))
    /\ \A j \in 1..Len(z) : \E k \in 1..i : z[j] = handed[k]

\* What the ORM collector sends is a part of what it was handed, and it sends
\* all it keeps.
LEMMA SentFacts ==
    ASSUME NEW handed \in Seq(Assembled), NEW keep
    PROVE  LET z == Sent(handed, keep)[Len(handed)]
           IN  /\ PartOf(z, handed, Len(handed))
               /\ \A k \in 1..Len(handed) : keep[k] => handed[k].entry \in EntriesIn(z)
<1>1. Len(handed) \in Nat /\ DOMAIN handed = 1..Len(handed)
      /\ \A k \in 1..Len(handed) : handed[k] \in Assembled /\ handed[k].entry \in Nat
  BY AssembledTyped
<1>2. Sent(handed, keep) =
        [i \in 0..Len(handed) |->
           IF i = 0 THEN <<>> ELSE IF keep[i] THEN Append(Sent(handed, keep)[i - 1], handed[i])
                                   ELSE Sent(handed, keep)[i - 1]]
  BY <1>1, SentDefined
<1> DEFINE P(i) == /\ PartOf(Sent(handed, keep)[i], handed, i)
                   /\ \A k \in 1..i : keep[k] => handed[k].entry \in EntriesIn(Sent(handed, keep)[i])
           R == {i \in Nat : i <= Len(handed) => P(i)}
<1>3. 0 \in R
  <2>1. Sent(handed, keep)[0] = <<>>
    BY <1>1, <1>2
  <2>2. PartOf(<<>>, handed, 0)
    BY DEF PartOf, Increasing
  <2>3. P(0)
    BY <2>1, <2>2
  <2> QED
    BY <2>3
<1>4. ASSUME NEW i \in Nat, i \in R
      PROVE  i + 1 \in R
  <2>1. SUFFICES ASSUME i + 1 <= Len(handed) PROVE P(i + 1)
    BY <1>4
  <2>2. i <= Len(handed) /\ i + 1 \in 1..Len(handed) /\ i + 1 \in 0..Len(handed) /\ i + 1 # 0 /\ (i + 1) - 1 = i
    BY <1>1, <2>1
  <2>3. P(i)
    BY <1>4, <2>2
  <2> DEFINE z == Sent(handed, keep)[i]
             y == Sent(handed, keep)[i + 1]
  <2>4. y = IF keep[i + 1] THEN Append(z, handed[i + 1]) ELSE z
    BY <1>2, <2>2
  <2>5. /\ z \in Seq(Assembled) /\ (Increasing(handed) => Increasing(z))
        /\ \A j \in 1..Len(z) : \E k \in 1..i : z[j] = handed[k]
        /\ \A k \in 1..i : keep[k] => handed[k].entry \in EntriesIn(z)
    BY <2>3 DEF PartOf
  <2>6. \A k \in 1..(i + 1) : k = i + 1 \/ k \in 1..i
    OBVIOUS
  <2>7. \A k \in 1..i : k \in 1..(i + 1)
    OBVIOUS
  <2> SUFFICES /\ PartOf(y, handed, i + 1)
               /\ \A k \in 1..(i + 1) : keep[k] => handed[k].entry \in EntriesIn(y)
    OBVIOUS
  <2> HIDE DEF z, y
  <2>8. CASE ~keep[i + 1]
    BY <2>4, <2>5, <2>6, <2>7, <2>8 DEF PartOf
  <2>9. CASE keep[i + 1]
    <3>1. y = Append(z, handed[i + 1]) /\ handed[i + 1] \in Assembled
      BY <1>1, <2>2, <2>4, <2>9
    <3>2. /\ y \in Seq(Assembled) /\ Len(y) = Len(z) + 1 /\ Len(z) \in Nat
          /\ \A j \in 1..Len(z) : y[j] = z[j]
          /\ y[Len(z) + 1] = handed[i + 1]
          /\ EntriesIn(y) = EntriesIn(z) \cup {handed[i + 1].entry}
      BY <2>5, <3>1, AppendOne
    <3>3. \A j \in 1..Len(y) : \E k \in 1..(i + 1) : y[j] = handed[k]
      BY <2>5, <2>7, <3>2, SMTT(30)
    <3>4. ASSUME Increasing(handed)
          PROVE  Increasing(y)
      <4>1. SUFFICES ASSUME NEW j \in 1..Len(y), NEW l \in 1..Len(y), j < l
                     PROVE  y[j].entry < y[l].entry
        BY <3>2, AssembledTyped DEF Increasing
      <4>2. j \in 1..Len(z) /\ y[j] = z[j]
        BY <3>2, <4>1
      <4>3. CASE l \in 1..Len(z)
        <5>1. y[l] = z[l] /\ DOMAIN z = 1..Len(z)
          BY <2>5, <3>2, <4>3, AssembledTyped
        <5> QED
          BY <2>5, <3>4, <4>1, <4>2, <4>3, <5>1 DEF Increasing
      <4>4. CASE l = Len(z) + 1
        <5>1. PICK k \in 1..i : z[j] = handed[k]
          BY <2>5, <4>2
        <5>2. k \in DOMAIN handed /\ i + 1 \in DOMAIN handed /\ k < i + 1
          BY <1>1, <2>2
        <5>3. handed[k].entry < handed[i + 1].entry
          BY <3>4, <5>2 DEF Increasing
        <5> QED
          BY <3>2, <4>2, <4>4, <5>1, <5>3
      <4> QED
        BY <3>2, <4>3, <4>4
    <3> QED
      BY <2>5, <2>6, <3>2, <3>3, <3>4 DEF PartOf
  <2> QED
    BY <2>8, <2>9
<1>5. Len(handed) \in R
  <2> HIDE DEF R
  <2> QED
    BY <1>1, <1>3, <1>4, SetInduction
<1> QED
  BY <1>1, <1>5

\* Whatever the reader, it hands on a part of the entries in their order and
\* counts the others among those that may be lost.
LEMMA Handled ==
    ASSUME NEW handed \in Seq(Assembled), NEW lost, HandleEntries(handed, lost), emitted \in Seq(Assembled)
    PROVE  \E z : /\ PartOf(z, handed, Len(handed))
                  /\ emitted' = emitted \o z
                  /\ missable \cup lost \subseteq missable'
                  /\ EntriesIn(handed) \subseteq missable' \cup EntriesIn(z)
<1>0. Len(handed) \in Nat /\ DOMAIN handed = 1..Len(handed)
  BY AssembledTyped
<1>1. PartOf(handed, handed, Len(handed))
  BY <1>0 DEF PartOf
<1>2. CASE PushErrors(handed, lost)
  BY <1>1, <1>2 DEF PushErrors
<1>3. CASE SendEvents(handed, lost)
  <2>1. PICK keep \in [DOMAIN handed -> BOOLEAN] :
          /\ emitted' = emitted \o Sent(handed, keep)[Len(handed)]
          /\ missable' = missable \cup lost \cup {handed[i].entry : i \in {j \in DOMAIN handed : ~keep[j]}}
    BY <1>3 DEF SendEvents
  <2> DEFINE z == Sent(handed, keep)[Len(handed)]
  <2>2. PartOf(z, handed, Len(handed)) /\ \A k \in 1..Len(handed) : keep[k] => handed[k].entry \in EntriesIn(z)
    BY SentFacts
  <2> HIDE DEF z
  <2>3. ASSUME NEW x \in EntriesIn(handed)
        PROVE  x \in missable' \cup EntriesIn(z)
    <3>1. PICK k \in 1..Len(handed) : x = handed[k].entry
      BY <1>0 DEF EntriesIn
    <3>2. CASE keep[k]
      BY <2>2, <3>1, <3>2
    <3>3. CASE ~keep[k]
      BY <1>0, <2>1, <3>1, <3>3
    <3> QED
      BY <3>2, <3>3
  <2>4. missable \cup lost \subseteq missable' /\ emitted' = emitted \o z
    BY <2>1 DEF z
  <2>5. EntriesIn(handed) \subseteq missable' \cup EntriesIn(z)
    BY <2>3
  <2> QED
    BY <2>2, <2>4, <2>5
<1>4. CASE SendBatch(handed, lost)
  <2>1. CASE emitted' = emitted \o handed /\ missable' = missable \cup lost
    BY <1>1, <2>1
  <2>2. CASE missable' = missable \cup lost \cup EntriesIn(handed) /\ emitted' = emitted
    <3>1. PartOf(<<>>, handed, Len(handed))
      BY DEF PartOf, Increasing
    <3>2. emitted' = emitted \o <<>>
      BY <2>2
    <3> QED
      BY <2>2, <3>1, <3>2
  <2> QED
    BY <1>4, <2>1, <2>2 DEF SendBatch
<1> QED
  BY <1>2, <1>3, <1>4 DEF HandleEntries
-----------------------------------------------------------------------------
(* What is unread of a file. *)

Suffix(c, p) == SubSeq(c, p + 1, Len(c))

\* The unread part of a file, line by line.
LEMMA SuffixFacts ==
    ASSUME NEW c \in Seq(Piece), NEW p \in Nat
    PROVE  /\ Suffix(c, p) \in Seq(Piece)
           /\ p <= Len(c) => Len(Suffix(c, p)) = Len(c) - p
           /\ p >= Len(c) => Suffix(c, p) = <<>>
           /\ \A i \in 1..Len(Suffix(c, p)) : p + i \in 1..Len(c) /\ Suffix(c, p)[i] = c[p + i]
<1>1. Len(c) \in Nat
  OBVIOUS
<1>2. CASE p < Len(c)
  <2>1. Len(Suffix(c, p)) = Len(c) - p
    BY <1>1, <1>2 DEF Suffix
  <2>2. \A i \in 1..(Len(c) - p) : p + i \in 1..Len(c) /\ Suffix(c, p)[i] = c[p + i]
    BY <1>1, <1>2 DEF Suffix
  <2>3. Suffix(c, p) \in Seq(Piece)
    BY <1>1, <1>2 DEF Suffix
  <2> QED
    BY <1>1, <1>2, <2>1, <2>2, <2>3
<1>3. CASE p >= Len(c)
  <2>1. Suffix(c, p) = <<>>
    BY <1>1, <1>3 DEF Suffix
  <2> QED
    BY <1>1, <1>3, <2>1
<1> QED
  BY <1>1, <1>2, <1>3

\* A line appended to a file is appended to what is unread of it, unless the
\* offset is past the end.
LEMMA SuffixAppend ==
    ASSUME NEW c \in Seq(Piece), NEW p \in Nat, NEW e \in Piece
    PROVE  /\ Append(c, e) \in Seq(Piece) /\ Len(Append(c, e)) = Len(c) + 1
           /\ p <= Len(c) => Suffix(Append(c, e), p) = Append(Suffix(c, p), e)
           /\ p > Len(c) => Suffix(Append(c, e), p) = Suffix(c, p)
<1>1. Len(c) \in Nat /\ Append(c, e) \in Seq(Piece) /\ Len(Append(c, e)) = Len(c) + 1
  OBVIOUS
<1>2. CASE p > Len(c)
  <2>1. p >= Len(Append(c, e)) /\ p >= Len(c) /\ ~(p <= Len(c))
    BY <1>1, <1>2
  <2> QED
    BY <1>1, <2>1, SuffixFacts
<1>3. CASE p <= Len(c)
  <2> DEFINE d == Append(c, e)
             y == Suffix(d, p)
             z == Suffix(c, p)
  <2>1. /\ z \in Seq(Piece) /\ Len(z) = Len(c) - p
        /\ \A i \in 1..Len(z) : z[i] = c[p + i]
    BY <1>1, <1>3, SuffixFacts
  <2>2. d \in Seq(Piece) /\ Len(d) = Len(c) + 1 /\ p <= Len(d)
    BY <1>1, <1>3
  <2>3. d[Len(c) + 1] = e /\ \A i \in 1..Len(c) : d[i] = c[i]
    OBVIOUS
  <2> HIDE DEF d
  <2>4. /\ y \in Seq(Piece) /\ Len(y) = (Len(c) + 1) - p
        /\ \A i \in 1..Len(y) : y[i] = d[p + i]
    BY <2>2, SuffixFacts
  <2> HIDE DEF y, z
  <2>5. /\ Append(z, e) \in Seq(Piece) /\ Len(Append(z, e)) = Len(z) + 1 /\ Len(z) \in Nat
        /\ Append(z, e)[Len(z) + 1] = e /\ \A i \in 1..Len(z) : Append(z, e)[i] = z[i]
    BY <2>1
  <2>6. Len(Append(z, e)) = Len(y)
    BY <1>1, <2>1, <2>4, <2>5
  <2>7. ASSUME NEW i \in 1..Len(y)
        PROVE  y[i] = Append(z, e)[i]
    <3>1. CASE i = Len(y)
      <4>1. i = Len(z) + 1 /\ p + i = Len(c) + 1
        BY <1>1, <2>1, <2>4, <3>1
      <4> QED
        BY <2>3, <2>4, <2>5, <4>1
    <3>2. CASE i # Len(y)
      <4>1. i \in 1..Len(z) /\ p + i \in 1..Len(c)
        BY <1>1, <2>1, <2>4, <3>2
      <4> QED
        BY <2>1, <2>3, <2>4, <2>5, <4>1
    <3> QED
      BY <3>1, <3>2
  <2>8. y = Append(z, e)
    BY <2>4, <2>5, <2>6, <2>7, SMTT(30)
  <2> QED
    BY <1>1, <1>3, <2>8 DEF y, z, d
<1> QED
  BY <1>1, <1>2, <1>3

\* What is unread of a file is in the order of the file.
LEMMA SuffixInOrder ==
    ASSUME NEW c \in Seq(Piece), NEW p \in Nat, InFileOrder(c)
    PROVE  InFileOrder(Suffix(c, p))
<1> DEFINE z == Suffix(c, p)
<1>1. /\ z \in Seq(Piece) /\ Len(z) \in Nat /\ Len(c) \in Nat /\ DOMAIN z = 1..Len(z) /\ DOMAIN c = 1..Len(c)
      /\ \A i \in 1..Len(z) : p + i \in 1..Len(c) /\ z[i] = c[p + i]
  BY SuffixFacts
<1> HIDE DEF z
<1>2. SUFFICES ASSUME NEW i \in 1..Len(z)
               PROVE  /\ z[i].part # "rest" => \A j \in 1..(i - 1) : z[j].entry < z[i].entry
                      /\ z[i].part = "rest" /\ i > 1 =>
                           z[i - 1].entry = z[i].entry /\ z[i - 1].part # "rest"
  BY <1>1 DEF InFileOrder, z
<1>3. p + i \in DOMAIN c /\ z[i] = c[p + i]
  BY <1>1
<1>4. ASSUME z[i].part # "rest", NEW j \in 1..(i - 1)
      PROVE  z[j].entry < z[i].entry
  <2>1. j \in 1..Len(z) /\ p + j \in 1..((p + i) - 1)
    BY <1>1
  <2> QED
    BY <1>1, <1>3, <1>4, <2>1 DEF InFileOrder
<1>5. ASSUME z[i].part = "rest", i > 1
      PROVE  z[i - 1].entry = z[i].entry /\ z[i - 1].part # "rest"
  <2>1. i - 1 \in 1..Len(z) /\ p + i > 1 /\ p + (i - 1) = (p + i) - 1
    BY <1>1, <1>5
  <2> QED
    BY <1>1, <1>3, <1>5, <2>1 DEF InFileOrder
<1> QED
  BY <1>4, <1>5

\* What a line adds to what is unread.
LEMMA AppendPiece ==
    ASSUME NEW u \in Seq(Piece), NEW e \in Piece
    PROVE  /\ Append(u, e) # <<>> /\ Append(u, e) \in Seq(Piece)
           /\ Append(u, e)[1] = IF u = <<>> THEN e ELSE u[1]
           /\ EntriesIn(Append(u, e)) = EntriesIn(u) \cup {e.entry}
           /\ Headers(Append(u, e)) = Headers(u) \cup (IF e.part # "rest" THEN {e.entry} ELSE {})
           /\ \A n : RestAfter(Append(u, e), 0, n) <=>
                       RestAfter(u, 0, n) \/ (e.part = "rest" /\ e.entry = n)
<1> DEFINE z == Append(u, e)
<1>1. /\ z \in Seq(Piece) /\ Len(z) = Len(u) + 1 /\ Len(u) \in Nat
      /\ DOMAIN z = 1..(Len(u) + 1) /\ DOMAIN u = 1..Len(u)
      /\ z[Len(u) + 1] = e /\ z # <<>>
  OBVIOUS
<1>2. \A i \in 1..Len(u) : z[i] = u[i]
  OBVIOUS
<1>3. u = <<>> <=> Len(u) = 0
  OBVIOUS
<1> HIDE DEF z
<1>4. \A i : i \in 1..(Len(u) + 1) <=> i \in 1..Len(u) \/ i = Len(u) + 1
  BY <1>1
<1>5. z[1] = IF u = <<>> THEN e ELSE u[1]
  BY <1>1, <1>2, <1>3
<1>6. EntriesIn(z) = EntriesIn(u) \cup {e.entry}
  BY <1>1, <1>2, <1>4 DEF EntriesIn
<1>7. Headers(z) = Headers(u) \cup (IF e.part # "rest" THEN {e.entry} ELSE {})
  BY <1>1, <1>2, <1>4 DEF Headers
<1>8. ASSUME NEW n
      PROVE  RestAfter(z, 0, n) <=> RestAfter(u, 0, n) \/ (e.part = "rest" /\ e.entry = n)
  BY <1>1, <1>2, <1>4 DEF RestAfter
<1> QED
  BY <1>1, <1>5, <1>6, <1>7, <1>8 DEF z

\* Nothing unread.
LEMMA NothingUnread ==
    EntriesIn(<<>>) = {} /\ Headers(<<>>) = {} /\ \A n : ~RestAfter(<<>>, 0, n)
BY DEF EntriesIn, Headers, RestAfter

\* What is unread, without the case of a closed file.
LEMMA UnreadIs ==
    ASSUME TailTyped
    PROVE  /\ Unread = IF fd.file = 0 THEN <<>> ELSE Suffix(files[fd.file], fd.pos)
           /\ Unread \in Seq(Piece) /\ fd.pos \in Nat
           /\ fd.file # 0 => fd.file \in 1..Len(files) /\ files[fd.file] \in Seq(Piece)
           /\ path # 0 => path \in 1..Len(files) /\ files[path] \in Seq(Piece)
<1>1. Unread = IF fd.file = 0 THEN <<>> ELSE Suffix(files[fd.file], fd.pos)
  BY DEF Unread, Content, Suffix
<1>2. fd.pos \in Nat /\ Len(files) \in Nat /\ fd.file \in 0..Len(files) /\ path \in 0..Len(files)
      /\ files \in Seq(Seq(Piece))
  BY DEF TailTyped
<1>3. \A f \in 1..Len(files) : files[f] \in Seq(Piece)
  BY <1>2
<1>4. fd.file # 0 => fd.file \in 1..Len(files) /\ files[fd.file] \in Seq(Piece)
  BY <1>2, <1>3
<1>5. path # 0 => path \in 1..Len(files) /\ files[path] \in Seq(Piece)
  BY <1>2, <1>3
<1>6. Unread \in Seq(Piece)
  BY <1>1, <1>2, <1>4, SuffixFacts
<1> QED
  BY <1>1, <1>2, <1>4, <1>5, <1>6

\* What a write does to the files and to what is unread.
LEMMA Appended ==
    ASSUME TailTyped, ReaderOK, NEW n \in Nat \ {0}, NEW part \in {"head", "cut", "rest"},
           Append1(n, part), NEW e, e = [entry |-> n, part |-> part]
    PROVE  /\ e \in Piece /\ e.entry = n /\ e.part = part
           /\ files' \in Seq(Seq(Piece)) /\ path' \in 1..Len(files') /\ Len(files) <= Len(files')
           /\ \A f \in 1..Len(files') : f # path' => f \in 1..Len(files) /\ files'[f] = files[f]
           /\ path = 0 => files'[path'] = <<e>>
           /\ path # 0 => path' = path /\ files'[path'] = Append(files[path], e)
           /\ fd.file # 0 => Len(files[fd.file]) <= Len(files'[fd.file]) /\ Len(files'[fd.file]) \in Nat
           /\ Follows' <=> Follows
           /\ Unread' = Unread \/ Unread' = Append(Unread, e)
           /\ Follows => Unread' = Append(Unread, e)
           /\ ~Follows => n \in missable' /\ (~fd.torn => Unread' = Unread)
           /\ missable \subseteq missable'
<1>0. e \in Piece /\ e.entry = n /\ e.part = part
  BY DEF Piece
<1>1. Len(files) \in Nat /\ files \in Seq(Seq(Piece)) /\ path \in 0..Len(files) /\ fd.file \in 0..Len(files)
      /\ \A f \in 1..Len(files) : files[f] \in Seq(Piece)
  BY DEF TailTyped
<1>2. fd' = fd /\ missable' = IF Follows THEN missable ELSE missable \cup {n}
  BY DEF Append1
<1>3. CASE path = 0
  <2>1. files' = Append(files, <<e>>) /\ path' = Len(files) + 1
    BY <1>3 DEF Append1
  <2>2. <<e>> \in Seq(Piece)
    BY <1>0
  <2>3. files' \in Seq(Seq(Piece)) /\ Len(files') = Len(files) + 1 /\ files'[Len(files) + 1] = <<e>>
    BY <1>1, <2>1, <2>2
  <2>4. \A f \in 1..Len(files) : files'[f] = files[f]
    BY <1>1, <2>1
  <2>5. \A f \in 1..Len(files') : f # path' => f \in 1..Len(files)
    BY <1>1, <2>1, <2>3
  <2>6. ~Follows
    BY <1>3 DEF Follows
  <2>7. ~(Follows')
    BY <1>1, <1>2, <2>1 DEF Follows
  <2>8. Unread' = Unread
    BY <1>1, <1>2, <2>4 DEF Unread, Content
  <2>9. fd.file # 0 => Len(files[fd.file]) <= Len(files'[fd.file]) /\ Len(files'[fd.file]) \in Nat
    BY <1>1, <2>4
  <2>10. path' \in 1..Len(files') /\ Len(files) <= Len(files')
    BY <1>1, <2>1, <2>3
  <2>11. n \in missable' /\ missable \subseteq missable'
    BY <1>2, <2>6
  <2> QED
    BY <1>0, <1>3, <2>1, <2>3, <2>4, <2>5, <2>6, <2>7, <2>8, <2>9, <2>10, <2>11
<1>4. CASE path # 0
  <2> DEFINE c == files[path]
             d == Append(c, e)
  <2>1. path \in 1..Len(files) /\ c \in Seq(Piece)
    BY <1>1, <1>4
  <2>2. files' = [files EXCEPT ![path] = d] /\ path' = path
    BY <1>4 DEF Append1
  <2>3. d \in Seq(Piece) /\ Len(d) = Len(c) + 1
    BY <1>0, <2>1
  <2> HIDE DEF c, d
  <2>4. files' \in Seq(Seq(Piece)) /\ Len(files') = Len(files) /\ files'[path] = d
        /\ \A f \in 1..Len(files) : f # path => files'[f] = files[f]
    BY <1>1, <2>1, <2>2, <2>3
  <2>5. Follows' <=> Follows
    <3>1. fd' = fd /\ path' = path
      BY <1>2, <2>2
    <3> QED
      BY <3>1 DEF Follows
  <2>6. fd.file # 0 /\ fd.file # path => files'[fd.file] = files[fd.file]
    <3>1. fd.file # 0 => fd.file \in 1..Len(files)
      BY UnreadIs
    <3> QED
      BY <2>4, <3>1
  <2>7. Unread = (IF fd.file = 0 THEN <<>> ELSE Suffix(files[fd.file], fd.pos))
        /\ Unread' = (IF fd.file = 0 THEN <<>> ELSE Suffix(files'[fd.file], fd.pos)) /\ fd.pos \in Nat
    BY <1>2, UnreadIs DEF Unread, Content, Suffix
  <2>8. fd.file # path \/ fd.file = 0 => Unread' = Unread /\ ~Follows
    BY <2>6, <2>7 DEF Follows
  <2>9. fd.file = path => /\ fd.pos <= Len(c) => Unread' = Append(Unread, e)
                          /\ fd.pos > Len(c) => Unread' = Unread
    <3>1. fd.file = path => Unread = Suffix(c, fd.pos) /\ Unread' = Suffix(d, fd.pos)
      BY <1>4, <2>4, <2>7 DEF c
    <3> QED
      BY <1>0, <2>1, <2>7, <3>1, SuffixAppend DEF d
  <2>10. Len(c) \in Nat
    BY <2>1
  <2>11. fd.file = path /\ ~fd.torn => fd.pos <= Len(c)
    BY <1>4 DEF ReaderOK, Content, c
  <2>12. Unread' = Unread \/ Unread' = Append(Unread, e)
    BY <2>7, <2>8, <2>9, <2>10
  <2>13. Follows => Unread' = Append(Unread, e)
    BY <2>9, <2>11 DEF Follows
  <2>14. ~Follows => (~fd.torn => Unread' = Unread)
    BY <1>4, <2>8 DEF Follows
  <2>15. fd.file # 0 => Len(files[fd.file]) <= Len(files'[fd.file]) /\ Len(files'[fd.file]) \in Nat
    <3>1. CASE fd.file = path
      BY <2>1, <2>3, <2>4, <2>10, <3>1 DEF c
    <3>2. CASE fd.file # 0 /\ fd.file # path
      BY <1>1, <2>6, <3>2
    <3> QED
      BY <1>4, <3>1, <3>2
  <2>16. \A f \in 1..Len(files') : f # path' => f \in 1..Len(files) /\ files'[f] = files[f]
    BY <2>2, <2>4
  <2>17. path' \in 1..Len(files') /\ Len(files) <= Len(files')
    BY <1>1, <2>1, <2>2, <2>4
  <2>18. missable \subseteq missable' /\ (~Follows => n \in missable')
    BY <1>2
  <2>19. files'[path'] = Append(files[path], e)
    BY <2>2, <2>4 DEF c, d
  <2> QED
    BY <1>0, <1>4, <2>2, <2>4, <2>5, <2>12, <2>13, <2>14, <2>15, <2>16, <2>17, <2>18, <2>19
<1> QED
  BY <1>3, <1>4

\* The line a write adds at the end of a file keeps the file in order.
LEMMA AppendInOrder ==
    ASSUME NEW c \in Seq(Piece), InFileOrder(c), NEW e \in Piece,
           e.part # "rest" => \A i \in 1..Len(c) : c[i].entry < e.entry,
           e.part = "rest" /\ c # <<>> => c[Len(c)].entry = e.entry /\ c[Len(c)].part # "rest"
    PROVE  InFileOrder(Append(c, e))
<1> DEFINE z == Append(c, e)
<1>1. /\ z \in Seq(Piece) /\ Len(z) = Len(c) + 1 /\ Len(c) \in Nat
      /\ DOMAIN z = 1..(Len(c) + 1) /\ DOMAIN c = 1..Len(c) /\ z[Len(c) + 1] = e
  OBVIOUS
<1>2. \A i \in 1..Len(c) : z[i] = c[i]
  OBVIOUS
<1>3. Len(c) > 0 => c # <<>>
  OBVIOUS
<1> HIDE DEF z
<1>4. SUFFICES ASSUME NEW i \in 1..(Len(c) + 1)
               PROVE  /\ z[i].part # "rest" => \A j \in 1..(i - 1) : z[j].entry < z[i].entry
                      /\ z[i].part = "rest" /\ i > 1 =>
                           z[i - 1].entry = z[i].entry /\ z[i - 1].part # "rest"
  BY <1>1 DEF InFileOrder, z
<1>5. CASE i = Len(c) + 1
  <2>1. \A j \in 1..(i - 1) : j \in 1..Len(c) /\ z[j] = c[j]
    BY <1>1, <1>2, <1>5
  <2>2. i > 1 => i - 1 = Len(c) /\ Len(c) > 0 /\ i - 1 \in 1..(i - 1)
    BY <1>1, <1>5
  <2> QED
    BY <1>1, <1>3, <1>5, <2>1, <2>2
<1>6. CASE i # Len(c) + 1
  <2>1. i \in DOMAIN c /\ z[i] = c[i] /\ \A j \in 1..(i - 1) : j \in 1..Len(c) /\ z[j] = c[j]
    BY <1>1, <1>2, <1>6
  <2>2. i > 1 => i - 1 \in 1..(i - 1)
    BY <1>1
  <2> QED
    BY <2>1, <2>2 DEF InFileOrder
<1> QED
  BY <1>5, <1>6

\* A file that grows still holds the reader's offset and last size.
LEMMA StillWithin ==
    ASSUME TailTyped, ReaderOK, fd.file # 0, ~fd.torn, Len(files'[fd.file]) \in Nat,
           Len(files[fd.file]) <= Len(files'[fd.file])
    PROVE  fd.pos <= Len(files'[fd.file]) /\ fd.lastSize <= Len(files'[fd.file])
<1>1. fd.pos <= Len(files[fd.file]) /\ fd.lastSize <= Len(files[fd.file])
  BY DEF ReaderOK, Content
<1>2. fd.pos \in Nat /\ fd.lastSize \in Nat
  BY DEF TailTyped
<1>3. Len(files[fd.file]) \in Nat
  <2>1. files[fd.file] \in Seq(Piece)
    BY UnreadIs
  <2> QED
    BY <2>1
<1>4. \A x, y, z \in Nat : x <= y /\ y <= z => x <= z
  OBVIOUS
<1> QED
  BY <1>1, <1>2, <1>3, <1>4, Zenon
-----------------------------------------------------------------------------
(* What Odoo writes. *)

\* The first line of an entry.
LEMMA WriteHeaderKeeps ==
    ASSUME TailInv, NEW part \in {"head", "cut"}, WriteHeader(part)
    PROVE  TailInv'
<1> DEFINE n == written + 1
           e == [entry |-> n, part |-> part]
<1> USE DEF TailInv
<1>1. /\ written \in Nat /\ n \in Nat \ {0} /\ written < n /\ part \in {"head", "cut", "rest"} /\ part # "rest"
      /\ complete \subseteq 1..written /\ n \notin complete
      /\ acc \in Assembled /\ acc.entry \in Nat /\ acc.entry <= written
      /\ emitted \in Seq(Assembled) /\ DOMAIN emitted = 1..Len(emitted)
  BY AssembledTyped DEF TailTyped, Assembled
<1>2. /\ written' = n /\ Append1(n, part)
      /\ UNCHANGED <<tailer, fd, acc, emitted, mangled, complete>>
  BY DEF WriteHeader, Append1
<1> HIDE DEF n
<1>3. /\ e \in Piece /\ e.entry = n /\ e.part = part
      /\ files' \in Seq(Seq(Piece)) /\ path' \in 1..Len(files') /\ Len(files) <= Len(files')
      /\ \A f \in 1..Len(files') : f # path' => f \in 1..Len(files) /\ files'[f] = files[f]
      /\ path = 0 => files'[path'] = <<e>>
      /\ path # 0 => path' = path /\ files'[path'] = Append(files[path], e)
      /\ fd.file # 0 => Len(files[fd.file]) <= Len(files'[fd.file]) /\ Len(files'[fd.file]) \in Nat
      /\ Follows' <=> Follows
      /\ Unread' = Unread \/ Unread' = Append(Unread, e)
      /\ Follows => Unread' = Append(Unread, e)
      /\ ~Follows => n \in missable' /\ (~fd.torn => Unread' = Unread)
      /\ missable \subseteq missable'
  BY <1>1, <1>2, Appended
<1> HIDE DEF e
<1>4. Unread \in Seq(Piece) /\ (path # 0 => path \in 1..Len(files) /\ files[path] \in Seq(Piece))
  BY UnreadIs
<1>5. /\ Append(Unread, e) # <<>>
      /\ Append(Unread, e)[1] = IF Unread = <<>> THEN e ELSE Unread[1]
      /\ EntriesIn(Append(Unread, e)) = EntriesIn(Unread) \cup {n}
      /\ Headers(Append(Unread, e)) = Headers(Unread) \cup {n}
      /\ \A k : RestAfter(Append(Unread, e), 0, k) <=> RestAfter(Unread, 0, k)
  BY <1>1, <1>3, <1>4, AppendPiece
<1>6. Doubtful \subseteq Doubtful'
  BY <1>2, <1>3 DEF Doubtful
<1>7. TailTyped'
  <2>1. acc'.entry <= written' /\ complete' \subseteq 1..written' /\ written' \in Nat
    BY <1>1, <1>2
  <2>2. path' \in 0..Len(files') /\ fd'.file \in 0..Len(files')
    <3>1. Len(files) \in Nat /\ Len(files') \in Nat /\ fd.file \in 0..Len(files)
      BY <1>3 DEF TailTyped
    <3> QED
      BY <1>2, <1>3, <3>1
  <2> QED
    BY <1>2, <1>3, <2>1, <2>2 DEF TailTyped
<1>8. FilesOK'
  <2>1. ASSUME NEW f \in 1..Len(files'), f # path'
        PROVE  /\ InFileOrder(files'[f])
               /\ \A i \in DOMAIN files'[f] :
                    files'[f][i].entry <= written' /\
                    (files'[f][i].part = "rest" => files'[f][i].entry \in complete')
    <3>1. f \in 1..Len(files) /\ files'[f] = files[f]
      BY <1>3, <2>1
    <3>2. files[f] \in Seq(Piece)
      BY <3>1 DEF TailTyped
    <3>3. \A i \in DOMAIN files[f] : files[f][i].entry \in Nat
      BY <3>2, PiecesTyped
    <3> QED
      BY <1>1, <1>2, <3>1, <3>3 DEF FilesOK
  <2>2. CASE path = 0
    <3>1. files'[path'] = <<e>> /\ Len(<<e>>) = 1 /\ DOMAIN <<e>> = {1} /\ <<e>>[1] = e
      BY <1>3, <2>2
    <3>2. InFileOrder(files'[path'])
      BY <1>1, <1>3, <3>1 DEF InFileOrder
    <3>3. \A i \in DOMAIN files'[path'] :
            files'[path'][i].entry <= written' /\ files'[path'][i].part # "rest"
      BY <1>1, <1>2, <1>3, <3>1
    <3>4. files'[path'][Len(files'[path'])] = e /\ ~(n \in complete')
      BY <1>1, <1>2, <3>1
    <3>5. \A f \in 1..Len(files') :
            /\ InFileOrder(files'[f])
            /\ \A i \in DOMAIN files'[f] :
                 files'[f][i].entry <= written' /\
                 (files'[f][i].part = "rest" => files'[f][i].entry \in complete')
      BY <2>1, <3>2, <3>3
    <3>6. e.entry = written' /\ e.part # "rest" /\ ~(written' \in complete')
      BY <1>1, <1>2, <1>3, <3>4
    <3> QED
      BY <3>4, <3>5, <3>6 DEF FilesOK
  <2>3. CASE path # 0
    <3> DEFINE c == files[path]
               d == Append(c, e)
    <3>1. path' = path /\ files'[path'] = d /\ path \in 1..Len(files) /\ c \in Seq(Piece)
      BY <1>3, <1>4, <2>3
    <3>2. /\ DOMAIN c = 1..Len(c) /\ Len(c) \in Nat /\ Len(d) = Len(c) + 1 /\ DOMAIN d = 1..(Len(c) + 1)
          /\ d[Len(c) + 1] = e /\ \A i \in 1..Len(c) : d[i] = c[i]
      BY <3>1
    <3>3. InFileOrder(c) /\ \A i \in 1..Len(c) :
            c[i].entry \in Nat /\ c[i].entry <= written /\ (c[i].part = "rest" => c[i].entry \in complete)
      BY <3>1, <3>2, PiecesTyped DEF FilesOK
    <3> HIDE DEF c
    <3>4. \A i \in 1..Len(c) : c[i].entry < n
      BY <1>1, <3>3
    <3>5. InFileOrder(d)
      BY <1>1, <1>3, <3>1, <3>3, <3>4, AppendInOrder
    <3> HIDE DEF d
    <3>6. \A i \in DOMAIN d : d[i].entry <= written' /\ (d[i].part = "rest" => d[i].entry \in complete')
      <4>1. SUFFICES ASSUME NEW i \in DOMAIN d
                     PROVE  d[i].entry <= written' /\ (d[i].part = "rest" => d[i].entry \in complete')
        OBVIOUS
      <4>2. CASE i \in 1..Len(c)
        BY <1>1, <1>2, <3>2, <3>3, <3>4, <4>2
      <4>3. CASE i = Len(c) + 1
        BY <1>1, <1>2, <1>3, <3>2, <4>3
      <4> QED
        BY <3>2, <4>1, <4>2, <4>3
    <3>7. d[Len(d)] = e
      BY <3>2
    <3>8. ASSUME NEW f \in 1..Len(files')
          PROVE  /\ InFileOrder(files'[f])
                 /\ \A i \in DOMAIN files'[f] :
                      files'[f][i].entry <= written' /\
                      (files'[f][i].part = "rest" => files'[f][i].entry \in complete')
      <4>1. CASE f = path'
        BY <3>1, <3>5, <3>6, <4>1
      <4>2. CASE f # path'
        BY <2>1, <4>2
      <4> QED
        BY <4>1, <4>2
    <3>9. LET last == files'[path'][Len(files'[path'])]
          IN  last.entry = written' /\ (last.part = "rest" <=> written' \in complete')
      BY <1>1, <1>2, <1>3, <3>1, <3>7
    <3> QED
      BY <3>8, <3>9 DEF FilesOK
  <2> QED
    BY <2>2, <2>3
<1>9. ReaderOK'
  <2>1. fd'.file # 0 /\ ~fd'.torn =>
          fd'.pos <= Len(files'[fd'.file]) /\ fd'.lastSize <= Len(files'[fd'.file])
    BY <1>2, <1>3, StillWithin
  <2>2. ~(Follows') => EntriesIn(Unread') \subseteq missable'
    BY <1>3, <1>5 DEF ReaderOK
  <2>3. fd'.torn => acc'.entry \in Doubtful'
    BY <1>2, <1>6 DEF ReaderOK
  <2>4. fd'.file = 0 => acc'.entry = 0 /\ ~fd'.torn
    BY <1>2 DEF ReaderOK
  <2> QED
    BY <2>1, <2>2, <2>3, <2>4 DEF ReaderOK, Content
<1>10. Headers(Unread') \subseteq Headers(Unread) \cup {n} /\ Headers(Unread) \subseteq Headers(Unread')
  BY <1>3, <1>5
<1>11. TailOrder'
  <2>1. \A i \in 1..Len(emitted) : emitted[i].entry \in Nat /\ emitted[i].entry <= written
    BY <1>1, AssembledTyped DEF TailOrder
  <2>2. \A i \in 1..Len(emitted) : emitted[i].entry < n
    BY <1>1, <2>1
  <2>3. acc.entry < n
    BY <1>1
  <2>4. \A i \in 1..Len(emitted) : emitted[i].entry <= n
    BY <1>1, <2>1
  <2> QED
    BY <1>1, <1>2, <1>10, <2>2, <2>3, <2>4 DEF TailOrder
<1>12. TailAccounted'
  <2>1. n \in missable' \cup Headers(Unread')
    BY <1>3, <1>5
  <2>2. \A k \in 1..n : k = n \/ k \in 1..written
    BY <1>1 DEF n
  <2> QED
    BY <1>2, <1>3, <1>10, <2>1, <2>2 DEF TailAccounted
<1>13. EmittedWhole'
  <2>1. \A i \in 1..Len(emitted) : emitted[i].entry \in Nat
    BY <1>1, AssembledTyped
  <2>2. \A i \in 1..Len(emitted) : emitted[i].entry < written => emitted[i].entry < n
    BY <1>1, <2>1
  <2> QED
    BY <1>1, <1>2, <1>6, <2>2, SMTT(30) DEF EmittedWhole, Whole
<1>14. UnreadWhole'
  BY <1>1, <1>2, <1>3, <1>5, <1>6, <1>10, ZenonT(60) DEF UnreadWhole
<1>15. AccWhole'
  <2>1. SUFFICES ASSUME acc.entry \notin Doubtful
                 PROVE  /\ acc.cont = IF acc.entry \in complete /\ ~RestAfter(Unread', 0, acc.entry)
                                        THEN <<acc.entry>> ELSE <<>>
                        /\ Unread' # <<>> /\ Unread'[1].part = "rest" => Unread'[1].entry = acc.entry
                        /\ Follows' /\ Unread' = <<>> => acc.entry = written'
    BY <1>2, <1>6 DEF AccWhole
  <2>2. RestAfter(Unread', 0, acc.entry) <=> RestAfter(Unread, 0, acc.entry)
    BY <1>3, <1>5
  <2>3. Unread' # <<>> /\ Unread'[1].part = "rest" => Unread # <<>> /\ Unread'[1] = Unread[1]
    BY <1>1, <1>3, <1>5
  <2>4. ~(Follows' /\ Unread' = <<>>)
    BY <1>3, <1>5
  <2> QED
    BY <2>1, <2>2, <2>3, <2>4 DEF AccWhole
<1> QED
  BY <1>7, <1>8, <1>9, <1>11, <1>12, <1>13, <1>14, <1>15

\* What follows the first line.
LEMMA WriteRestKeeps ==
    ASSUME TailInv, WriteRest
    PROVE  TailInv'
<1> DEFINE n == written
           e == [entry |-> n, part |-> "rest"]
<1> USE DEF TailInv
<1>1. /\ n \in Nat \ {0} /\ n \notin complete /\ complete \subseteq 1..n
      /\ acc \in Assembled /\ acc.entry \in Nat /\ acc.entry <= n
      /\ emitted \in Seq(Assembled) /\ DOMAIN emitted = 1..Len(emitted)
      /\ \A i \in 1..Len(emitted) : emitted[i].entry \in Nat
  <2>1. n \in Nat \ {0} /\ n \notin complete /\ complete \subseteq 1..n
    BY DEF TailTyped, WriteRest
  <2>2. acc \in Assembled /\ acc.entry <= n /\ emitted \in Seq(Assembled)
    BY DEF TailTyped
  <2>3. acc.entry \in Nat
    BY <2>2 DEF Assembled
  <2> QED
    BY <2>1, <2>2, <2>3, AssembledTyped
<1>2. /\ written' = n /\ complete' = complete \cup {n} /\ Append1(n, "rest")
      /\ UNCHANGED <<tailer, fd, acc, emitted, mangled>>
  BY DEF WriteRest, Append1
<1>3. /\ e \in Piece /\ e.entry = n /\ e.part = "rest"
      /\ files' \in Seq(Seq(Piece)) /\ path' \in 1..Len(files') /\ Len(files) <= Len(files')
      /\ \A f \in 1..Len(files') : f # path' => f \in 1..Len(files) /\ files'[f] = files[f]
      /\ path = 0 => files'[path'] = <<e>>
      /\ path # 0 => path' = path /\ files'[path'] = Append(files[path], e)
      /\ fd.file # 0 => Len(files[fd.file]) <= Len(files'[fd.file]) /\ Len(files'[fd.file]) \in Nat
      /\ Follows' <=> Follows
      /\ Unread' = Unread \/ Unread' = Append(Unread, e)
      /\ Follows => Unread' = Append(Unread, e)
      /\ ~Follows => n \in missable' /\ (~fd.torn => Unread' = Unread)
      /\ missable \subseteq missable'
  BY <1>1, <1>2, Appended
<1> HIDE DEF e
<1>4. Unread \in Seq(Piece) /\ (path # 0 => path \in 1..Len(files) /\ files[path] \in Seq(Piece))
  BY UnreadIs
<1>5. /\ Append(Unread, e) # <<>>
      /\ Append(Unread, e)[1] = IF Unread = <<>> THEN e ELSE Unread[1]
      /\ EntriesIn(Append(Unread, e)) = EntriesIn(Unread) \cup {n}
      /\ Headers(Append(Unread, e)) = Headers(Unread)
      /\ \A k : RestAfter(Append(Unread, e), 0, k) <=> RestAfter(Unread, 0, k) \/ k = n
  <2>1. /\ Append(Unread, e) # <<>>
        /\ Append(Unread, e)[1] = IF Unread = <<>> THEN e ELSE Unread[1]
        /\ EntriesIn(Append(Unread, e)) = EntriesIn(Unread) \cup {e.entry}
        /\ Headers(Append(Unread, e)) = Headers(Unread) \cup (IF e.part # "rest" THEN {e.entry} ELSE {})
    BY <1>3, <1>4, AppendPiece
  <2>2. \A k : RestAfter(Append(Unread, e), 0, k) <=>
                 RestAfter(Unread, 0, k) \/ (e.part = "rest" /\ e.entry = k)
    BY <1>3, <1>4, AppendPiece
  <2>3. \A k : RestAfter(Append(Unread, e), 0, k) <=> RestAfter(Unread, 0, k) \/ k = n
    BY <1>3, <2>2, Zenon
  <2>4. Headers(Append(Unread, e)) = Headers(Unread)
    BY <1>3, <2>1
  <2> QED
    BY <1>3, <2>1, <2>3, <2>4, Zenon
<1>6. Doubtful \subseteq Doubtful' /\ (~Follows => n \in Doubtful')
  BY <1>2, <1>3 DEF Doubtful
<1>7. TailTyped'
  <2>1. acc'.entry <= written' /\ complete' \subseteq 1..written' /\ written' \in Nat
    <3>1. acc' = acc /\ written' = n /\ complete' = complete \cup {n}
      BY <1>2
    <3>2. n \in 1..n /\ complete \cup {n} \subseteq 1..n /\ acc.entry <= n /\ n \in Nat
      BY <1>1
    <3> QED
      BY <3>1, <3>2, Zenon
  <2>2. path' \in 0..Len(files') /\ fd'.file \in 0..Len(files')
    <3>1. Len(files) \in Nat /\ Len(files') \in Nat /\ fd.file \in 0..Len(files)
      BY <1>3 DEF TailTyped
    <3> QED
      BY <1>2, <1>3, <3>1
  <2> QED
    BY <1>2, <1>3, <2>1, <2>2 DEF TailTyped
<1>8. FilesOK'
  <2>1. ASSUME NEW f \in 1..Len(files'), f # path'
        PROVE  /\ InFileOrder(files'[f])
               /\ \A i \in DOMAIN files'[f] :
                    files'[f][i].entry <= written' /\
                    (files'[f][i].part = "rest" => files'[f][i].entry \in complete')
    <3>1. f \in 1..Len(files) /\ files'[f] = files[f]
      BY <1>3, <2>1
    <3> QED
      BY <1>1, <1>2, <3>1 DEF FilesOK
  <2>2. CASE path = 0
    <3>1. files'[path'] = <<e>> /\ Len(<<e>>) = 1 /\ DOMAIN <<e>> = {1} /\ <<e>>[1] = e
      BY <1>3, <2>2
    <3>2. InFileOrder(files'[path'])
      BY <1>1, <1>3, <3>1 DEF InFileOrder
    <3>3. \A i \in DOMAIN files'[path'] :
            files'[path'][i].entry <= written' /\ files'[path'][i].entry \in complete'
      BY <1>1, <1>2, <1>3, <3>1
    <3>4. files'[path'][Len(files'[path'])] = e /\ n \in complete'
      BY <1>1, <1>2, <3>1
    <3> QED
      BY <1>1, <1>2, <1>3, <2>1, <3>2, <3>3, <3>4 DEF FilesOK
  <2>3. CASE path # 0
    <3> DEFINE c == files[path]
               d == Append(c, e)
    <3>1. path' = path /\ files'[path'] = d /\ path \in 1..Len(files) /\ c \in Seq(Piece)
      BY <1>3, <1>4, <2>3
    <3>2. /\ DOMAIN c = 1..Len(c) /\ Len(c) \in Nat /\ Len(d) = Len(c) + 1 /\ DOMAIN d = 1..(Len(c) + 1)
          /\ d[Len(c) + 1] = e /\ \A i \in 1..Len(c) : d[i] = c[i]
      BY <3>1
    <3>3. InFileOrder(c) /\ \A i \in 1..Len(c) :
            c[i].entry \in Nat /\ c[i].entry <= written /\ (c[i].part = "rest" => c[i].entry \in complete)
      BY <3>1, <3>2, PiecesTyped DEF FilesOK
    <3>4. c # <<>> => c[Len(c)].entry = n /\ c[Len(c)].part # "rest"
      BY <1>1, <2>3 DEF FilesOK
    <3> HIDE DEF c
    <3>5. InFileOrder(d)
      BY <1>1, <1>3, <3>1, <3>3, <3>4, AppendInOrder
    <3> HIDE DEF d
    <3>6. \A i \in DOMAIN d : d[i].entry <= written' /\ (d[i].part = "rest" => d[i].entry \in complete')
      <4>1. SUFFICES ASSUME NEW i \in DOMAIN d
                     PROVE  d[i].entry <= written' /\ (d[i].part = "rest" => d[i].entry \in complete')
        OBVIOUS
      <4>2. CASE i \in 1..Len(c)
        BY <1>1, <1>2, <3>2, <3>3, <4>2
      <4>3. CASE i = Len(c) + 1
        BY <1>1, <1>2, <1>3, <3>2, <4>3
      <4> QED
        BY <3>2, <4>1, <4>2, <4>3
    <3>7. d[Len(d)] = e /\ n \in complete'
      BY <1>2, <3>2
    <3>8. ASSUME NEW f \in 1..Len(files')
          PROVE  /\ InFileOrder(files'[f])
                 /\ \A i \in DOMAIN files'[f] :
                      files'[f][i].entry <= written' /\
                      (files'[f][i].part = "rest" => files'[f][i].entry \in complete')
      <4>1. CASE f = path'
        BY <3>1, <3>5, <3>6, <4>1
      <4>2. CASE f # path'
        BY <2>1, <4>2
      <4> QED
        BY <4>1, <4>2
    <3>9. LET last == files'[path'][Len(files'[path'])]
          IN  last.entry = written' /\ (last.part = "rest" <=> written' \in complete')
      BY <1>1, <1>2, <1>3, <3>1, <3>7
    <3> QED
      BY <3>8, <3>9 DEF FilesOK
  <2> QED
    BY <2>2, <2>3
<1>9. ReaderOK'
  <2>1. fd'.file # 0 /\ ~fd'.torn =>
          fd'.pos <= Len(files'[fd'.file]) /\ fd'.lastSize <= Len(files'[fd'.file])
    BY <1>2, <1>3, StillWithin
  <2>2. ~(Follows') => EntriesIn(Unread') \subseteq missable'
    BY <1>3, <1>5 DEF ReaderOK
  <2>3. fd'.torn => acc'.entry \in Doubtful'
    BY <1>2, <1>6 DEF ReaderOK
  <2>4. fd'.file = 0 => acc'.entry = 0 /\ ~fd'.torn
    BY <1>2 DEF ReaderOK
  <2> QED
    BY <2>1, <2>2, <2>3, <2>4 DEF ReaderOK, Content
<1>10. Headers(Unread') = Headers(Unread)
  BY <1>3, <1>5
<1>11. TailOrder'
  BY <1>1, <1>2, <1>10 DEF TailOrder
<1>12. TailAccounted'
  BY <1>2, <1>3, <1>10 DEF TailAccounted
<1>13. EmittedWhole'
  <2>1. ASSUME NEW i \in 1..Len(emitted), emitted[i].entry \notin Doubtful
        PROVE  Whole(emitted[i])' /\ emitted[i].entry < n
    <3>1. Whole(emitted[i]) /\ emitted[i].entry < n
      BY <1>1, <2>1 DEF EmittedWhole
    <3>2. emitted[i].entry # n
      BY <1>1, <3>1
    <3> QED
      BY <1>2, <3>1, <3>2 DEF Whole
  <2> QED
    BY <1>1, <1>2, <1>6, <2>1 DEF EmittedWhole
<1>14. UnreadWhole'
  <2>1. ASSUME NEW h \in Headers(Unread), h \notin Doubtful', h \in complete'
        PROVE  RestAfter(Unread', 0, h)
    <3>1. CASE h = n
      BY <1>3, <1>5, <1>6, <2>1, <3>1
    <3>2. CASE h # n
      <4>1. RestAfter(Unread, 0, h)
        BY <1>2, <1>6, <2>1, <3>2 DEF UnreadWhole
      <4> QED
        BY <1>3, <1>5, <4>1
    <3> QED
      BY <3>1, <3>2
  <2> QED
    BY <1>10, <2>1 DEF UnreadWhole
<1>15. AccWhole'
  <2>1. SUFFICES ASSUME acc.entry \notin Doubtful'
                 PROVE  /\ acc.cont = IF acc.entry \in complete' /\ ~RestAfter(Unread', 0, acc.entry)
                                        THEN <<acc.entry>> ELSE <<>>
                        /\ Unread' # <<>> /\ Unread'[1].part = "rest" => Unread'[1].entry = acc.entry
                        /\ Follows' /\ Unread' = <<>> => acc.entry = n
    BY <1>2 DEF AccWhole
  <2>2. acc.entry \notin Doubtful /\ ~fd.torn
    BY <1>6, <2>1 DEF ReaderOK
  <2>3. acc.cont = IF acc.entry \in complete' /\ ~RestAfter(Unread', 0, acc.entry)
                     THEN <<acc.entry>> ELSE <<>>
    <3>1. CASE acc.entry = n
      <4>1. acc.cont = <<>>
        BY <1>1, <2>2, <3>1 DEF AccWhole
      <4>2. Follows
        BY <1>6, <2>1, <3>1
      <4>3. RestAfter(Unread', 0, acc.entry)
        BY <1>3, <1>5, <3>1, <4>2
      <4> QED
        BY <4>1, <4>3
    <3>2. CASE acc.entry # n
      <4>1. RestAfter(Unread', 0, acc.entry) <=> RestAfter(Unread, 0, acc.entry)
        BY <1>3, <1>5, <3>2
      <4> QED
        BY <1>2, <2>2, <3>2, <4>1 DEF AccWhole
    <3> QED
      BY <3>1, <3>2
  <2>4. Unread' # <<>> /\ Unread'[1].part = "rest" => Unread'[1].entry = acc.entry
    <3>1. CASE Unread # <<>>
      BY <1>3, <1>5, <2>2, <3>1 DEF AccWhole
    <3>2. CASE Unread = <<>> /\ Follows
      BY <1>3, <1>5, <2>2, <3>2 DEF AccWhole
    <3>3. CASE Unread = <<>> /\ ~Follows
      BY <1>3, <2>2, <3>3
    <3> QED
      BY <3>1, <3>2, <3>3
  <2>5. ~(Follows' /\ Unread' = <<>>)
    BY <1>3, <1>5
  <2> QED
    BY <2>3, <2>4, <2>5
<1> QED
  BY <1>7, <1>8, <1>9, <1>11, <1>12, <1>13, <1>14, <1>15
-----------------------------------------------------------------------------
(* What logrotate does. *)

\* The log is renamed.
LEMMA RenameKeeps ==
    ASSUME TailInv, Rename
    PROVE  TailInv'
<1> USE DEF TailInv
<1>1. /\ path' = 0 /\ missable' = missable \cup EntriesIn(Unread)
      /\ UNCHANGED <<tailer, files, fd, mangled, written, acc, emitted, complete>>
  BY DEF Rename, Rotating
<1>2. Unread' = Unread /\ ~(Follows')
  BY <1>1 DEF Unread, Content, Follows
<1>3. Doubtful \subseteq Doubtful' /\ missable \subseteq missable'
  BY <1>1 DEF Doubtful
<1>4. TailTyped'
  <2>1. Len(files) \in Nat
    BY DEF TailTyped
  <2> QED
    BY <1>1, <2>1 DEF TailTyped
<1>5. FilesOK'
  BY <1>1 DEF FilesOK
<1>6. ReaderOK'
  BY <1>1, <1>2, <1>3 DEF ReaderOK, Content
<1>7. TailOrder'
  BY <1>1, <1>2 DEF TailOrder
<1>8. TailAccounted'
  BY <1>1, <1>2, <1>3 DEF TailAccounted
<1>9. EmittedWhole'
  BY <1>1, <1>3 DEF EmittedWhole, Whole
<1>10. UnreadWhole'
  BY <1>1, <1>2, <1>3 DEF UnreadWhole
<1>11. AccWhole'
  BY <1>1, <1>2, <1>3 DEF AccWhole
<1> QED
  BY <1>4, <1>5, <1>6, <1>7, <1>8, <1>9, <1>10, <1>11

\* The log is truncated.
LEMMA TruncateKeeps ==
    ASSUME TailInv, Truncate
    PROVE  TailInv'
<1> USE DEF TailInv
<1>1. /\ path # 0 /\ path' = path /\ missable' = missable \cup EntriesIn(Unread)
      /\ files' = [files EXCEPT ![path] = <<>>]
      /\ fd' = [fd EXCEPT !.torn = @ \/ fd.file = path] /\ mangled' = mangled \cup {acc.entry}
      /\ UNCHANGED <<tailer, written, acc, emitted, complete>>
  BY DEF Truncate, Rotating
<1>2. /\ Len(files) \in Nat /\ files \in Seq(Seq(Piece)) /\ path \in 1..Len(files)
      /\ fd.file \in 0..Len(files) /\ fd.pos \in Nat
      /\ fd \in [file : Nat, pos : Nat, lastSize : Nat, checked : BOOLEAN, torn : BOOLEAN]
  BY <1>1 DEF TailTyped
<1>3. /\ files' \in Seq(Seq(Piece)) /\ Len(files') = Len(files) /\ files'[path] = <<>>
      /\ \A f \in 1..Len(files) : f # path => files'[f] = files[f]
  <2>1. <<>> \in Seq(Piece)
    OBVIOUS
  <2> QED
    BY <1>1, <1>2, <2>1
<1>4. /\ fd' \in [file : Nat, pos : Nat, lastSize : Nat, checked : BOOLEAN, torn : BOOLEAN]
      /\ fd'.file = fd.file /\ fd'.pos = fd.pos /\ fd'.lastSize = fd.lastSize
      /\ fd'.torn = (fd.torn \/ fd.file = path)
  BY <1>1, <1>2
<1>5. Unread' = Unread \/ Unread' = <<>>
  <2>0. fd.file # 0 => fd.file \in 1..Len(files)
    BY UnreadIs
  <2>1. Unread' = IF fd.file = 0 THEN <<>> ELSE Suffix(files'[fd.file], fd.pos)
    BY <1>4 DEF Unread, Content, Suffix
  <2>2. CASE fd.file = path
    <3>1. <<>> \in Seq(Piece) /\ Len(<<>>) = 0
      OBVIOUS
    <3>2. Suffix(<<>>, fd.pos) = <<>>
      <4>1. fd.pos >= Len(<<>>)
        BY <1>2, <3>1
      <4> QED
        BY <1>2, <3>1, <4>1, SuffixFacts
    <3> QED
      BY <1>3, <2>1, <2>2, <3>2
  <2>3. CASE fd.file # path
    <3>1. fd.file # 0 => files'[fd.file] = files[fd.file]
      BY <1>3, <2>0, <2>3
    <3> QED
      BY <2>1, <3>1, UnreadIs
  <2> QED
    BY <2>2, <2>3
<1>6. ~(Follows')
  BY <1>1, <1>4 DEF Follows
<1>7. Doubtful \subseteq Doubtful' /\ missable \subseteq missable' /\ acc.entry \in Doubtful'
  BY <1>1 DEF Doubtful
<1>8. Headers(Unread') \subseteq Headers(Unread) /\ EntriesIn(Unread') \subseteq missable'
      /\ \A h \in Headers(Unread') : RestAfter(Unread, 0, h) => RestAfter(Unread', 0, h)
  BY <1>1, <1>5, NothingUnread
<1>9. TailTyped'
  BY <1>1, <1>2, <1>3, <1>4 DEF TailTyped
<1>10. FilesOK'
  <2>1. ASSUME NEW f \in 1..Len(files')
        PROVE  /\ InFileOrder(files'[f])
               /\ \A i \in DOMAIN files'[f] :
                    files'[f][i].entry <= written' /\
                    (files'[f][i].part = "rest" => files'[f][i].entry \in complete')
    <3>1. CASE f = path
      <4>1. files'[f] = <<>> /\ DOMAIN <<>> = {}
        BY <1>3, <3>1
      <4> QED
        BY <4>1 DEF InFileOrder
    <3>2. CASE f # path
      BY <1>1, <1>3, <3>2 DEF FilesOK
    <3> QED
      BY <3>1, <3>2
  <2>2. files'[path'] = <<>>
    BY <1>1, <1>3
  <2> QED
    BY <2>1, <2>2 DEF FilesOK
<1>11. ReaderOK'
  <2>1. fd.file # 0 /\ fd.file # path => files'[fd.file] = files[fd.file]
    <3>1. fd.file # 0 => fd.file \in 1..Len(files)
      BY UnreadIs
    <3> QED
      BY <1>3, <3>1
  <2>2. fd'.file # 0 /\ ~fd'.torn =>
          fd'.pos <= Len(files'[fd'.file]) /\ fd'.lastSize <= Len(files'[fd'.file])
    BY <1>4, <2>1 DEF ReaderOK, Content
  <2>3. fd'.file = 0 => acc'.entry = 0 /\ ~fd'.torn
    BY <1>1, <1>4 DEF ReaderOK
  <2> QED
    BY <1>1, <1>6, <1>7, <1>8, <2>2, <2>3 DEF ReaderOK, Content
<1>12. TailOrder'
  BY <1>1, <1>8 DEF TailOrder
<1>13. TailAccounted'
  <2>1. Headers(Unread) \subseteq missable'
    BY <1>1 DEF Headers, EntriesIn
  <2> QED
    BY <1>1, <1>7, <2>1 DEF TailAccounted
<1>14. EmittedWhole'
  BY <1>1, <1>7 DEF EmittedWhole, Whole
<1>15. UnreadWhole'
  BY <1>1, <1>7, <1>8 DEF UnreadWhole
<1>16. AccWhole'
  BY <1>1, <1>7 DEF AccWhole
<1> QED
  BY <1>9, <1>10, <1>11, <1>12, <1>13, <1>14, <1>15, <1>16
-----------------------------------------------------------------------------
(* Opening and closing the file. *)

\* Nothing is unread at the end of a file or without one.
LEMMA NothingUnreadAtEnd ==
    ASSUME TailTyped, UNCHANGED files, fd'.file = 0 \/ (fd'.file \in 1..Len(files) /\ fd'.pos \in Nat
                                                        /\ fd'.pos >= Len(files[fd'.file]))
    PROVE  Unread' = <<>>
<1>1. CASE fd'.file = 0
  BY <1>1 DEF Unread
<1>2. CASE fd'.file \in 1..Len(files) /\ fd'.pos \in Nat /\ fd'.pos >= Len(files[fd'.file])
  <2>1. files[fd'.file] \in Seq(Piece)
    BY <1>2 DEF TailTyped
  <2>2. Suffix(files[fd'.file], fd'.pos) = <<>>
    BY <1>2, <2>1, SuffixFacts
  <2>3. Unread' = IF fd'.file = 0 THEN <<>> ELSE Suffix(files[fd'.file], fd'.pos)
    BY DEF Unread, Content, Suffix
  <2> QED
    BY <2>2, <2>3
<1> QED
  BY <1>1, <1>2

\* The reader does not write the log.
LEMMA ReaderKeepsFiles ==
    ASSUME FilesOK, UNCHANGED world
    PROVE  FilesOK'
BY DEF FilesOK, world

\* The file is opened.
LEMMA OpenAtEndKeeps ==
    ASSUME TailInv, OpenAtEnd
    PROVE  TailInv'
<1> USE DEF TailInv
<1>1. /\ fd.file = 0 /\ path # 0 /\ acc' = NoEntry
      /\ fd' = [Closed EXCEPT !.file = path, !.pos = Len(files[path]), !.lastSize = Len(files[path])]
      /\ UNCHANGED <<tailer, files, path, written, complete, emitted, missable, mangled, world>>
  BY DEF OpenAtEnd, world, Content
<1>2. path \in 1..Len(files) /\ files[path] \in Seq(Piece) /\ Len(files[path]) \in Nat /\ path \in Nat
  <2>1. path \in 1..Len(files) /\ files[path] \in Seq(Piece)
    BY <1>1, UnreadIs
  <2> QED
    BY <2>1
<1>3. /\ fd' \in [file : Nat, pos : Nat, lastSize : Nat, checked : BOOLEAN, torn : BOOLEAN]
      /\ fd'.file = path /\ fd'.pos = Len(files[path]) /\ fd'.lastSize = Len(files[path]) /\ ~fd'.torn
  BY <1>1, <1>2 DEF Closed
<1>4. Unread' = <<>> /\ Unread = <<>>
  <2>1. Unread = <<>>
    BY <1>1 DEF Unread
  <2> QED
    BY <1>1, <1>2, <1>3, <2>1, NothingUnreadAtEnd
<1>5. acc' \in Assembled /\ acc'.entry = 0 /\ acc.entry = 0
  BY <1>1 DEF NoEntry, Assembled, ReaderOK
<1>6. Doubtful' = Doubtful
  BY <1>1 DEF Doubtful
<1>7. TailTyped'
  <2>1. written \in Nat /\ 0 <= written
    BY DEF TailTyped
  <2> QED
    BY <1>1, <1>2, <1>3, <1>5, <2>1 DEF TailTyped
<1>8. FilesOK'
  BY <1>1, ReaderKeepsFiles
<1>9. ReaderOK'
  BY <1>1, <1>2, <1>3, <1>4, NothingUnread DEF ReaderOK, Content
<1>10. TailOrder'
  BY <1>1, <1>4, <1>5, NothingUnread DEF TailOrder
<1>11. TailAccounted'
  BY <1>1, <1>4, <1>5 DEF TailAccounted
<1>12. EmittedWhole'
  BY <1>1, <1>6 DEF EmittedWhole, Whole
<1>13. UnreadWhole'
  BY <1>4, NothingUnread DEF UnreadWhole
<1>14. AccWhole'
  BY <1>5 DEF AccWhole, Doubtful
<1> QED
  BY <1>7, <1>8, <1>9, <1>10, <1>11, <1>12, <1>13, <1>14

\* No rotation is found.
LEMMA NotRotatedKeeps ==
    ASSUME TailInv, NotRotated
    PROVE  TailInv'
<1> USE DEF TailInv
<1> DEFINE size == Len(Content(fd.file))
<1>1. /\ fd.file # 0
      /\ fd' = [fd EXCEPT !.checked = TRUE, !.lastSize = IF tailer = "server" THEN size ELSE @]
      /\ UNCHANGED <<tailer, files, path, written, complete, acc, emitted, missable, mangled, world>>
  BY DEF NotRotated, world
<1>2. size \in Nat
  <2>1. files[fd.file] \in Seq(Piece)
    BY <1>1, UnreadIs
  <2> QED
    BY <2>1 DEF Content
<1> HIDE DEF size
<1>3. /\ fd' \in [file : Nat, pos : Nat, lastSize : Nat, checked : BOOLEAN, torn : BOOLEAN]
      /\ fd'.file = fd.file /\ fd'.pos = fd.pos /\ fd'.torn = fd.torn
      /\ fd'.lastSize = fd.lastSize \/ fd'.lastSize = size
  BY <1>1, <1>2 DEF TailTyped
<1>4. Unread' = Unread /\ (Follows' <=> Follows)
  BY <1>1, <1>3 DEF Unread, Follows, Content
<1>5. Doubtful' = Doubtful
  BY <1>1 DEF Doubtful
<1>6. TailTyped'
  BY <1>1, <1>3 DEF TailTyped
<1>7. FilesOK'
  BY <1>1, ReaderKeepsFiles
<1>8. ReaderOK'
  <2>1. size <= size
    BY <1>2
  <2>2. ~fd.torn => fd.pos <= size /\ fd.lastSize <= size
    BY <1>1 DEF ReaderOK, size
  <2>3. Len(files'[fd'.file]) = size
    BY <1>1, <1>3 DEF size, Content
  <2>4. fd'.file # 0 /\ ~fd'.torn => fd'.pos <= size /\ fd'.lastSize <= size
    BY <1>1, <1>3, <2>1, <2>2
  <2> QED
    BY <1>1, <1>3, <1>4, <1>5, <2>3, <2>4 DEF ReaderOK, Content
<1>9. TailOrder'
  BY <1>1, <1>4 DEF TailOrder
<1>10. TailAccounted'
  BY <1>1, <1>4 DEF TailAccounted
<1>11. EmittedWhole'
  BY <1>1, <1>5 DEF EmittedWhole, Whole
<1>12. UnreadWhole'
  BY <1>1, <1>4, <1>5 DEF UnreadWhole
<1>13. AccWhole'
  BY <1>1, <1>4, <1>5 DEF AccWhole
<1> QED
  BY <1>6, <1>7, <1>8, <1>9, <1>10, <1>11, <1>12, <1>13

\* What is handed on is added at the end.
LEMMA EmittedMore ==
    ASSUME NEW m \in Seq(Assembled), NEW z \in Seq(Assembled), Increasing(m), Increasing(z),
           \A i \in 1..Len(m), j \in 1..Len(z) : m[i].entry < z[j].entry
    PROVE  /\ m \o z \in Seq(Assembled) /\ Increasing(m \o z)
           /\ EntriesIn(m \o z) = EntriesIn(m) \cup EntriesIn(z)
           /\ \A i \in DOMAIN (m \o z) :
                 \/ i \in 1..Len(m) /\ (m \o z)[i] = m[i]
                 \/ \E j \in 1..Len(z) : (m \o z)[i] = z[j]
<1> DEFINE y == m \o z
<1>1. /\ y \in Seq(Assembled) /\ Len(m) \in Nat /\ Len(z) \in Nat /\ Len(y) = Len(m) + Len(z)
      /\ DOMAIN y = 1..(Len(m) + Len(z)) /\ DOMAIN m = 1..Len(m) /\ DOMAIN z = 1..Len(z)
  OBVIOUS
<1>2. \A i \in 1..Len(m) : y[i] = m[i]
  OBVIOUS
<1>3. \A j \in 1..Len(z) : y[Len(m) + j] = z[j]
  OBVIOUS
<1> HIDE DEF y
<1>4. \A i \in DOMAIN y : i \in 1..Len(m) \/ (i - Len(m) \in 1..Len(z) /\ y[i] = z[i - Len(m)])
  <2>1. SUFFICES ASSUME NEW i \in DOMAIN y, i \notin 1..Len(m)
                 PROVE  i - Len(m) \in 1..Len(z) /\ y[i] = z[i - Len(m)]
    OBVIOUS
  <2>2. i - Len(m) \in 1..Len(z) /\ Len(m) + (i - Len(m)) = i
    BY <1>1, <2>1
  <2> QED
    BY <1>3, <2>2
<1>5. Increasing(y)
  <2>1. SUFFICES ASSUME NEW i \in DOMAIN y, NEW j \in DOMAIN y, i < j
                 PROVE  y[i].entry < y[j].entry
    BY DEF Increasing
  <2>2. CASE j \in 1..Len(m)
    <3>1. i \in 1..Len(m)
      BY <1>1, <2>1, <2>2
    <3> QED
      BY <1>1, <1>2, <2>1, <2>2, <3>1 DEF Increasing
  <2>3. CASE j \notin 1..Len(m) /\ i \in 1..Len(m)
    <3>1. j - Len(m) \in 1..Len(z) /\ y[j] = z[j - Len(m)] /\ y[i] = m[i]
      BY <1>2, <1>4, <2>3
    <3> QED
      BY <2>3, <3>1
  <2>4. CASE j \notin 1..Len(m) /\ i \notin 1..Len(m)
    <3>1. /\ j - Len(m) \in DOMAIN z /\ y[j] = z[j - Len(m)]
          /\ i - Len(m) \in DOMAIN z /\ y[i] = z[i - Len(m)] /\ i - Len(m) < j - Len(m)
      BY <1>1, <1>4, <2>1, <2>4
    <3> QED
      BY <3>1 DEF Increasing
  <2> QED
    BY <2>2, <2>3, <2>4
<1>6. EntriesIn(y) = EntriesIn(m) \cup EntriesIn(z)
  <2>1. EntriesIn(y) \subseteq EntriesIn(m) \cup EntriesIn(z)
    BY <1>1, <1>2, <1>4 DEF EntriesIn
  <2>2. \A j \in 1..Len(z) : Len(m) + j \in DOMAIN y
    BY <1>1
  <2>3. \A i \in 1..Len(m) : i \in DOMAIN y
    BY <1>1
  <2>4. EntriesIn(m) \subseteq EntriesIn(y)
    BY <1>1, <1>2, <2>3 DEF EntriesIn
  <2>5. ASSUME NEW x \in EntriesIn(z)
        PROVE  x \in EntriesIn(y)
    <3>1. PICK j \in 1..Len(z) : x = z[j].entry
      BY <1>1 DEF EntriesIn
    <3>2. Len(m) + j \in DOMAIN y /\ x = y[Len(m) + j].entry
      BY <1>3, <2>2, <3>1
    <3> QED
      BY <3>2 DEF EntriesIn
  <2> QED
    BY <2>1, <2>4, <2>5
<1> QED
  BY <1>1, <1>2, <1>4, <1>5, <1>6 DEF y

\* The file is closed: the entry being assembled is handed on whole, or it may
\* be lost; what is unread may be.
LEMMA ClosingKeeps ==
    ASSUME TailInv, UNCHANGED world, fd' = Closed, acc' = NoEntry,
           NEW z \in Seq(Assembled), emitted' = emitted \o z,
           \A j \in 1..Len(z) : z[j] = acc /\ acc.entry # 0, Increasing(z),
           missable \cup EntriesIn(Unread) \subseteq missable', mangled \subseteq mangled',
           acc.entry \in missable' \cup {0} \cup EntriesIn(z),
           z # <<>> => FlushedEarly \subseteq mangled'
    PROVE  TailInv'
<1> USE DEF TailInv
<1>1. UNCHANGED <<tailer, files, path, written, complete>>
  BY DEF world
<1>2. /\ fd' \in [file : Nat, pos : Nat, lastSize : Nat, checked : BOOLEAN, torn : BOOLEAN]
      /\ fd'.file = 0 /\ ~fd'.torn
  BY DEF Closed
<1>3. acc' \in Assembled /\ acc'.entry = 0
  BY DEF NoEntry, Assembled
<1>4. Unread' = <<>>
  BY <1>2 DEF Unread
<1>5. Doubtful \subseteq Doubtful'
  BY DEF Doubtful
<1>6. /\ written \in Nat /\ emitted \in Seq(Assembled) /\ acc \in Assembled /\ acc.entry \in Nat
      /\ acc.entry <= written /\ DOMAIN emitted = 1..Len(emitted) /\ DOMAIN z = 1..Len(z) /\ Len(z) \in Nat
  BY AssembledTyped DEF TailTyped, Assembled
<1>7. \A i \in 1..Len(emitted), j \in 1..Len(z) : emitted[i].entry < z[j].entry
  BY <1>6 DEF TailOrder
<1>8. /\ emitted' \in Seq(Assembled) /\ Increasing(emitted')
      /\ EntriesIn(emitted') = EntriesIn(emitted) \cup EntriesIn(z)
      /\ \A i \in DOMAIN emitted' :
            \/ i \in 1..Len(emitted) /\ emitted'[i] = emitted[i]
            \/ \E j \in 1..Len(z) : emitted'[i] = z[j]
  BY <1>6, <1>7, EmittedMore DEF TailOrder
<1>9. TailTyped'
  <2>1. 0 <= written
    BY <1>6
  <2> QED
    BY <1>1, <1>2, <1>3, <1>8, <2>1 DEF TailTyped
<1>10. FilesOK'
  BY ReaderKeepsFiles
<1>11. ReaderOK'
  BY <1>2, <1>3, <1>4, NothingUnread DEF ReaderOK
<1>12. TailOrder'
  <2>1. \A i \in DOMAIN emitted' : emitted'[i].entry # 0 /\ emitted'[i].entry <= written
    BY <1>6, <1>8 DEF TailOrder
  <2> QED
    BY <1>1, <1>3, <1>4, <1>8, <2>1, NothingUnread DEF TailOrder
<1>13. TailAccounted'
  <2>1. Headers(Unread) \subseteq missable'
    BY DEF Headers, EntriesIn
  <2> QED
    BY <1>1, <1>8, <2>1 DEF TailAccounted
<1>14. EmittedWhole'
  <2>1. SUFFICES ASSUME NEW i \in DOMAIN emitted', emitted'[i].entry \notin Doubtful'
                 PROVE  Whole(emitted'[i]) /\ (emitted'[i].entry < written \/ emitted'[i].entry \in complete)
    BY <1>1 DEF EmittedWhole, Whole
  <2>2. CASE i \in 1..Len(emitted) /\ emitted'[i] = emitted[i]
    BY <1>5, <1>6, <2>1, <2>2 DEF EmittedWhole
  <2>3. CASE \E j \in 1..Len(z) : emitted'[i] = z[j]
    <3>1. emitted'[i] = acc /\ z # <<>> /\ acc.entry \notin Doubtful
      BY <1>5, <2>1, <2>3
    <3>2. acc.entry \in complete
      BY <2>1, <3>1 DEF FlushedEarly, Doubtful
    <3>3. ~RestAfter(Unread, 0, acc.entry)
      <4>1. RestAfter(Unread, 0, acc.entry) => acc.entry \in EntriesIn(Unread)
        <5>1. DOMAIN Unread = 1..Len(Unread)
          BY UnreadIs
        <5>2. RestAfter(Unread, 0, acc.entry) =>
                \E k \in 1..Len(Unread) : Unread[k].entry = acc.entry
          BY DEF RestAfter
        <5> QED
          BY <5>1, <5>2 DEF EntriesIn
      <4> QED
        BY <2>1, <3>1, <4>1 DEF Doubtful
    <3>4. acc.cont = <<acc.entry>>
      BY <3>1, <3>2, <3>3 DEF AccWhole
    <3> QED
      BY <3>1, <3>2, <3>4 DEF Whole
  <2> QED
    BY <1>8, <2>2, <2>3
<1>15. UnreadWhole'
  BY <1>4, NothingUnread DEF UnreadWhole
<1>16. AccWhole'
  BY <1>3 DEF AccWhole, Doubtful
<1> QED
  BY <1>9, <1>10, <1>11, <1>12, <1>13, <1>14, <1>15, <1>16

\* Nothing, or the entry being assembled.
LEMMA FlushedFacts ==
    ASSUME acc \in Assembled
    PROVE  /\ Flushed \in Seq(Assembled) /\ Increasing(Flushed)
           /\ \A j \in 1..Len(Flushed) : Flushed[j] = acc /\ acc.entry # 0
           /\ acc.entry \in {0} \cup EntriesIn(Flushed)
<1>1. CASE acc.entry = 0
  BY <1>1 DEF Flushed, Increasing
<1>2. CASE acc.entry # 0
  <2>1. Flushed = <<acc>>
    BY <1>2 DEF Flushed
  <2>2. <<acc>> \in Seq(Assembled) /\ Len(<<acc>>) = 1 /\ DOMAIN <<acc>> = {1} /\ <<acc>>[1] = acc
    OBVIOUS
  <2>3. Increasing(<<acc>>)
    BY <2>2 DEF Increasing
  <2>4. acc.entry \in EntriesIn(<<acc>>)
    BY <2>2 DEF EntriesIn
  <2> QED
    BY <1>2, <2>1, <2>2, <2>3, <2>4
<1> QED
  BY <1>1, <1>2

\* What a reader hands on of the entry being assembled.
LEMMA FlushHandled ==
    ASSUME TailTyped, NEW lost, HandleEntries(Flushed, lost)
    PROVE  \E z \in Seq(Assembled) :
              /\ emitted' = emitted \o z /\ Increasing(z)
              /\ \A j \in 1..Len(z) : z[j] = acc /\ acc.entry # 0
              /\ missable \cup lost \subseteq missable'
              /\ acc.entry \in missable' \cup {0} \cup EntriesIn(z)
<1>1. acc \in Assembled /\ emitted \in Seq(Assembled)
  BY DEF TailTyped
<1>2. /\ Flushed \in Seq(Assembled) /\ Increasing(Flushed)
      /\ \A j \in 1..Len(Flushed) : Flushed[j] = acc /\ acc.entry # 0
      /\ acc.entry \in {0} \cup EntriesIn(Flushed)
  BY <1>1, FlushedFacts
<1>3. PICK z : /\ PartOf(z, Flushed, Len(Flushed)) /\ emitted' = emitted \o z
               /\ missable \cup lost \subseteq missable'
               /\ EntriesIn(Flushed) \subseteq missable' \cup EntriesIn(z)
  BY <1>1, <1>2, Handled
<1>4. z \in Seq(Assembled) /\ Increasing(z)
  BY <1>2, <1>3 DEF PartOf
<1>5. \A j \in 1..Len(z) : z[j] = acc /\ acc.entry # 0
  BY <1>2, <1>3 DEF PartOf
<1> QED
  BY <1>2, <1>3, <1>4, <1>5

\* What was rotated is not followed.
LEMMA RotatedIsNotFollowed ==
    ASSUME TailInv, Rotated, fd.file # 0
    PROVE  ~Follows
<1> USE DEF TailInv
<1>1. SUFFICES ASSUME Follows PROVE FALSE
  OBVIOUS
<1>2. fd.lastSize <= Len(Content(fd.file)) /\ fd.file = path
  BY <1>1 DEF ReaderOK, Follows
<1>3. Len(Content(fd.file)) < fd.lastSize
  BY <1>2 DEF Rotated, FileRotated
<1>4. Len(Content(fd.file)) \in Nat /\ fd.lastSize \in Nat
  <2>1. files[fd.file] \in Seq(Piece)
    BY UnreadIs
  <2>2. fd.lastSize \in Nat
    BY DEF TailTyped
  <2> QED
    BY <2>1, <2>2 DEF Content
<1> QED
  BY <1>2, <1>3, <1>4

\* A rotation is found.
LEMMA ReopenKeeps ==
    ASSUME TailInv, Reopen
    PROVE  TailInv'
<1>1. PICK z \in Seq(Assembled) :
        /\ emitted' = emitted \o z /\ Increasing(z)
        /\ \A j \in 1..Len(z) : z[j] = acc /\ acc.entry # 0
        /\ missable \cup {} \subseteq missable'
        /\ acc.entry \in missable' \cup {0} \cup EntriesIn(z)
  BY FlushHandled DEF Reopen, TailInv
<1>2. EntriesIn(Unread) \subseteq missable
  BY RotatedIsNotFollowed DEF Reopen, TailInv, ReaderOK
<1>3. UNCHANGED world /\ fd' = Closed /\ acc' = NoEntry /\ mangled' = mangled \cup FlushedEarly
  BY DEF Reopen
<1> QED
  BY <1>1, <1>2, <1>3, ClosingKeeps

\* The agent is stopped.
LEMMA CancelKeeps ==
    ASSUME TailInv, CancelTail
    PROVE  TailInv'
<1>1. PICK z \in Seq(Assembled) :
        /\ emitted' = emitted \o z /\ Increasing(z)
        /\ \A j \in 1..Len(z) : z[j] = acc /\ acc.entry # 0
        /\ missable \cup EntriesIn(Unread) \subseteq missable'
        /\ acc.entry \in missable' \cup {0} \cup EntriesIn(z)
  BY FlushHandled DEF CancelTail, TailInv
<1>2. UNCHANGED world /\ fd' = Closed /\ acc' = NoEntry /\ mangled' = mangled \cup FlushedEarly
  BY DEF CancelTail
<1> QED
  BY <1>1, <1>2, ClosingKeeps

\* The agent is killed.
LEMMA KillKeeps ==
    ASSUME TailInv, Kill
    PROVE  TailInv'
<1>1. /\ missable' = missable \cup EntriesIn(Unread) \cup EntriesIn(Flushed)
      /\ acc' = NoEntry /\ fd' = Closed /\ emitted' = emitted /\ mangled' = mangled /\ UNCHANGED world
  BY DEF Kill
<1>2. acc \in Assembled /\ emitted \in Seq(Assembled)
  BY DEF TailInv, TailTyped
<1>3. acc.entry \in missable' \cup {0}
  BY <1>1, <1>2, FlushedFacts
<1> DEFINE z == <<>>
<1>4. /\ z \in Seq(Assembled) /\ emitted' = emitted \o z /\ Len(z) = 0 /\ Increasing(z) /\ ~(z # <<>>)
      /\ \A j \in 1..Len(z) : z[j] = acc /\ acc.entry # 0
  BY <1>1, <1>2 DEF Increasing
<1> HIDE DEF z
<1>5. /\ missable \cup EntriesIn(Unread) \subseteq missable' /\ mangled \subseteq mangled'
      /\ acc.entry \in missable' \cup {0} \cup EntriesIn(z)
  BY <1>1, <1>3
<1> QED
  BY <1>1, <1>4, <1>5, ClosingKeeps
-----------------------------------------------------------------------------
(* Reading. *)

\* What is unread can be read: the reader knows enough about it.
LEMMA UnreadReadable ==
    ASSUME TailInv
    PROVE  StateTyped /\ Readable(Unread)
<1> USE DEF TailInv
<1>1. StateTyped
  BY DEF StateTyped, TailTyped
<1>2. Unread \in Seq(Piece) /\ DOMAIN Unread = 1..Len(Unread) /\ Len(Unread) \in Nat
      /\ DOMAIN emitted = 1..Len(emitted)
  <2>1. Unread \in Seq(Piece) /\ emitted \in Seq(Assembled)
    BY UnreadIs DEF TailTyped
  <2> QED
    BY <2>1
<1>3. InFileOrder(Unread) /\ \A i \in 1..Len(Unread) :
        Unread[i].entry <= written /\ (Unread[i].part = "rest" => Unread[i].entry \in complete)
  <2>1. CASE fd.file = 0
    <3>1. Unread = <<>>
      BY <2>1 DEF Unread
    <3> QED
      BY <3>1 DEF InFileOrder
  <2>2. CASE fd.file # 0
    <3> DEFINE c == files[fd.file]
    <3>1. /\ c \in Seq(Piece) /\ fd.pos \in Nat /\ Unread = Suffix(c, fd.pos) /\ fd.file \in 1..Len(files)
          /\ DOMAIN c = 1..Len(c)
      BY <2>2, UnreadIs
    <3>2. InFileOrder(c) /\ \A i \in 1..Len(c) :
            c[i].entry <= written /\ (c[i].part = "rest" => c[i].entry \in complete)
      BY <3>1 DEF FilesOK
    <3> HIDE DEF c
    <3>3. \A i \in 1..Len(Unread) : fd.pos + i \in 1..Len(c) /\ Unread[i] = c[fd.pos + i]
      BY <3>1, SuffixFacts
    <3>4. InFileOrder(Unread)
      BY <3>1, <3>2, SuffixInOrder
    <3> QED
      BY <3>2, <3>3, <3>4
  <2> QED
    BY <2>1, <2>2
<1>4. \A i \in 1..Len(Unread) : Unread[i].part # "rest" => Unread[i].entry \in Headers(Unread)
  BY <1>2 DEF Headers
<1>5. \A i \in 1..Len(Unread) : Unread[i].part # "rest" =>
        /\ acc.entry < Unread[i].entry
        /\ \A j \in 1..Len(emitted) : emitted[j].entry < Unread[i].entry
        /\ Unread[i].entry \notin Doubtful /\ Unread[i].entry \in complete =>
             RestAfter(Unread, 0, Unread[i].entry)
  BY <1>2, <1>4 DEF TailOrder, UnreadWhole
<1>6. acc.entry # 0 => \A j \in 1..Len(emitted) : emitted[j].entry < acc.entry
  BY <1>2 DEF TailOrder
<1> QED
  BY <1>1, <1>2, <1>3, <1>5, <1>6 DEF Readable, AccWhole

\* All that is unread is read.
LEMMA ReadLinesKeeps ==
    ASSUME TailInv, ReadLines
    PROVE  TailInv'
<1> DEFINE u == Unread
           fed == FeedAll(u)
           a == fed.acc
<1> USE DEF TailInv
<1>1. /\ fd.file # 0 /\ acc' = a /\ HandleEntries(fed.out, CutEntry)
      /\ fd' = [fd EXCEPT !.checked = FALSE, !.pos = fd.pos + Len(u),
                          !.lastSize = IF tailer = "server" THEN @ ELSE fd.pos + Len(u)]
      /\ mangled' = IF CutEntry = {} THEN mangled ELSE mangled \cup {a.entry}
      /\ UNCHANGED world
  BY DEF ReadLines
<1>2. UNCHANGED <<tailer, files, path, written, complete>>
  BY <1>1 DEF world
<1>3. StateTyped /\ Readable(u)
  BY UnreadReadable
<1>4. FedTyped(fed, Len(u)) /\ FedOrder(u, fed, Len(u)) /\ FedAccounted(u, fed, Len(u))
      /\ FedWhole(u, fed, Len(u))
  BY <1>3, FedHolds DEF FedInv
<1>5. /\ u \in Seq(Piece) /\ Len(u) \in Nat /\ DOMAIN u = 1..Len(u)
      /\ fd.file \in 1..Len(files) /\ files[fd.file] \in Seq(Piece) /\ Len(files[fd.file]) \in Nat
      /\ fd.pos \in Nat /\ u = Suffix(files[fd.file], fd.pos)
      /\ fd.pos <= Len(files[fd.file]) => Len(u) = Len(files[fd.file]) - fd.pos
      /\ \A i \in 1..Len(u) : fd.pos + i \in 1..Len(files[fd.file]) /\ u[i] = files[fd.file][fd.pos + i]
  <2>1. /\ u \in Seq(Piece) /\ fd.pos \in Nat /\ fd.file \in 1..Len(files) /\ files[fd.file] \in Seq(Piece)
        /\ u = Suffix(files[fd.file], fd.pos)
    BY <1>1, UnreadIs
  <2>2. Len(u) \in Nat /\ DOMAIN u = 1..Len(u) /\ Len(files[fd.file]) \in Nat
    BY <2>1
  <2>3. /\ fd.pos <= Len(files[fd.file]) => Len(u) = Len(files[fd.file]) - fd.pos
        /\ \A i \in 1..Len(u) : fd.pos + i \in 1..Len(files[fd.file]) /\ u[i] = files[fd.file][fd.pos + i]
    BY <2>1, SuffixFacts
  <2> QED
    BY <2>1, <2>2, <2>3
<1>6. a \in Assembled /\ a.entry \in Nat /\ a.entry <= written /\ fed.out \in Seq(Assembled)
      /\ DOMAIN fed.out = 1..Len(fed.out) /\ Len(fed.out) \in Nat
  <2>1. a \in Assembled /\ a.entry <= written /\ fed.out \in Seq(Assembled)
    BY <1>4 DEF FedTyped
  <2> QED
    BY <2>1, AssembledTyped DEF Assembled
<1>7. /\ acc \in Assembled /\ acc.entry \in Nat /\ written \in Nat /\ emitted \in Seq(Assembled)
      /\ DOMAIN emitted = 1..Len(emitted) /\ \A i \in 1..Len(emitted) : emitted[i].entry \in Nat
  BY AssembledTyped DEF TailTyped, Assembled
<1>8. PICK z : /\ PartOf(z, fed.out, Len(fed.out)) /\ emitted' = emitted \o z
               /\ missable \cup CutEntry \subseteq missable'
               /\ EntriesIn(fed.out) \subseteq missable' \cup EntriesIn(z)
  BY <1>1, <1>6, <1>7, Handled
<1> HIDE DEF u, fed, a
<1>9. Doubtful \subseteq Doubtful' /\ missable \subseteq missable'
  BY <1>1, <1>8 DEF Doubtful
<1>10. /\ z \in Seq(Assembled) /\ Increasing(z) /\ DOMAIN z = 1..Len(z) /\ Len(z) \in Nat
       /\ \A j \in 1..Len(z) : z[j].entry \in Nat /\ \E k \in 1..Len(fed.out) : z[j] = fed.out[k]
  BY <1>4, <1>8, AssembledTyped DEF PartOf, FedOrder
<1>11. \A i \in 1..Len(emitted), j \in 1..Len(z) : emitted[i].entry < z[j].entry
  BY <1>4, <1>10 DEF FedOrder
<1>12. /\ emitted' \in Seq(Assembled) /\ Increasing(emitted')
       /\ EntriesIn(emitted') = EntriesIn(emitted) \cup EntriesIn(z)
       /\ \A i \in DOMAIN emitted' :
             \/ i \in 1..Len(emitted) /\ emitted'[i] = emitted[i]
             \/ \E j \in 1..Len(z) : emitted'[i] = z[j]
  <2>1. Increasing(emitted)
    BY DEF TailOrder
  <2> QED
    BY <1>7, <1>8, <1>10, <1>11, <2>1, EmittedMore, ZenonT(60)
<1>13. /\ fd' \in [file : Nat, pos : Nat, lastSize : Nat, checked : BOOLEAN, torn : BOOLEAN]
       /\ fd'.file = fd.file /\ fd'.pos = fd.pos + Len(u) /\ fd'.torn = fd.torn
       /\ fd'.lastSize = fd.lastSize \/ fd'.lastSize = fd.pos + Len(u)
  <2>1. fd.pos + Len(u) \in Nat
    BY <1>5
  <2> QED
    BY <1>1, <2>1 DEF TailTyped
<1>14. Unread' = <<>>
  <2>1. fd'.pos \in Nat /\ fd'.pos >= Len(files[fd.file])
    BY <1>5, <1>13
  <2> QED
    BY <1>2, <1>5, <1>13, <2>1, NothingUnreadAtEnd
<1>15. Follows' <=> Follows
  BY <1>2, <1>13 DEF Follows
<1>16. TailTyped'
  BY <1>1, <1>2, <1>5, <1>6, <1>12, <1>13 DEF TailTyped
<1>17. FilesOK'
  BY <1>1, ReaderKeepsFiles
<1>18. ReaderOK'
  <2>1. ASSUME ~fd.torn
        PROVE  fd'.pos <= Len(files[fd.file]) /\ fd'.lastSize <= Len(files[fd.file])
    <3>1. fd.pos <= Len(files[fd.file]) /\ fd.lastSize <= Len(files[fd.file])
      BY <1>1, <2>1 DEF ReaderOK, Content
    <3>2. fd.pos + Len(u) = Len(files[fd.file])
      BY <1>5, <3>1
    <3>3. Len(files[fd.file]) <= Len(files[fd.file])
      BY <1>5
    <3> QED
      BY <1>13, <3>1, <3>2, <3>3
  <2>2. fd.torn => a.entry \in Doubtful'
    <3>1. fd.torn => acc.entry \in Doubtful /\ EntriesIn(u) \subseteq missable
      BY DEF ReaderOK, Follows, u
    <3> QED
      BY <1>4, <1>9, <3>1 DEF FedAccounted, Doubtful, a
  <2> QED
    BY <1>1, <1>2, <1>13, <1>14, <2>1, <2>2, NothingUnread DEF ReaderOK, Content
<1>19. TailOrder'
  <2>1. ASSUME NEW i \in DOMAIN emitted'
        PROVE  emitted'[i].entry # 0 /\ emitted'[i].entry <= written /\ (a.entry # 0 => emitted'[i].entry < a.entry)
    <3>1. CASE i \in 1..Len(emitted) /\ emitted'[i] = emitted[i]
      BY <1>4, <1>7, <3>1 DEF FedOrder, TailOrder, a
    <3>2. CASE \E j \in 1..Len(z) : emitted'[i] = z[j]
      <4>1. PICK j \in 1..Len(z) : emitted'[i] = z[j]
        BY <3>2
      <4>2. z[j].entry \in Nat /\ z[j].entry < a.entry
        BY <1>4, <1>10 DEF FedOrder, a
      <4>3. z[j].entry # 0
        BY <1>4, <1>10 DEF FedTyped
      <4> QED
        BY <1>6, <1>7, <4>1, <4>2, <4>3
    <3> QED
      BY <1>12, <3>1, <3>2
  <2> QED
    BY <1>1, <1>2, <1>12, <1>14, <2>1, NothingUnread DEF TailOrder
<1>20. TailAccounted'
  <2>1. ASSUME NEW h \in Headers(u)
        PROVE  h \in missable' \cup EntriesIn(z) \cup {a.entry}
    <3>1. PICK i \in 1..Len(u) : u[i].part # "rest" /\ h = u[i].entry
      BY <1>5 DEF Headers
    <3>2. CASE CutAt(u, i)
      BY <1>5, <1>8, <3>1, <3>2 DEF CutAt, CutEntry, u
    <3>3. CASE ~CutAt(u, i)
      BY <1>4, <1>8, <3>1, <3>3 DEF FedAccounted, a
    <3> QED
      BY <3>2, <3>3
  <2>2. acc.entry \in missable' \cup EntriesIn(z) \cup {0, a.entry}
    BY <1>4, <1>8 DEF FedAccounted, a
  <2>3. SUFFICES ASSUME NEW n \in 1..written
                 PROVE  n \in missable' \cup EntriesIn(emitted') \cup {a.entry}
    BY <1>1, <1>2 DEF TailAccounted
  <2>4. n \in missable \cup EntriesIn(emitted) \cup {acc.entry} \cup Headers(u) /\ n # 0
    BY DEF TailAccounted, u
  <2> QED
    BY <1>9, <1>12, <2>1, <2>2, <2>4
<1>21. EmittedWhole'
  <2>1. SUFFICES ASSUME NEW i \in DOMAIN emitted', emitted'[i].entry \notin Doubtful
                 PROVE  Whole(emitted'[i]) /\ (emitted'[i].entry < written \/ emitted'[i].entry \in complete)
    BY <1>2, <1>9 DEF EmittedWhole, Whole
  <2>2. CASE i \in 1..Len(emitted) /\ emitted'[i] = emitted[i]
    BY <1>7, <2>1, <2>2 DEF EmittedWhole
  <2>3. CASE \E j \in 1..Len(z) : emitted'[i] = z[j]
    BY <1>4, <1>10, <2>1, <2>3 DEF FedWhole
  <2> QED
    BY <1>12, <2>2, <2>3
<1>22. UnreadWhole'
  BY <1>14, NothingUnread DEF UnreadWhole
<1>23. AccWhole'
  <2>1. SUFFICES ASSUME a.entry \notin Doubtful'
                 PROVE  /\ a.cont = IF a.entry \in complete THEN <<a.entry>> ELSE <<>>
                        /\ Follows => a.entry = written
    BY <1>1, <1>2, <1>14, <1>15, NothingUnread DEF AccWhole
  <2>2. a.entry \notin Doubtful
    BY <1>9, <2>1
  <2>3. CASE u = <<>>
    <3>1. Len(u) = 0
      BY <2>3
    <3>2. Fed(u)[0] = [acc |-> acc, out |-> <<>>]
      BY <3>1, FedDefined
    <3>3. a = acc
      BY <3>1, <3>2 DEF FeedAll, a, fed
    <3> QED
      BY <2>2, <2>3, <3>3, NothingUnread DEF AccWhole, u
  <2>4. CASE u # <<>>
    <3>1. Len(u) \in 1..Len(u)
      BY <1>5, <2>4
    <3>2. ~CutAt(u, Len(u))
      <4>1. CutAt(u, Len(u)) => CutEntry # {}
        <5>1. SUFFICES ASSUME CutAt(u, Len(u)) PROVE u[Len(u)].entry \in CutEntry
          OBVIOUS
        <5>2. Len(u) \in {j \in DOMAIN u : j = Len(u) /\ u[j].part = "cut"}
          BY <1>5, <3>1, <5>1 DEF CutAt
        <5>3. CutEntry = {u[i].entry : i \in {j \in DOMAIN u : j = Len(u) /\ u[j].part = "cut"}}
          BY Zenon DEF CutEntry, u
        <5> QED
          BY <5>2, <5>3
      <4> QED
        BY <1>1, <2>1, <4>1 DEF Doubtful
    <3>3. /\ a.cont = IF a.entry \in complete /\ ~RestAfter(u, Len(u), a.entry) THEN <<a.entry>> ELSE <<>>
          /\ a.entry = u[Len(u)].entry
      BY <1>4, <2>2, <3>1, <3>2 DEF FedWhole, a
    <3>4. ~RestAfter(u, Len(u), a.entry)
      BY <1>5 DEF RestAfter
    <3>5. ASSUME Follows
          PROVE  u[Len(u)].entry = written
      <4>1. fd.file = path /\ path # 0 /\ fd.pos <= Len(files[path])
        <5>1. fd.file = path /\ path # 0 /\ ~fd.torn
          BY <1>1, <3>5 DEF Follows
        <5>2. fd.pos <= Len(files[fd.file])
          BY <1>1, <5>1 DEF ReaderOK, Content
        <5> QED
          BY <5>1, <5>2
      <4>2. fd.pos + Len(u) = Len(files[path]) /\ u[Len(u)] = files[path][Len(files[path])]
        BY <1>5, <3>1, <4>1, SMTT(30)
      <4>3. files[path] # <<>>
        BY <1>5, <3>1, <4>1, <4>2
      <4> QED
        BY <4>1, <4>2, <4>3 DEF FilesOK
    <3> QED
      BY <3>3, <3>4, <3>5
  <2> QED
    BY <2>3, <2>4
<1> QED
  BY <1>16, <1>17, <1>18, <1>19, <1>20, <1>21, <1>22, <1>23
-----------------------------------------------------------------------------
(* The log readers: theorems. *)

\* When the reader starts, nothing is read and nothing is lost.
LEMMA TailInvInit == TailerInit => TailInv
<1> SUFFICES ASSUME TailerInit PROVE TailInv
  OBVIOUS
<1>1. /\ files = <<<<>>>> /\ path \in {0, 1} /\ written = 0 /\ fd = Closed /\ acc = NoEntry
      /\ emitted = <<>> /\ complete = {} /\ missable = {} /\ mangled = {}
      /\ tailer \in {"errors", "orm", "server"}
  BY DEF TailerInit
<1>2. Len(files) = 1 /\ files[1] = <<>> /\ files \in Seq(Seq(Piece))
  <2>1. <<>> \in Seq(Piece)
    OBVIOUS
  <2> QED
    BY <1>1, <2>1
<1>3. /\ fd \in [file : Nat, pos : Nat, lastSize : Nat, checked : BOOLEAN, torn : BOOLEAN]
      /\ fd.file = 0 /\ ~fd.torn /\ acc \in Assembled /\ acc.entry = 0 /\ emitted \in Seq(Assembled)
  BY <1>1 DEF Closed, NoEntry, Assembled
<1>4. Unread = <<>> /\ Len(emitted) = 0 /\ DOMAIN emitted = {}
  BY <1>1, <1>3 DEF Unread
<1>5. TailTyped
  BY <1>1, <1>2, <1>3 DEF TailTyped
<1>6. FilesOK
  <2>1. \A f \in 1..Len(files) : files[f] = <<>>
    BY <1>2
  <2>2. path # 0 => files[path] = <<>>
    BY <1>1, <1>2
  <2>3. InFileOrder(<<>>) /\ DOMAIN <<>> = {}
    BY DEF InFileOrder
  <2> QED
    BY <2>1, <2>2, <2>3 DEF FilesOK
<1>7. ReaderOK
  BY <1>3, <1>4, NothingUnread DEF ReaderOK
<1>8. TailOrder /\ EmittedWhole
  BY <1>3, <1>4, NothingUnread DEF TailOrder, EmittedWhole, Increasing
<1>9. TailAccounted /\ UnreadWhole /\ AccWhole
  BY <1>1, <1>3, <1>4, NothingUnread DEF TailAccounted, UnreadWhole, AccWhole, Doubtful
<1> QED
  BY <1>5, <1>6, <1>7, <1>8, <1>9 DEF TailInv

\* The invariant is about neither running, midLine nor the counts of rotations
\* and opens.
LEMMA TailInvElsewhere ==
    ASSUME TailInv,
           UNCHANGED <<tailer, files, path, written, fd, acc, emitted, complete, missable, mangled>>
    PROVE  TailInv'
<1>1. Unread' = Unread /\ (Follows' <=> Follows) /\ Doubtful' = Doubtful
  BY DEF Unread, Follows, Doubtful, Content
<1>2. TailTyped' /\ FilesOK'
  BY DEF TailInv, TailTyped, FilesOK
<1>3. ReaderOK'
  BY <1>1 DEF TailInv, ReaderOK, Content
<1>4. TailOrder' /\ TailAccounted' /\ UnreadWhole'
  BY <1>1 DEF TailInv, TailOrder, TailAccounted, UnreadWhole
<1>5. EmittedWhole' /\ AccWhole'
  BY <1>1 DEF TailInv, EmittedWhole, Whole, AccWhole
<1> QED
  BY <1>2, <1>3, <1>4, <1>5 DEF TailInv

\* Every reachable state satisfies the invariant.
LEMMA TailInvHolds == TailerSpec => []TailInv
<1>1. TailerInit => TailInv
  BY TailInvInit
<1>2. TailInv /\ [TailerNext]_tailerVars => TailInv'
  <2> SUFFICES ASSUME TailInv, [TailerNext]_tailerVars
               PROVE  TailInv'
    OBVIOUS
  <2>1. CASE \E part \in {"head", "cut"} : WriteHeader(part)
    BY <2>1, WriteHeaderKeeps
  <2>2. CASE WriteRest
    BY <2>2, WriteRestKeeps
  <2>3. CASE Rename
    BY <2>3, RenameKeeps
  <2>4. CASE Truncate
    BY <2>4, TruncateKeeps
  <2>5. CASE OpenAtEnd
    BY <2>5, OpenAtEndKeeps
  <2>6. CASE Reopen
    BY <2>6, ReopenKeeps
  <2>7. CASE NotRotated
    BY <2>7, NotRotatedKeeps
  <2>8. CASE ReadLines
    BY <2>8, ReadLinesKeeps
  <2>9. CASE CancelTail
    BY <2>9, CancelKeeps
  <2>10. CASE Kill
    BY <2>10, KillKeeps
  <2>11. CASE StartAgain
    BY <2>11, TailInvElsewhere DEF StartAgain, world
  <2>12. CASE UNCHANGED tailerVars
    BY <2>12, TailInvElsewhere DEF tailerVars
  <2> QED
    BY <2>1, <2>2, <2>3, <2>4, <2>5, <2>6, <2>7, <2>8, <2>9, <2>10, <2>11, <2>12
    DEF TailerNext, RunLogTailer, RunORMCollector, RunServerLogForwarder, TailFile, Odoo
<1> QED
  BY <1>1, <1>2, PTL DEF TailerSpec

\* For any number of entries, rotations and restarts, and for each of the three
\* readers: an entry that was not given up at a rotation, a stop, an opening, a
\* cut header or a full channel is handed on, being assembled or still to be
\* read (tailFile, checkRotation, readLines, flushAcc).
THEOREM LostOnlyWhereGivenUp == TailerSpec => []LostOnlyAroundRotation
<1>1. TailInv => LostOnlyAroundRotation
  <2>1. Headers(Unread) \subseteq EntriesIn(Unread)
    BY DEF Headers, EntriesIn
  <2> QED
    BY <2>1 DEF TailInv, TailAccounted, LostOnlyAroundRotation
<1> QED
  BY <1>1, TailInvHolds, PTL

\* For any number of entries, rotations and restarts: entries are handed on
\* once, in the order they were written, and each with its own text unless a
\* truncation, a cut header or a flush came between (EntryAccumulator.Feed and
\* Flush, tailFile).
THEOREM EntriesKeepTheirText == TailerSpec => []EntriesWholeInOrder
<1>1. TailInv => EntriesWholeInOrder
  <2> SUFFICES ASSUME TailInv PROVE EntriesWholeInOrder
    OBVIOUS
  <2>1. \A i, j \in DOMAIN emitted : i < j => emitted[i].entry < emitted[j].entry
    BY DEF TailInv, TailOrder, Increasing
  <2>2. ASSUME NEW i \in DOMAIN emitted, emitted[i].entry \notin missable \cup mangled
        PROVE  Whole(emitted[i])
    BY <2>2 DEF TailInv, TailOrder, EmittedWhole, Doubtful
  <2> QED
    BY <2>1, <2>2 DEF EntriesWholeInOrder, Whole
<1> QED
  BY <1>1, TailInvHolds, PTL
=============================================================================
