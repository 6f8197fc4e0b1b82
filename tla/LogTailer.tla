------------------------------ MODULE LogTailer ------------------------------
(***************************************************************************)
(* The agent's three readers of the Odoo server log: LogTailer ("errors"), *)
(* ORMCollector ("orm") and ServerLogForwarder ("server"), of              *)
(* internal/agent/hook.  They share one algorithm; a behaviour is about    *)
(* one of them, chosen at the start.                                       *)
(*                                                                         *)
(* A log file is a sequence of pieces of text, a piece being what Odoo     *)
(* appended between two reads: the header of an entry, a beginning of it   *)
(* too short for logLineRe ("cut"), or what follows a header ("rest").     *)
(* Offsets count pieces.  Entries of a level or logger the reader filters  *)
(* out are not written here.                                               *)
(***************************************************************************)
EXTENDS Integers, Sequences

CONSTANTS
    MaxEntries,     \* bound: entries Odoo writes
    MaxRotations,   \* bound: renames and truncations of the log
    MaxOpens        \* bound: times the file is opened

VARIABLES
    tailer,         \* which reader: "errors", "orm" or "server"
    files,          \* [file -> its pieces]; a rename leaves the old ones
    path,           \* the file at cfg.Path, 0 when there is none
    written,        \* entries written so far; the last one may still grow
    midLine,        \* the last piece written is "cut"
    rotations, opens,
    running,        \* the agent's context is not cancelled
    fd,             \* tailFile: its file, offset, lastSize and whether it checked
    acc,            \* EntryAccumulator: the entry being assembled
    emitted,        \* entries handed on: ring buffer or channel
    complete,       \* entries whose "rest" was written
    missable,       \* entries that may be lost, history
    mangled         \* entries that may have another's text, history

tailerVars == <<tailer, files, path, written, midLine, rotations, opens, running,
                fd, acc, emitted, complete, missable, mangled>>

Closed == [file |-> 0, pos |-> 0, lastSize |-> 0, checked |-> FALSE, torn |-> FALSE]
NoEntry == [entry |-> 0, cont |-> <<>>]
Content(f) == files[f]
Unread == IF fd.file = 0 THEN <<>> ELSE SubSeq(Content(fd.file), fd.pos + 1, Len(Content(fd.file)))
EntriesIn(s) == {s[i].entry : i \in DOMAIN s}

TailerInit ==
    /\ tailer \in {"errors", "orm", "server"}
    /\ files = <<<<>>>> /\ path \in {0, 1}
    /\ written = 0 /\ midLine = FALSE /\ rotations = 0 /\ opens = 0
    /\ running = TRUE /\ fd = Closed /\ acc = NoEntry /\ emitted = <<>>
    /\ complete = {} /\ missable = {} /\ mangled = {}
-----------------------------------------------------------------------------
(* Odoo and logrotate *)

\* The reader follows what is appended, unless the file was truncated under it.
Follows == fd.file # 0 /\ fd.file = path /\ ~fd.torn

\* A write to a missing file creates it.
Append1(n, part) ==
    /\ IF path = 0
         THEN /\ files' = Append(files, <<[entry |-> n, part |-> part]>>)
              /\ path' = Len(files) + 1
         ELSE /\ files' = [files EXCEPT ![path] = Append(@, [entry |-> n, part |-> part])]
              /\ UNCHANGED path
    /\ missable' = IF Follows THEN missable ELSE missable \cup {n}
    /\ UNCHANGED <<tailer, rotations, opens, running, fd, acc, emitted, mangled>>

WriteHeader(part) ==
    /\ ~midLine /\ written < MaxEntries
    /\ written' = written + 1 /\ midLine' = (part = "cut")
    /\ Append1(written + 1, part) /\ UNCHANGED complete

WriteRest ==
    /\ written > 0 /\ written \notin complete
    /\ midLine' = FALSE /\ complete' = complete \cup {written}
    /\ Append1(written, "rest") /\ UNCHANGED written

\* What was not read yet may be lost, and the rest of a line goes elsewhere.
Rotating ==
    /\ rotations < MaxRotations /\ path # 0
    /\ rotations' = rotations + 1
    /\ missable' = missable \cup EntriesIn(Unread)
    /\ UNCHANGED <<tailer, written, midLine, opens, running, acc, emitted, complete>>

Rename ==
    /\ Rotating /\ path' = 0
    /\ UNCHANGED <<files, fd, mangled>>

Truncate ==
    /\ Rotating /\ files' = [files EXCEPT ![path] = <<>>]
    /\ fd' = [fd EXCEPT !.torn = @ \/ fd.file = path]
    /\ mangled' = mangled \cup {acc.entry}
    /\ UNCHANGED path
-----------------------------------------------------------------------------
(* EntryAccumulator *)

\* Mutant of Feed: contBuf is not reset for the new entry.
FeedKeepsText(a, line, header) ==
    IF header
      THEN [acc |-> [entry |-> line.entry, cont |-> a.acc.cont],
            out |-> IF a.acc.entry # 0 THEN Append(a.out, a.acc) ELSE a.out]
      ELSE [a EXCEPT !.acc.cont = IF a.acc.entry # 0 THEN Append(@, line.entry) ELSE @]

\* A header emits the entry before it; any other line belongs to the current
\* entry, and is dropped where there is none.
Feed(a, line, header) ==
    IF header
      THEN [acc |-> [entry |-> line.entry, cont |-> <<>>],
            out |-> IF a.acc.entry # 0 THEN Append(a.out, a.acc) ELSE a.out]
      ELSE [a EXCEPT !.acc.cont = IF a.acc.entry # 0 THEN Append(@, line.entry) ELSE @]

\* ReadString returns the text up to EOF as a line of its own: a cut header is
\* a header only if the rest of its line is there.
IsHeader(s, i) == s[i].part = "head" \/ (s[i].part = "cut" /\ i < Len(s))

\* Fed(s)[i]: the accumulator, and what it emitted, after i lines of s.
Fed(s) ==
    LET fed[i \in 0..Len(s)] ==
          IF i = 0 THEN [acc |-> acc, out |-> <<>>] ELSE Feed(fed[i - 1], s[i], IsHeader(s, i))
    IN  fed

FeedAll(s) == Fed(s)[Len(s)]

\* Flush: what the accumulator still holds.
Flushed == IF acc.entry = 0 THEN <<>> ELSE <<acc>>

\* A flush hands the entry on although its text may not be written yet.
FlushedEarly == {acc.entry} \ complete
-----------------------------------------------------------------------------
(* handleEntry; "lost" are entries the caller has already given up *)

\* LogTailer.handleEntry: the sampler keeps every error and Push always succeeds.
PushErrors(out, lost) == emitted' = emitted \o out /\ missable' = missable \cup lost

\* Sent(out, kept)[i]: the entries kept of the first i.
Sent(out, kept) ==
    LET sent[i \in 0..Len(out)] ==
          IF i = 0 THEN <<>> ELSE IF kept[i] THEN Append(sent[i - 1], out[i]) ELSE sent[i - 1]
    IN  sent

\* ORMCollector.handleEntry: each event may be sampled out, or the channel full.
SendEvents(out, lost) ==
    \E kept \in [DOMAIN out -> BOOLEAN] :
        /\ emitted' = emitted \o Sent(out, kept)[Len(out)]
        /\ missable' = missable \cup lost \cup {out[i].entry : i \in {j \in DOMAIN out : ~kept[j]}}

\* ServerLogForwarder.collectAndSend: a batch is sent, or dropped as a whole.
SendBatch(out, lost) ==
    \/ emitted' = emitted \o out /\ missable' = missable \cup lost
    \/ /\ out # <<>>
       /\ missable' = missable \cup lost \cup EntriesIn(out)
       /\ UNCHANGED emitted

HandleEntries(out, lost) ==
    \/ tailer = "errors" /\ PushErrors(out, lost)
    \/ tailer = "orm" /\ SendEvents(out, lost)
    \/ tailer = "server" /\ SendBatch(out, lost)
-----------------------------------------------------------------------------
(* Run and tailFile *)

world == <<tailer, files, path, written, midLine, rotations, complete>>

\* "Seek to end - we only care about new entries."  Without a file Open fails
\* and Run waits and tries again.
OpenAtEnd ==
    /\ running /\ fd.file = 0 /\ path # 0 /\ opens < MaxOpens
    /\ LET size == Len(Content(path))
       IN  fd' = [Closed EXCEPT !.file = path, !.pos = size, !.lastSize = size]
    /\ opens' = opens + 1 /\ acc' = NoEntry
    /\ UNCHANGED <<world, running, emitted, missable, mangled>>

\* fileRotated: the path names another file, or none.
FileRotated == path # fd.file

Rotated == Len(Content(fd.file)) < fd.lastSize \/ FileRotated

\* Mutant of Reopen: the accumulator is forgotten.
ReopenForgets ==
    /\ running /\ fd.file # 0 /\ ~fd.checked /\ Rotated
    /\ acc' = NoEntry /\ fd' = Closed
    /\ UNCHANGED <<world, opens, running, emitted, missable, mangled>>

\* checkRotation found a rotation: the current entry is handled, tailFile
\* returns, and Run opens the path again after a poll interval.
Reopen ==
    /\ running /\ fd.file # 0 /\ ~fd.checked /\ Rotated
    /\ HandleEntries(Flushed, {}) /\ acc' = NoEntry /\ fd' = Closed
    /\ mangled' = mangled \cup FlushedEarly
    /\ UNCHANGED <<world, opens, running>>

\* checkRotation found none; the forwarder's lastSize is the size it saw.
NotRotated ==
    /\ running /\ fd.file # 0 /\ ~fd.checked /\ ~Rotated
    /\ fd' = [fd EXCEPT !.checked = TRUE,
                        !.lastSize = IF tailer = "server" THEN Len(Content(fd.file)) ELSE @]
    /\ UNCHANGED <<world, opens, running, acc, emitted, missable, mangled>>

\* The entry whose header the end of the file cuts, if any: it becomes text of
\* the entry before it.
CutEntry == {Unread[i].entry : i \in {j \in DOMAIN Unread : j = Len(Unread) /\ Unread[j].part = "cut"}}

\* readLines; the other two readers then take their offset for lastSize.
ReadLines ==
    /\ running /\ fd.file # 0 /\ fd.checked
    /\ LET fed == FeedAll(Unread)
           pos == fd.pos + Len(Unread)
       IN  /\ acc' = fed.acc
           /\ fd' = [fd EXCEPT !.checked = FALSE, !.pos = pos,
                               !.lastSize = IF tailer = "server" THEN @ ELSE pos]
           /\ HandleEntries(fed.out, CutEntry)
           /\ mangled' = IF CutEntry = {} THEN mangled ELSE mangled \cup {fed.acc.entry}
    /\ UNCHANGED <<world, opens, running>>

\* ctx.Done: the current entry is handled, what is unread is not.
CancelTail ==
    /\ running /\ running' = FALSE
    /\ HandleEntries(Flushed, EntriesIn(Unread))
    /\ acc' = NoEntry /\ fd' = Closed
    /\ mangled' = mangled \cup FlushedEarly
    /\ UNCHANGED <<world, opens>>

\* The agent is killed.
Kill ==
    /\ running /\ running' = FALSE
    /\ missable' = missable \cup EntriesIn(Unread) \cup EntriesIn(Flushed)
    /\ acc' = NoEntry /\ fd' = Closed
    /\ UNCHANGED <<world, opens, emitted, mangled>>

StartAgain ==
    /\ ~running /\ opens < MaxOpens /\ running' = TRUE
    /\ UNCHANGED <<world, opens, fd, acc, emitted, missable, mangled>>
-----------------------------------------------------------------------------
TailFile == OpenAtEnd \/ Reopen \/ NotRotated \/ ReadLines \/ CancelTail \/ Kill \/ StartAgain

\* The three Run loops; they differ in NotRotated, ReadLines and HandleEntries.
RunLogTailer == tailer = "errors" /\ TailFile
RunORMCollector == tailer = "orm" /\ TailFile
RunServerLogForwarder == tailer = "server" /\ TailFile

Odoo == (\E part \in {"head", "cut"} : WriteHeader(part)) \/ WriteRest \/ Rename \/ Truncate

TailerNext == RunLogTailer \/ RunORMCollector \/ RunServerLogForwarder \/ Odoo

TailerSpec == TailerInit /\ [][TailerNext]_tailerVars
-----------------------------------------------------------------------------
(* Properties *)

\* An entry is lost only where the code gives it up: it was not read when the
\* log was rotated or the agent stopped, it was written before the file was
\* opened again, its header was read in two parts, or the reader dropped it.
\* Any other entry was handed on, is being assembled, or is still to be read
\* (logparser.go tailFile, checkRotation, flushAcc).
LostOnlyAroundRotation ==
    \A n \in 1..written :
        n \in missable \cup EntriesIn(emitted) \cup {acc.entry} \cup EntriesIn(Unread)

\* Entries are handed on once, in the order they were written, whatever is
\* rotated or restarted ("no replay of old entries"), and each with exactly its
\* own text, unless a truncation, a cut header or a flush came between
\* (EntryAccumulator).
EntriesWholeInOrder ==
    /\ \A i, j \in DOMAIN emitted : i < j => emitted[i].entry < emitted[j].entry
    /\ \A i \in DOMAIN emitted :
         LET n == emitted[i].entry
         IN  n \notin missable \cup mangled =>
               emitted[i].cont = IF n \in complete THEN <<n>> ELSE <<>>
=============================================================================
