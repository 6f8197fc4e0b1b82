----------------------------- MODULE RingBuffer -----------------------------
(***************************************************************************)
(* internal/agent/ringbuf: the fixed-size circular buffer between the      *)
(* agent's error producers (ir.logging collector, log tailer) and the      *)
(* error flusher.  Every method holds the mutex from its first to its last *)
(* statement, so each one is a single action here; goroutines interleave   *)
(* between actions.                                                        *)
(***************************************************************************)
EXTENDS Integers

CONSTANTS Capacity,   \* len(r.items), fixed by New
          Value,      \* the element type T
          Zero        \* the zero value of T, what make([]T, capacity) holds

\* New panics on a capacity that is not positive.
ASSUME CapacityAssumption == Capacity \in Nat \ {0}

VARIABLES items,      \* r.items, indexed from 0 as in Go
          head,       \* r.head, the next write position
          count,      \* r.count, the number of valid entries
          result      \* the slice the last DrainAll or Peek returned

ringVars == <<items, head, count, result>>

Slot == 0..(Capacity - 1)

\* A Go slice of n elements read off by f, as its length and its elements.
Slice(n, f) == [len |-> n, entries |-> f]

Nil == Slice(0, [i \in {} |-> i])

New ==
    /\ items = [s \in Slot |-> Zero]
    /\ head = 0
    /\ count = 0
    /\ result = Nil

\* Mutant of tail: right for a full buffer only.
TailIsHead == head

\* The index of the oldest entry, as DrainAll and Peek compute it.
tail == (head - count + Capacity) % Capacity

\* out: the entries oldest first; the loop reads (tail+i) % cap for i from 0.
out == Slice(count, [i \in 1..count |-> items[(tail + (i - 1)) % Capacity]])

Push(item) ==
    /\ items' = [items EXCEPT ![head] = item]
    /\ head' = (head + 1) % Capacity
    /\ count' = IF count < Capacity THEN count + 1 ELSE count
    /\ UNCHANGED result

DrainAll ==
    \/ /\ count = 0
       /\ result' = Nil
       /\ UNCHANGED <<items, head, count>>
    \/ /\ count # 0
       /\ result' = out
       /\ count' = 0
       /\ head' = 0
       /\ UNCHANGED items

Peek ==
    /\ result' = IF count = 0 THEN Nil ELSE out
    /\ UNCHANGED <<items, head, count>>

RingNext ==
    \/ \E item \in Value : Push(item)
    \/ DrainAll
    \/ Peek

RingSpec == New /\ [][RingNext]_ringVars
-----------------------------------------------------------------------------
(***************************************************************************)
(* Properties                                                              *)
(***************************************************************************)

\* The fields of the buffer stay within their Go types and bounds
\* (ringbuf.go: "number of valid entries (0 <= count <= cap)").
RingTypeOK ==
    /\ items \in [Slot -> Value \cup {Zero}]
    /\ head \in Slot
    /\ count \in 0..Capacity

\* The slots of the valid entries, which wrap round from tail to head.
LiveSlot == {(tail + i) % Capacity : i \in 0..(count - 1)}

\* Every valid entry holds something that was pushed, never the zero value
\* New put there: the window [tail, tail+count) that DrainAll and Peek hand
\* out covers written slots only, although DrainAll rewinds head to 0 without
\* clearing items.
LiveSlotsWritten == \A s \in LiveSlot : items[s] \in Value

\* The buffer implements a bounded FIFO queue that drops its oldest entry:
\* the package comment "When the buffer is full, Push silently overwrites the
\* oldest entry", and DrainAll's "removes and returns all current entries,
\* oldest first".
Queue == INSTANCE DropOldestQueue
             WITH len <- count, entries <- out.entries

ImplementsQueue == Queue!ASpec
=============================================================================
