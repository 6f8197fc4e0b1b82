-------------------------- MODULE DropOldestQueue --------------------------
(***************************************************************************)
(* What the agent's ring buffer promises to its callers, without saying    *)
(* how: a bounded FIFO queue whose Push never blocks and, when the queue   *)
(* is full, forgets the oldest entry.  The queue is a function on          *)
(* 1..len, oldest entry first; result is what the last DrainAll or Peek    *)
(* returned (a pair of a length and such a function).                      *)
(***************************************************************************)
EXTENDS Integers

CONSTANTS Capacity,   \* the fixed capacity of the queue
          Value       \* the entries that can be pushed

VARIABLES len,        \* number of entries held
          entries,    \* [1..len -> Value], entries[1] is the oldest
          result      \* [len, entries] returned by the last DrainAll or Peek

avars == <<len, entries, result>>

NoEntries == [i \in {} |-> i]

AInit ==
    /\ len = 0
    /\ entries = NoEntries
    /\ result = [len |-> 0, entries |-> NoEntries]

\* There is room: the new entry goes behind all the others.
AppendEntry(v) ==
    /\ len < Capacity
    /\ len' = len + 1
    /\ entries' = [i \in 1..(len + 1) |-> IF i = len + 1 THEN v ELSE entries[i]]
    /\ UNCHANGED result

\* The queue is full: the oldest entry gives way to the new one.
DropOldestAndAppend(v) ==
    /\ len = Capacity
    /\ len' = len
    /\ entries' = [i \in 1..len |-> IF i = len THEN v ELSE entries[i + 1]]
    /\ UNCHANGED result

APush(v) == AppendEntry(v) \/ DropOldestAndAppend(v)

ADrainAll ==
    /\ result' = [len |-> len, entries |-> entries]
    /\ len' = 0
    /\ entries' = NoEntries

APeek ==
    /\ result' = [len |-> len, entries |-> entries]
    /\ UNCHANGED <<len, entries>>

ANext ==
    \/ \E v \in Value : APush(v)
    \/ ADrainAll
    \/ APeek

ASpec == AInit /\ [][ANext]_avars
=============================================================================
