----------------------- MODULE StreamConsumer_proofs -----------------------
(***************************************************************************)
(* Proofs about internal/worker/consumer.go for every pool, batch size,    *)
(* stream length and number of faults: a message has one holder, and its   *)
(* handler finishes at most once.                                          *)
(***************************************************************************)
EXTENDS StreamConsumer, WellFoundedInduction, TLAPS

\* A set of message ids that is not empty has a smallest element: Current is
\* defined whenever a batch is left.
LEMMA HasOldest ==
    ASSUME NEW S \in SUBSET Id, S # {}
    PROVE  \E m \in S : \A n \in S : m <= n
<1>1. S \subseteq Nat
  BY DEF Id
<1>2. PICK m \in S : \A n \in S : ~(<<n, m>> \in OpToRel(<, Nat))
  BY <1>1, NatLessThanWellFounded, WFMin, Zenon
<1>3. \A n \in S : ~(n < m)
  BY <1>1, <1>2 DEF OpToRel
<1> QED
  BY <1>1, <1>3

\* It has a largest one too, ids being bounded: Newest is defined.
LEMMA HasNewest ==
    ASSUME NEW S \in SUBSET Id, S # {}
    PROVE  \E m \in S : \A n \in S : n <= m
<1> DEFINE T == {MaxMsg + 1 - m : m \in S}
<1>1. T \in SUBSET Id /\ T # {}
  <2>1. \A m \in Id : MaxMsg + 1 - m \in Id
    BY ConsumerAssumption DEF Id
  <2> QED
    BY <2>1, Zenon
<1>2. PICK t \in T : \A u \in T : t <= u
  BY <1>1, HasOldest, Zenon
<1>3. PICK m \in S : t = MaxMsg + 1 - m
  BY <1>2
<1>4. \A n \in S : MaxMsg + 1 - m <= MaxMsg + 1 - n
  BY <1>2, <1>3
<1> QED
  BY <1>4, ConsumerAssumption DEF Id

\* What Current denotes.
LEMMA CurrentIsOldest ==
    ASSUME NEW w \in Worker, inbox[w] \in SUBSET Id, inbox[w] # {}
    PROVE  Current(w) \in inbox[w]
BY HasOldest, Zenon DEF Current

\* What one XREADGROUP delivers: ids beyond last-delivered-id, the new
\* last-delivered-id being the largest of them.
LEMMA BatchIsNew ==
    ASSUME TypeOK, NextBatch # {}
    PROVE  /\ NextBatch \in SUBSET Id
           /\ \A m \in NextBatch : delivered < m /\ m <= Newest(NextBatch)
           /\ Newest(NextBatch) \in NextBatch
           /\ Newest(NextBatch) <= last
<1>1. NextBatch \in SUBSET Id /\ \A m \in NextBatch : delivered < m /\ m <= last
  BY DEF NextBatch, Undelivered
<1>2. Newest(NextBatch) \in NextBatch /\ \A n \in NextBatch : n <= Newest(NextBatch)
  BY <1>1, HasNewest, Zenon DEF Newest
<1> QED
  BY <1>1, <1>2
-----------------------------------------------------------------------------
\* The loop's position and its batch agree: a goroutine reads exactly when
\* its batch is finished.
LoopState == \A w \in Worker : (pc[w] = "read") <=> (inbox[w] = {})

\* What has been handled: nothing yet to be delivered, and of a batch only
\* the message whose ACK is the next step.
HandledState ==
    /\ \A m \in Id : delivered < m => handled[m] = 0
    /\ \A w \in Worker : \A m \in inbox[w] :
           handled[m] = IF pc[w] = "ack" /\ m = Current(w) THEN 1 ELSE 0

StreamState == first <= last + 1

\* The inductive invariant.  OneHolder is needed because HandlerOk counts for
\* its own message only: no other goroutine may hold it.
IInv ==
    /\ TypeOK /\ StreamState
    /\ OneHolder
    /\ LoopState
    /\ HandledState
    /\ HandledAtMostOnce

\* A new consumer group satisfies the invariant.
LEMMA InitInv == Init => IInv
BY ConsumerAssumption
   DEF Init, IInv, TypeOK, StreamState, OneHolder, LoopState, HandledState,
       HandledAtMostOnce, Id

\* Publishing and trimming keep the invariant: new ids lie past the delivered
\* ones.
LEMMA XAddInv == IInv /\ XAdd => IInv'
<1> SUFFICES ASSUME IInv, XAdd PROVE IInv'
  OBVIOUS
<1>1. TypeOK' /\ StreamState'
  BY ConsumerAssumption DEF IInv, TypeOK, StreamState, XAdd, Id
<1>2. OneHolder' /\ LoopState' /\ HandledState' /\ HandledAtMostOnce'
  BY DEF IInv, XAdd, OneHolder, LoopState, HandledState, HandledAtMostOnce, Current
<1> QED
  BY <1>1, <1>2 DEF IInv

\* A read keeps the invariant: it delivers only ids past the last delivered
\* one, so no other goroutine holds them and none was handled.
LEMMA XReadGroupInv == \A w \in Worker : IInv /\ XReadGroup(w) => IInv'
<1> SUFFICES ASSUME NEW w \in Worker, IInv, XReadGroup(w) PROVE IInv'
  OBVIOUS
<1> DEFINE b == NextBatch
<1>1. /\ b \in SUBSET Id
      /\ \A m \in b : delivered < m /\ m <= Newest(b)
      /\ Newest(b) \in b /\ Newest(b) <= last
  BY BatchIsNew DEF IInv, XReadGroup
<1>2. /\ pel' = pel \cup b /\ delivered' = Newest(b)
      /\ inbox' = [inbox EXCEPT ![w] = b] /\ pc' = [pc EXCEPT ![w] = "handle"]
      /\ UNCHANGED <<first, last, handled, failed, faults>>
      /\ b # {} /\ pc[w] = "read"
  BY DEF XReadGroup, Deliver
<1> HIDE DEF b
<1>3. delivered \in Nat /\ delivered' \in Nat /\ delivered < delivered' /\ Id \subseteq Nat
  <2>1. Id \subseteq Nat /\ delivered \in Nat
    BY ConsumerAssumption DEF IInv, TypeOK, Id
  <2> QED
    BY <2>1, <1>1, <1>2, Zenon
<1>4. TypeOK' /\ StreamState'
  BY <1>1, <1>2, <1>3 DEF IInv, TypeOK, StreamState
<1>5. OneHolder'
  <2>1. \A m \in pel : m \notin b
    BY <1>1, <1>3 DEF IInv, OneHolder, TypeOK
  <2>2. \A m \in pel' : m <= delivered'
    BY <1>1, <1>2, <1>3 DEF IInv, OneHolder, TypeOK
  <2>3. \A v \in Worker : inbox'[v] \subseteq pel'
    BY <1>2 DEF IInv, OneHolder, TypeOK
  <2>4. \A u, v \in Worker : u # v => inbox'[u] \cap inbox'[v] = {}
    BY <2>1, <1>2 DEF IInv, OneHolder, TypeOK
  <2> QED
    BY <2>2, <2>3, <2>4 DEF OneHolder
<1>6. LoopState'
  BY <1>2 DEF IInv, LoopState, TypeOK
<1>7. HandledState'
  <2>1. \A m \in Id : delivered' < m => handled'[m] = 0
    BY <1>2, <1>3 DEF IInv, HandledState
  <2>2. \A m \in b : handled[m] = 0
    BY <1>1 DEF IInv, HandledState
  <2>3. ASSUME NEW v \in Worker, NEW m \in inbox'[v]
        PROVE  handled'[m] = IF pc'[v] = "ack" /\ m = Current(v)' THEN 1 ELSE 0
    <3>1. CASE v = w
      BY <3>1, <2>2, <1>2 DEF IInv, TypeOK
    <3>2. CASE v # w
      BY <3>2, <1>2 DEF IInv, TypeOK, HandledState, Current
    <3> QED
      BY <3>1, <3>2
  <2> QED
    BY <2>1, <2>3 DEF HandledState
<1>8. HandledAtMostOnce'
  BY <1>2 DEF IInv, HandledAtMostOnce
<1> QED
  BY <1>4, <1>5, <1>6, <1>7, <1>8 DEF IInv

\* A read whose reply is lost keeps the invariant: its batch is pending and
\* nobody holds it.
LEMMA XReadGroupErrorInv == \A w \in Worker : IInv /\ XReadGroupError(w) => IInv'
<1> SUFFICES ASSUME NEW w \in Worker, IInv, XReadGroupError(w) PROVE IInv'
  OBVIOUS
<1> DEFINE b == NextBatch
<1>1. /\ b \in SUBSET Id
      /\ \A m \in b : delivered < m /\ m <= Newest(b)
      /\ Newest(b) \in b /\ Newest(b) <= last
  BY BatchIsNew DEF IInv, XReadGroupError
<1>2. /\ pel' = pel \cup b /\ delivered' = Newest(b)
      /\ UNCHANGED <<first, last, inbox, pc, handled, failed>>
      /\ faults < MaxFaults /\ faults' = faults + 1
  BY DEF XReadGroupError, Deliver
<1> HIDE DEF b
<1>3. delivered \in Nat /\ delivered' \in Nat /\ delivered < delivered' /\ Id \subseteq Nat
  <2>1. Id \subseteq Nat /\ delivered \in Nat
    BY ConsumerAssumption DEF IInv, TypeOK, Id
  <2> QED
    BY <2>1, <1>1, <1>2, Zenon
<1>4. TypeOK' /\ StreamState'
  BY <1>1, <1>2, <1>3, ConsumerAssumption DEF IInv, TypeOK, StreamState
<1>5. OneHolder' /\ LoopState'
  BY <1>1, <1>2, <1>3 DEF IInv, OneHolder, LoopState, TypeOK
<1>6. HandledState' /\ HandledAtMostOnce'
  <2>1. \A v \in Worker : Current(v)' = Current(v)
    BY <1>2 DEF Current
  <2>2. \A m \in Id : delivered' < m => delivered < m
    BY <1>3
  <2> QED
    BY <1>2, <2>1, <2>2 DEF IInv, HandledState, HandledAtMostOnce
<1> QED
  BY <1>4, <1>5, <1>6 DEF IInv

\* A handler's success keeps the invariant: the message had not been handled.
LEMMA HandlerOkInv == \A w \in Worker : IInv /\ HandlerOk(w) => IInv'
<1> SUFFICES ASSUME NEW w \in Worker, IInv, HandlerOk(w) PROVE IInv'
  OBVIOUS
<1> DEFINE c == Current(w)
<1>1. c \in inbox[w] /\ c \in Id /\ inbox[w] # {}
  BY CurrentIsOldest DEF IInv, TypeOK, LoopState, HandlerOk
<1>2. handled[c] = 0 /\ c <= delivered
  BY <1>1 DEF IInv, HandledState, HandlerOk, OneHolder
<1>3. /\ handled' = [handled EXCEPT ![c] = @ + 1]
      /\ pc' = [pc EXCEPT ![w] = "ack"] /\ pc[w] = "handle"
      /\ UNCHANGED <<first, last, delivered, pel, inbox, failed, faults>>
      /\ \A v \in Worker : Current(v)' = Current(v)
  BY DEF HandlerOk, groupVars, Current
<1>4. TypeOK' /\ StreamState'
  BY <1>1, <1>2, <1>3 DEF IInv, TypeOK, StreamState
<1>5. OneHolder' /\ LoopState'
  BY <1>1, <1>3 DEF IInv, OneHolder, LoopState, TypeOK
<1>6. HandledState'
  <2>1. \A m \in Id : delivered' < m => handled'[m] = 0
    BY <1>1, <1>2, <1>3 DEF IInv, TypeOK, HandledState, Id
  <2>2. ASSUME NEW v \in Worker, NEW m \in inbox'[v]
        PROVE  handled'[m] = IF pc'[v] = "ack" /\ m = Current(v)' THEN 1 ELSE 0
    <3>1. m \in inbox[v] /\ m \in Id
      BY <1>3 DEF IInv, TypeOK
    <3>2. CASE v = w
      BY <3>1, <3>2, <1>1, <1>2, <1>3 DEF IInv, TypeOK, HandledState
    <3>3. CASE v # w
      <4>1. m # c
        BY <3>1, <3>3, <1>1 DEF IInv, OneHolder
      <4> QED
        BY <3>1, <3>3, <4>1, <1>1, <1>3 DEF IInv, TypeOK, HandledState
    <3> QED
      BY <3>2, <3>3
  <2> QED
    BY <2>1, <2>2 DEF HandledState
<1>7. HandledAtMostOnce'
  BY <1>1, <1>2, <1>3 DEF IInv, TypeOK, HandledAtMostOnce
<1> QED
  BY <1>4, <1>5, <1>6, <1>7 DEF IInv

\* Moving on within a batch keeps the parts of the invariant that speak of
\* batches, whether or not the message was acknowledged on the way.
LEMMA AdvanceInv ==
    ASSUME NEW w \in Worker, IInv, pc[w] # "read", Advance(w),
           UNCHANGED <<groupVars, handled>>,
           pel' \subseteq pel, \A m \in pel : m # Current(w) => m \in pel',
           failed' \subseteq Id, faults' \in 0..MaxFaults
    PROVE  IInv'
<1> DEFINE c == Current(w)
<1>1. c \in inbox[w] /\ c \in Id
  BY CurrentIsOldest DEF IInv, TypeOK, LoopState
<1>2. /\ inbox' = [inbox EXCEPT ![w] = @ \ {c}]
      /\ pc' = [pc EXCEPT ![w] = IF inbox[w] = {c} THEN "read" ELSE "handle"]
      /\ UNCHANGED <<first, last, delivered, handled>>
  BY DEF Advance, groupVars
<1>3. TypeOK' /\ StreamState'
  BY <1>1, <1>2 DEF IInv, TypeOK, StreamState
<1>4. OneHolder'
  <2>1. \A v \in Worker : inbox'[v] \subseteq pel'
    BY <1>1, <1>2 DEF IInv, OneHolder, TypeOK
  <2>2. \A u, v \in Worker : u # v => inbox'[u] \cap inbox'[v] = {}
    BY <1>2 DEF IInv, OneHolder, TypeOK
  <2>3. \A m \in pel' : m <= delivered'
    BY <1>2 DEF IInv, OneHolder
  <2> QED
    BY <2>1, <2>2, <2>3 DEF OneHolder
<1>5. LoopState'
  BY <1>1, <1>2 DEF IInv, LoopState, TypeOK
<1>6. HandledState'
  <2>1. \A m \in Id : delivered' < m => handled'[m] = 0
    BY <1>2 DEF IInv, HandledState
  <2>2. ASSUME NEW v \in Worker, NEW m \in inbox'[v]
        PROVE  handled'[m] = IF pc'[v] = "ack" /\ m = Current(v)' THEN 1 ELSE 0
    <3>1. CASE v = w
      BY <3>1, <1>1, <1>2 DEF IInv, TypeOK, HandledState
    <3>2. CASE v # w
      <4>1. inbox'[v] = inbox[v] /\ pc'[v] = pc[v]
        BY <3>2, <1>2 DEF IInv, TypeOK
      <4>2. Current(v)' = Current(v)
        BY <4>1 DEF Current
      <4> QED
        BY <4>1, <4>2, <1>2 DEF IInv, HandledState
    <3> QED
      BY <3>1, <3>2
  <2> QED
    BY <2>1, <2>2 DEF HandledState
<1>7. HandledAtMostOnce'
  BY <1>2 DEF IInv, HandledAtMostOnce
<1> QED
  BY <1>3, <1>4, <1>5, <1>6, <1>7 DEF IInv

\* A crash keeps the invariant: what the goroutines held stays pending.
LEMMA CrashInv == IInv /\ Crash => IInv'
<1> SUFFICES ASSUME IInv, Crash PROVE IInv'
  OBVIOUS
<1>1. TypeOK' /\ StreamState'
  BY ConsumerAssumption DEF IInv, TypeOK, StreamState, Crash, groupVars
<1>2. OneHolder' /\ LoopState' /\ HandledState' /\ HandledAtMostOnce'
  BY DEF IInv, Crash, groupVars, OneHolder, LoopState, HandledState, HandledAtMostOnce
<1> QED
  BY <1>1, <1>2 DEF IInv

\* Every step of the consumer keeps the invariant.
LEMMA NextInv == IInv /\ [Next]_vars => IInv'
<1> SUFFICES ASSUME IInv, [Next]_vars PROVE IInv'
  OBVIOUS
<1>1. CASE XAdd
  BY <1>1, XAddInv
<1>2. ASSUME NEW w \in Worker, Step(w) PROVE IInv'
  <2>0. Current(w) \in Id \/ pc[w] = "read"
    BY CurrentIsOldest DEF IInv, TypeOK, LoopState
  <2>1. CASE XReadGroup(w)
    BY <2>1, XReadGroupInv
  <2>2. CASE XReadGroupError(w)
    BY <2>2, XReadGroupErrorInv
  <2>3. CASE HandlerOk(w)
    BY <2>3, HandlerOkInv
  <2>4. CASE HandlerError(w)
    <3>1. failed' \subseteq Id /\ faults' \in 0..MaxFaults
      BY <2>0, <2>4 DEF HandlerError, IInv, TypeOK
    <3> QED
      BY <2>4, <3>1, AdvanceInv DEF HandlerError
  <2>5. CASE XAck(w)
    <3>1. failed' \subseteq Id /\ faults' \in 0..MaxFaults
      BY <2>5 DEF XAck, IInv, TypeOK
    <3> QED
      BY <2>5, <3>1, AdvanceInv DEF XAck
  <2>6. CASE XAckError(w)
    <3>1. failed' \subseteq Id /\ faults' \in 0..MaxFaults
      BY <2>6, ConsumerAssumption DEF XAckError, IInv, TypeOK
    <3> QED
      BY <2>6, <3>1, AdvanceInv DEF XAckError
  <2> QED
    BY <1>2, <2>1, <2>2, <2>3, <2>4, <2>5, <2>6 DEF Step
<1>3. CASE Crash
  BY <1>3, CrashInv
<1>4. CASE UNCHANGED vars
  BY <1>4 DEF vars, IInv, TypeOK, StreamState, OneHolder, LoopState, HandledState,
              HandledAtMostOnce, Current
<1> QED
  BY <1>1, <1>2, <1>3, <1>4 DEF Next

\* The invariant holds in every reachable state of the consumer.
LEMMA InvHolds == Spec => []IInv
BY InitInv, NextInv, PTL DEF Spec

\* The group's state in Redis and the loops of RunConsumer keep their types.
THEOREM ConsumerTypeCorrect == Spec => []TypeOK
BY InvHolds, PTL DEF IInv

\* Whatever fails, a pending message is in the batch of at most one of the
\* pool's goroutines (processStreams).
THEOREM OneHolderAlways == Spec => []OneHolder
BY InvHolds, PTL DEF IInv

\* No message is handled to the end twice: reading only ">" (RunConsumer)
\* makes every handler of the pool at-most-once, crashes included.
THEOREM AtMostOnce == Spec => []HandledAtMostOnce
BY InvHolds, PTL DEF IInv

\* A message leaves the pending entries list only after its handler returned
\* nil (processStreams ACKs "on success" only).
THEOREM AckOnlyAfterHandling == Spec => AckedWasHandled
<1>1. IInv /\ [Next]_vars => [\A m \in pel \ pel' : handled[m] = 1]_vars
  <2> SUFFICES ASSUME IInv, Next, NEW m \in pel \ pel' PROVE handled[m] = 1
    OBVIOUS
  <2>1. PICK w \in Worker : XAck(w)
    BY DEF Next, Step, XAdd, XReadGroup, XReadGroupError, Deliver, HandlerOk,
           HandlerError, XAckError, Crash
  <2>2. m = Current(w) /\ m \in inbox[w]
    BY <2>1, CurrentIsOldest DEF XAck, IInv, TypeOK, LoopState
  <2> QED
    BY <2>1, <2>2 DEF XAck, IInv, HandledState
<1> QED
  BY <1>1, InvHolds, PTL DEF Spec, AckedWasHandled
=============================================================================
