--------------------- MODULE NotificationWorker_proofs ---------------------
(***************************************************************************)
(* Proofs about the notification worker, for any number of processes,      *)
(* channels, alerts, attempts and failures.                                *)
(***************************************************************************)
EXTENDS NotificationWorker, TLAPS

Status == {"none", "pending", "sent", "failed"}
Marks == {"markSent", "markFailed"}

TypeOK ==
    /\ created \in Nat
    /\ status \in [Delivery -> Status]
    /\ attempt \in [Delivery -> Nat \ {0}]
    /\ batch \in [Worker -> SUBSET Delivery]
    /\ pc \in [Worker -> {"idle", "send"} \cup Marks]
    /\ current \in [Worker -> Delivery \cup {None}]
    /\ tries \in [Delivery -> Nat]
    /\ received \in [Delivery -> Nat]
    /\ unrecorded \in [Delivery -> Nat]

\* An idle worker holds nothing; a busy one has taken its row from the batch.
LoopOK ==
    \A w \in Worker :
        /\ pc[w] = "idle" => batch[w] = {} /\ current[w] = None
        /\ pc[w] # "idle" => current[w] \in Delivery /\ current[w] \notin batch[w]

\* Two workers hold the same row only when it is contested.
Exclusive == \A v, w \in Worker : v # w => Held(v) \cap Held(w) \subseteq contested

InHand(d) == \E w \in Worker : d \in Held(w)
\* A worker has sent d and not yet recorded the outcome.
At(d, S) == \E w \in Worker : current[w] = d /\ pc[w] \in S

\* Nothing has happened to a delivery whose alert is still to come.
Fresh(d) ==
    d[1] > created => /\ status[d] = "none" /\ attempt[d] = 1 /\ ~InHand(d)
                      /\ tries[d] = 0 /\ received[d] = 0 /\ unrecorded[d] = 0

\* A row that waits may be sent, and one that is sent was received.
RowOK ==
    /\ \A d \in Delivery : Fresh(d)
    /\ \A d \in Delivery : status[d] = "pending" => attempt[d] = 1 \/ attempt[d] < MaxAttempts
    /\ \A d \in Delivery : status[d] = "sent" => received[d] >= 1
    /\ \A w \in Worker : pc[w] = "markSent" => received[current[w]] >= 1

Live(d) == status[d] \in {"pending", "failed"}

\* Tries that the table knows of, or that are about to be recorded.
Known(d) == tries[d] - unrecorded[d]

\* The accounts of one delivery: what its row says, and what a worker that
\* holds it is about to add.
Count(d) ==
    /\ InHand(d) => status[d] \in {"pending", "none"}
    /\ received[d] <= unrecorded[d] + 1
    /\ (Live(d) \/ InHand(d)) /\ ~At(d, {"markSent"}) => received[d] <= unrecorded[d]
    /\ Live(d) => Known(d) <= attempt[d]
    /\ Live(d) /\ ~At(d, Marks) => Known(d) <= attempt[d] - 1
    /\ InHand(d) /\ ~At(d, Marks) => Known(d) <= 0 \/ Known(d) <= MaxAttempts - 2
    /\ Known(d) <= 1 \/ Known(d) <= MaxAttempts - 1

Counts == \A d \in Delivery \ contested : Count(d)

IInv == TypeOK /\ LoopOK /\ Exclusive /\ RowOK /\ Counts
-----------------------------------------------------------------------------
(* What the proofs keep needing. *)

\* None is no delivery, and a delivery's alert is a number.
LEMMA Deliveries == None \notin Delivery /\ \A d \in Delivery : d[1] \in Nat
BY NotificationAssumption DEF Delivery, None

\* What a worker holds, by where it is.
LEMMA HeldBy ==
    ASSUME LoopOK, NEW w \in Worker
    PROVE  /\ pc[w] = "idle" => Held(w) = {}
           /\ pc[w] # "idle" => Held(w) = batch[w] \cup {current[w]}
BY Deliveries DEF LoopOK, Held

\* A delivery whose counters stay and that nobody takes up keeps its accounts.
LEMMA CountFrame ==
    ASSUME NEW d \in Delivery, Count(d),
           tries'[d] = tries[d], received'[d] = received[d], unrecorded'[d] = unrecorded[d],
           Live(d)' => Live(d) /\ attempt'[d] = attempt[d],
           InHand(d)' => InHand(d), InHand(d) => status'[d] \in {status[d], "none"},
           At(d, Marks)' <=> At(d, Marks), At(d, {"markSent"})' <=> At(d, {"markSent"})
    PROVE  Count(d)'
<1>1. Known(d)' = Known(d)
  BY DEF Known
<1> QED
  BY <1>1 DEF Count

\* Of a row that is not contested the holder is the only one.
LEMMA OnlyHolder ==
    ASSUME LoopOK, Exclusive, NEW w \in Worker, NEW d \in Held(w) \ contested
    PROVE  /\ \A v \in Worker : v # w => d \notin Held(v) /\ (d \in Delivery => current[v] # d)
           /\ d \in Delivery => \A S : At(d, S) <=> (current[w] = d /\ pc[w] \in S)
<1>1. \A v \in Worker : v # w => d \notin Held(v)
  BY DEF Exclusive
<1>2. \A v \in Worker : v # w /\ d \in Delivery => current[v] # d
  BY <1>1, Deliveries DEF Held
<1> QED
  BY <1>1, <1>2 DEF At

\* The initial state of the workers and the table.
LEMMA InitInv == Init => IInv
<1> SUFFICES ASSUME Init PROVE IInv
  OBVIOUS
<1>1. TypeOK /\ LoopOK
  BY DEF Init, TypeOK, LoopOK, Status, Marks
<1>2. \A w \in Worker : Held(w) = {}
  BY <1>1, HeldBy DEF Init
<1>3. Exclusive
  BY <1>2 DEF Exclusive
<1>4. ASSUME NEW d \in Delivery
      PROVE  ~InHand(d) /\ status[d] = "none" /\ attempt[d] = 1 /\ tries[d] = 0 /\ received[d] = 0 /\ unrecorded[d] = 0
  BY <1>2 DEF InHand, Init
<1>5. RowOK
  BY <1>4 DEF RowOK, Fresh, Init
<1>6. Counts
  BY <1>4 DEF Counts, Count, Live, Known
<1> QED
  BY <1>1, <1>3, <1>5, <1>6 DEF IInv
-----------------------------------------------------------------------------
(* The steps. *)

\* What the other writers of the tables do leaves the workers alone.
LEMMA TableStep ==
    ASSUME IInv,
           \/ CreateAlertWithDeliveryTx
           \/ \E c \in Channel : UpdateNotificationChannel(c) \/ DeleteNotificationChannel(c)
           \/ \E d \in Delivery : Expire(d)
           \/ \E a \in 1..MaxAlerts : DeleteOldAlerts(a)
           \/ \E w \in Worker : ResetRetryable(w)
    PROVE  IInv'
<1>0. TypeOK /\ LoopOK /\ Exclusive /\ RowOK /\ Counts
  BY DEF IInv
<1>1. UNCHANGED <<loop, history>>
  BY DEF CreateAlertWithDeliveryTx, UpdateNotificationChannel, DeleteNotificationChannel, Expire,
         DeleteOldAlerts, ResetRetryable
<1>2. UNCHANGED <<batch, pc, current, tries, received, unrecorded, contested>>
  BY <1>1 DEF loop, history
<1>3. /\ \A w \in Worker : Held(w)' = Held(w)
      /\ \A d : InHand(d)' <=> InHand(d)
      /\ \A d, S : At(d, S)' <=> At(d, S)
  BY <1>2 DEF Held, InHand, At
<1>4. LoopOK' /\ Exclusive'
  BY <1>0, <1>2, <1>3 DEF LoopOK, Exclusive
<1>5. ASSUME created' = created, status' \in [Delivery -> Status], attempt' \in [Delivery -> Nat \ {0}],
             \A d \in Delivery :
                \/ status'[d] = status[d] /\ attempt'[d] = attempt[d]
                \/ status'[d] = "none" /\ attempt'[d] = 1
                \/ /\ status[d] = "failed" /\ status'[d] = "pending"
                   /\ attempt'[d] = attempt[d] /\ attempt[d] < MaxAttempts
      PROVE  IInv'
  <2>1. TypeOK'
    BY <1>0, <1>2, <1>5 DEF TypeOK
  <2>2. RowOK'
    <3>1. ASSUME NEW d \in Delivery PROVE Fresh(d)'
      BY <1>0, <1>2, <1>3, <1>5 DEF RowOK, Fresh
    <3>2. ASSUME NEW d \in Delivery
          PROVE  /\ status'[d] = "pending" => attempt'[d] = 1 \/ attempt'[d] < MaxAttempts
                 /\ status'[d] = "sent" => received'[d] >= 1
      BY <1>0, <1>2, <1>5 DEF RowOK
    <3> QED
      BY <3>1, <3>2, <1>0, <1>2 DEF RowOK
  <2>3. Counts'
    <3> SUFFICES ASSUME NEW d \in Delivery \ contested PROVE Count(d)'
      BY <1>2 DEF Counts
    <3>1. Count(d) /\ (Live(d)' => Live(d) /\ attempt'[d] = attempt[d])
      BY <1>0, <1>5 DEF Counts, Live
    <3>2. InHand(d) => status'[d] \in {status[d], "none"}
      BY <3>1, <1>5 DEF Count
    <3> QED
      BY <3>1, <3>2, <1>2, <1>3, CountFrame
  <2> QED
    BY <2>1, <2>2, <2>3, <1>4 DEF IInv
<1>6. ASSUME NEW S, RemoveRows(S)
      PROVE  /\ status' \in [Delivery -> Status] /\ attempt' \in [Delivery -> Nat \ {0}]
             /\ \A d \in Delivery :
                   \/ status'[d] = status[d] /\ attempt'[d] = attempt[d]
                   \/ status'[d] = "none" /\ attempt'[d] = 1
  BY <1>0, <1>6 DEF RemoveRows, TypeOK, Status
<1>7. ASSUME NEW c \in Channel, UpdateNotificationChannel(c) PROVE IInv'
  BY <1>0, <1>5, <1>7 DEF UpdateNotificationChannel, rows, TypeOK
<1>8. ASSUME NEW c \in Channel, DeleteNotificationChannel(c) PROVE IInv'
  BY <1>5, <1>6, <1>8 DEF DeleteNotificationChannel
<1>9. ASSUME NEW d \in Delivery, Expire(d) PROVE IInv'
  BY <1>0, <1>5, <1>9 DEF Expire, TypeOK
<1>10. ASSUME NEW a \in 1..MaxAlerts, DeleteOldAlerts(a) PROVE IInv'
  BY <1>5, <1>6, <1>10 DEF DeleteOldAlerts
<1>11. ASSUME NEW w \in Worker, ResetRetryable(w) PROVE IInv'
  <2>1. /\ status' = [d \in Delivery |-> IF d \in Retryable THEN "pending" ELSE status[d]]
        /\ UNCHANGED <<created, attempt>>
    BY <1>11 DEF ResetRetryable
  <2>2. status' \in [Delivery -> Status] /\ attempt' \in [Delivery -> Nat \ {0}]
    BY <2>1, <1>0 DEF TypeOK, Status
  <2> QED
    BY <2>1, <2>2, <1>5 DEF Retryable
<1>12. CASE CreateAlertWithDeliveryTx
  <2>1. /\ created' = created + 1 /\ attempt' = attempt
        /\ status' = [d \in Delivery |->
              IF d[1] = created + 1 /\ channel[d[2]] = "active" THEN "pending" ELSE status[d]]
    BY <1>12 DEF CreateAlertWithDeliveryTx
  <2>2. TypeOK'
    BY <2>1, <1>0, <1>2 DEF TypeOK, Status
  <2>3. ASSUME NEW d \in Delivery
        PROVE  \/ status'[d] = status[d]
               \/ status'[d] = "pending" /\ d[1] > created
    BY <2>1, <1>0 DEF TypeOK
  <2>4. RowOK'
    <3>1. ASSUME NEW d \in Delivery PROVE Fresh(d)'
      <4>1. d[1] > created' => d[1] > created /\ status'[d] = status[d]
        BY <2>1, <1>0, Deliveries DEF TypeOK
      <4> QED
        BY <4>1, <2>1, <1>0, <1>2, <1>3 DEF RowOK, Fresh
    <3>2. ASSUME NEW d \in Delivery
          PROVE  /\ status'[d] = "pending" => attempt'[d] = 1 \/ attempt'[d] < MaxAttempts
                 /\ status'[d] = "sent" => received'[d] >= 1
      BY <2>1, <2>3, <1>0, <1>2 DEF RowOK, Fresh
    <3> QED
      BY <3>1, <3>2, <1>0, <1>2 DEF RowOK
  <2>5. Counts'
    <3> SUFFICES ASSUME NEW d \in Delivery \ contested PROVE Count(d)'
      BY <1>2 DEF Counts
    <3>1. CASE status'[d] = status[d]
      BY <3>1, <2>1, <1>0, <1>2, <1>3, CountFrame DEF Counts, Live
    <3>2. CASE d[1] > created
      <4>1. /\ ~InHand(d) /\ tries[d] = 0 /\ received[d] = 0 /\ unrecorded[d] = 0 /\ attempt[d] = 1
        BY <3>2, <1>0 DEF RowOK, Fresh
      <4>2. /\ InHand(d)' <=> FALSE
            /\ tries'[d] = 0 /\ received'[d] = 0 /\ unrecorded'[d] = 0 /\ attempt'[d] = 1
        BY <4>1, <2>1, <1>2, <1>3
      <4>3. Known(d)' = 0
        BY <4>2 DEF Known
      <4> QED
        BY <4>2, <4>3 DEF Count
    <3> QED
      BY <3>1, <3>2, <2>3
  <2> QED
    BY <2>2, <2>4, <2>5, <1>4 DEF IInv
<1> QED
  BY <1>7, <1>8, <1>9, <1>10, <1>11, <1>12

\* A poll takes rows that wait; those of others become contested.
LEMMA ListStep == ASSUME IInv, NEW w \in Worker, ListPendingDeliveries(w) PROVE IInv'
<1>0. TypeOK /\ LoopOK /\ Exclusive /\ RowOK /\ Counts
  BY DEF IInv
<1>1. PICK S \in SUBSET Pending, d \in Pending :
         /\ d \in S /\ contested' = contested \cup UNION {S \cap Held(v) : v \in Worker \ {w}}
         /\ current' = [current EXCEPT ![w] = d] /\ batch' = [batch EXCEPT ![w] = S \ {d}]
  BY DEF ListPendingDeliveries
<1>2. /\ pc[w] = "idle" /\ pc' = [pc EXCEPT ![w] = "send"]
      /\ UNCHANGED <<created, status, attempt, tries, received, unrecorded>>
  BY DEF ListPendingDeliveries, rows
<1>3. S \subseteq Delivery /\ d \in S /\ \A e \in S : status[e] = "pending"
  BY <1>1 DEF Pending
<1>4. /\ current'[w] = d /\ batch'[w] = S \ {d} /\ pc'[w] = "send"
      /\ \A v \in Worker : v # w => /\ current'[v] = current[v] /\ batch'[v] = batch[v]
                                    /\ pc'[v] = pc[v]
  BY <1>0, <1>1, <1>2 DEF TypeOK
<1>5. TypeOK'
  BY <1>0, <1>1, <1>2, <1>3 DEF TypeOK
<1>6. LoopOK'
  BY <1>0, <1>3, <1>4 DEF LoopOK
<1>7. Held(w) = {} /\ Held(w)' = S /\ \A v \in Worker : v # w => Held(v)' = Held(v)
  <2>1. Held(w) = {}
    BY <1>0, <1>2, HeldBy
  <2>2. Held(w)' = S
    BY <1>3, <1>4, Deliveries DEF Held
  <2>3. \A v \in Worker : v # w => Held(v)' = Held(v)
    BY <1>4 DEF Held
  <2> QED
    BY <2>1, <2>2, <2>3
<1>8. contested \subseteq contested' /\ \A v \in Worker : v # w => S \cap Held(v) \subseteq contested'
  BY <1>1
<1>9. Exclusive'
  <2> SUFFICES ASSUME NEW v \in Worker, NEW u \in Worker, v # u
               PROVE  Held(v)' \cap Held(u)' \subseteq contested'
    BY DEF Exclusive
  <2>1. CASE v = w
    BY <2>1, <1>7, <1>8
  <2>2. CASE u = w
    BY <2>2, <1>7, <1>8
  <2>3. CASE v # w /\ u # w
    BY <2>3, <1>0, <1>7, <1>8 DEF Exclusive
  <2> QED
    BY <2>1, <2>2, <2>3
<1>10. \A e \in Delivery : InHand(e)' <=> (InHand(e) \/ e \in S)
  BY <1>7 DEF InHand
<1>11. \A e \in Delivery, T \in SUBSET Marks : At(e, T)' <=> At(e, T)
  <2>1. "send" \notin Marks /\ "idle" \notin Marks
    BY DEF Marks
  <2> QED
    BY <2>1, <1>2, <1>4 DEF At
<1>12. RowOK'
  <2>1. ASSUME NEW e \in Delivery PROVE Fresh(e)'
    <3>1. e \in S => ~(e[1] > created)
      BY <1>0, <1>3 DEF RowOK, Fresh
    <3> QED
      BY <3>1, <1>0, <1>2, <1>10 DEF RowOK, Fresh
  <2>2. \A v \in Worker : pc'[v] = "markSent" => received'[current'[v]] >= 1
    BY <1>0, <1>2, <1>4 DEF RowOK
  <2> QED
    BY <2>1, <2>2, <1>0, <1>2 DEF RowOK
<1>13. Counts'
  <2> SUFFICES ASSUME NEW e \in Delivery, e \notin contested' PROVE Count(e)'
    BY DEF Counts
  <2>1. Count(e)
    BY <1>0, <1>8 DEF Counts
  <2>2. Marks \subseteq Marks /\ {"markSent"} \subseteq Marks
    BY DEF Marks
  <2>3. (At(e, Marks)' <=> At(e, Marks)) /\ (At(e, {"markSent"})' <=> At(e, {"markSent"}))
    BY <2>2, <1>11
  <2>4. /\ tries'[e] = tries[e] /\ received'[e] = received[e] /\ unrecorded'[e] = unrecorded[e]
        /\ attempt'[e] = attempt[e] /\ (Live(e)' <=> Live(e))
    BY <1>2 DEF Live
  <2>5. CASE e \notin S
    BY <2>1, <2>3, <2>4, <2>5, <1>2, <1>10, CountFrame
  <2>6. CASE e \in S
    <3>1. \A v \in Worker : e \notin Held(v)
      BY <2>6, <1>7, <1>8
    <3>2. \A T : ~At(e, T)
      BY <3>1, Deliveries DEF At, Held
    <3>3. Live(e) /\ (attempt[e] = 1 \/ attempt[e] < MaxAttempts)
      BY <2>6, <1>0, <1>3 DEF Live, RowOK
    <3>4. Known(e) <= attempt[e] - 1 /\ received[e] <= unrecorded[e]
      BY <3>2, <3>3, <2>1 DEF Count
    <3>5. /\ tries[e] \in Nat /\ unrecorded[e] \in Nat /\ attempt[e] \in Nat
          /\ Known(e) \in Int /\ MaxAttempts \in Nat
      BY <1>0, NotificationAssumption DEF TypeOK, Known
    <3>6. Known(e) <= 0 \/ Known(e) <= MaxAttempts - 2
      BY <3>3, <3>4, <3>5
    <3>7. Known(e)' = Known(e)
      BY <2>4 DEF Known
    <3>8. status'[e] \in {"pending", "none"}
      BY <2>6, <1>2, <1>3
    <3> QED
      BY <3>4, <3>6, <3>7, <3>8, <2>1, <2>3, <2>4 DEF Count
  <2> QED
    BY <2>5, <2>6
<1> QED
  BY <1>5, <1>6, <1>9, <1>12, <1>13 DEF IInv

\* A send adds one try, and its outcome is then to be recorded.
LEMMA SendStep == ASSUME IInv, NEW w \in Worker, SendOk(w) \/ SendError(w) \/ SendTimeout(w) PROVE IInv'
<1>0. TypeOK /\ LoopOK /\ Exclusive /\ RowOK /\ Counts
  BY DEF IInv
<1>d. PICK d \in Delivery : d = current[w]
  BY <1>0 DEF SendOk, SendError, SendTimeout, LoopOK
<1>1. /\ pc[w] = "send" /\ tries' = [tries EXCEPT ![d] = @ + 1]
      /\ UNCHANGED <<created, status, attempt, batch, current, contested>>
  BY <1>d DEF SendOk, SendError, SendTimeout, rows
<1>2. PICK at \in Marks :
         /\ pc' = [pc EXCEPT ![w] = at]
         /\ \/ at = "markSent" /\ received' = [received EXCEPT ![d] = @ + 1] /\ unrecorded' = unrecorded
            \/ at = "markFailed" /\ UNCHANGED <<received, unrecorded>>
            \/ /\ at = "markFailed" /\ received' = [received EXCEPT ![d] = @ + 1]
               /\ unrecorded' = [unrecorded EXCEPT ![d] = @ + 1]
  BY <1>d DEF SendOk, SendError, SendTimeout, Marks
<1>3. d \in Delivery /\ d \in Held(w)
  BY <1>d, <1>0, <1>1, HeldBy
<1>4. /\ received[d] \in Nat /\ tries[d] \in Nat /\ unrecorded[d] \in Nat /\ attempt[d] \in Nat
      /\ tries'[d] = tries[d] + 1
      /\ \/ at = "markSent" /\ received'[d] = received[d] + 1 /\ unrecorded'[d] = unrecorded[d]
         \/ at = "markFailed" /\ received'[d] = received[d] /\ unrecorded'[d] = unrecorded[d]
         \/ at = "markFailed" /\ received'[d] = received[d] + 1 /\ unrecorded'[d] = unrecorded[d] + 1
  BY <1>0, <1>1, <1>2, <1>3 DEF TypeOK
<1>5. \A e \in Delivery : e # d =>
         tries'[e] = tries[e] /\ received'[e] = received[e] /\ unrecorded'[e] = unrecorded[e]
  BY <1>0, <1>1, <1>2 DEF TypeOK
<1>6. pc'[w] = at /\ \A v \in Worker : v # w => pc'[v] = pc[v]
  BY <1>0, <1>2 DEF TypeOK
<1>7. TypeOK'
  <2>1. pc' \in [Worker -> {"idle", "send"} \cup Marks]
    BY <1>0, <1>2 DEF TypeOK
  <2>2. tries' \in [Delivery -> Nat] /\ received' \in [Delivery -> Nat] /\ unrecorded' \in [Delivery -> Nat]
    <3>1. tries' \in [Delivery -> Nat]
      BY <1>0, <1>1 DEF TypeOK
    <3>2. received' \in [Delivery -> Nat] /\ unrecorded' \in [Delivery -> Nat]
      BY <1>0, <1>2 DEF TypeOK
    <3> QED
      BY <3>1, <3>2
  <2> QED
    BY <2>1, <2>2, <1>0, <1>1 DEF TypeOK
<1>8. at # "idle" /\ at # "send"
  BY DEF Marks
<1>9. LoopOK'
  BY <1>0, <1>1, <1>6, <1>8 DEF LoopOK
<1>10. (\A v \in Worker : Held(v)' = Held(v)) /\ (\A e : InHand(e)' <=> InHand(e))
  BY <1>1 DEF Held, InHand
<1>11. Exclusive'
  BY <1>0, <1>1, <1>10 DEF Exclusive
<1>12. RowOK'
  <2>1. \A e \in Delivery : received'[e] >= received[e]
    <3>1. \A e \in Delivery : received[e] \in Nat
      BY <1>0 DEF TypeOK
    <3> QED
      BY <3>1, <1>4, <1>5
  <2>2. ASSUME NEW e \in Delivery PROVE Fresh(e)'
    <3>1. CASE e = d
      <4>1. ~(d[1] > created)
        BY <1>0, <1>3 DEF RowOK, Fresh, InHand
      <4> QED
        BY <3>1, <4>1, <1>1 DEF Fresh
    <3>2. CASE e # d
      BY <3>2, <1>0, <1>1, <1>5, <1>10 DEF RowOK, Fresh
    <3> QED
      BY <3>1, <3>2
  <2>3. \A e \in Delivery : status'[e] = "sent" => received'[e] >= 1
    <3>1. \A e \in Delivery : received[e] \in Nat /\ received'[e] \in Nat
      BY <1>0, <1>7 DEF TypeOK
    <3> QED
      BY <3>1, <2>1, <1>0, <1>1 DEF RowOK
  <2>4. ASSUME NEW v \in Worker, pc'[v] = "markSent" PROVE received'[current'[v]] >= 1
    <3>1. CASE v = w
      BY <3>1, <2>4, <1>1, <1>4, <1>6, <1>d
    <3>2. CASE v # w
      <4>1. pc[v] = "markSent" /\ current'[v] = current[v]
        BY <3>2, <2>4, <1>1, <1>6
      <4>2. current[v] \in Delivery /\ received[current[v]] >= 1
        BY <4>1, <1>0 DEF RowOK, LoopOK
      <4>3. received[current[v]] \in Nat /\ received'[current[v]] \in Nat
        BY <4>2, <1>0, <1>7 DEF TypeOK
      <4> QED
        BY <4>1, <4>2, <4>3, <2>1
    <3> QED
      BY <3>1, <3>2
  <2> QED
    BY <2>2, <2>3, <2>4, <1>0, <1>1 DEF RowOK
<1>13. Counts'
  <2> SUFFICES ASSUME NEW e \in Delivery, e \notin contested PROVE Count(e)'
    BY <1>1 DEF Counts
  <2>1. Count(e)
    BY <1>0 DEF Counts
  <2>2. CASE e # d
    <3>1. \A T : At(e, T)' <=> At(e, T)
      BY <2>2, <1>1, <1>6, <1>d DEF At
    <3> QED
      BY <3>1, <2>1, <2>2, <1>1, <1>5, <1>10, CountFrame DEF Live
  <2>3. CASE e = d
    <3>1. \A T : At(d, T) <=> (current[w] = d /\ pc[w] \in T)
      BY <2>3, <1>0, <1>3, OnlyHolder
    <3>2. ~At(d, Marks) /\ ~At(d, {"markSent"}) /\ InHand(d)
      BY <3>1, <1>1, <1>3 DEF Marks, InHand
    <3>3. /\ received[d] <= unrecorded[d]
          /\ Live(d) => Known(d) <= attempt[d] - 1
          /\ Known(d) <= 0 \/ Known(d) <= MaxAttempts - 2
      BY <3>2, <2>1, <2>3 DEF Count
    <3>4. At(d, Marks)' /\ (at = "markSent" => At(d, {"markSent"})')
      BY <1>1, <1>6, <1>d DEF At
    <3>5. Known(d) \in Int /\ Known(d)' \in Int /\ Known(d)' <= Known(d) + 1 /\ MaxAttempts \in Nat
      BY <1>4, NotificationAssumption DEF Known
    <3>6. received'[d] <= unrecorded'[d] + 1
      BY <3>3, <1>4
    <3>7. at # "markSent" => received'[d] <= unrecorded'[d]
      BY <3>3, <1>4
    <3>8. Live(d)' => Known(d)' <= attempt'[d]
      <4>1. (Live(d)' <=> Live(d)) /\ attempt'[d] = attempt[d]
        BY <1>1 DEF Live
      <4> QED
        BY <4>1, <3>3, <3>5, <1>4
    <3>9. Known(d)' <= 1 \/ Known(d)' <= MaxAttempts - 1
      BY <3>3, <3>5
    <3>10. status'[d] \in {"pending", "none"}
      BY <3>2, <2>1, <2>3, <1>1 DEF Count
    <3> QED
      BY <3>4, <3>6, <3>7, <3>8, <3>9, <3>10, <2>3 DEF Count
  <2> QED
    BY <2>2, <2>3
<1> QED
  BY <1>7, <1>9, <1>11, <1>12, <1>13 DEF IInv

\* At the end of a dispatch, or when the process dies, the worker lets go of the
\* row and holds nothing it did not hold before.
LEMMA Release ==
    ASSUME TypeOK, LoopOK, NEW w \in Worker, NEW d \in Delivery, d = current[w], pc[w] # "idle",
           \/ NextRow(w)
           \/ /\ batch' = [batch EXCEPT ![w] = {}] /\ pc' = [pc EXCEPT ![w] = "idle"]
              /\ current' = [current EXCEPT ![w] = None]
    PROVE  /\ batch' \in [Worker -> SUBSET Delivery]
           /\ pc' \in [Worker -> {"idle", "send"} \cup Marks]
           /\ current' \in [Worker -> Delivery \cup {None}]
           /\ LoopOK' /\ pc'[w] \in {"idle", "send"}
           /\ Held(w)' \subseteq Held(w) \ {d}
           /\ \A v \in Worker : v # w => Held(v)' = Held(v) /\ pc'[v] = pc[v] /\ current'[v] = current[v]
<1>1. Held(w) = batch[w] \cup {d} /\ d \notin batch[w] /\ batch[w] \subseteq Delivery
  BY HeldBy DEF LoopOK, TypeOK
<1>2. ASSUME NEW T \in SUBSET batch[w], NEW e \in Delivery \cup {None}, NEW at \in {"idle", "send"},
             batch' = [batch EXCEPT ![w] = T], pc' = [pc EXCEPT ![w] = at],
             current' = [current EXCEPT ![w] = e],
             at = "idle" => T = {} /\ e = None, at = "send" => e \in batch[w] \ T
      PROVE  /\ batch' \in [Worker -> SUBSET Delivery]
             /\ pc' \in [Worker -> {"idle", "send"} \cup Marks]
             /\ current' \in [Worker -> Delivery \cup {None}]
             /\ LoopOK' /\ pc'[w] \in {"idle", "send"}
             /\ Held(w)' \subseteq Held(w) \ {d}
             /\ \A v \in Worker : v # w => Held(v)' = Held(v) /\ pc'[v] = pc[v] /\ current'[v] = current[v]
  <2>1. /\ batch' \in [Worker -> SUBSET Delivery]
        /\ pc' \in [Worker -> {"idle", "send"} \cup Marks]
        /\ current' \in [Worker -> Delivery \cup {None}]
    BY <1>1, <1>2 DEF TypeOK
  <2>2. /\ batch'[w] = T /\ pc'[w] = at /\ current'[w] = e
        /\ \A v \in Worker : v # w => batch'[v] = batch[v] /\ pc'[v] = pc[v] /\ current'[v] = current[v]
    BY <1>2 DEF TypeOK
  <2>3. Held(w)' \subseteq Held(w) \ {d} /\ \A v \in Worker : v # w => Held(v)' = Held(v)
    BY <2>2, <1>1, <1>2 DEF Held
  <2>4. LoopOK'
    BY <2>2, <1>1, <1>2 DEF LoopOK
  <2> QED
    BY <2>1, <2>2, <2>3, <2>4
<1>3. CASE batch' = [batch EXCEPT ![w] = {}] /\ pc' = [pc EXCEPT ![w] = "idle"]
           /\ current' = [current EXCEPT ![w] = None]
  <2>1. {} \in SUBSET batch[w] /\ None \in Delivery \cup {None}
    OBVIOUS
  <2> QED
    BY <2>1, <1>2, <1>3
<1>4. CASE NextRow(w)
  <2>1. CASE batch[w] = {} /\ pc' = [pc EXCEPT ![w] = "idle"]
             /\ current' = [current EXCEPT ![w] = None] /\ batch' = batch
    <3>1. batch' = [batch EXCEPT ![w] = {}]
      BY <2>1 DEF TypeOK
    <3> QED
      BY <3>1, <2>1, <1>3
  <2>2. ASSUME NEW e \in batch[w], pc' = [pc EXCEPT ![w] = "send"], current' = [current EXCEPT ![w] = e],
               batch' = [batch EXCEPT ![w] = @ \ {e}]
        PROVE  /\ batch' \in [Worker -> SUBSET Delivery]
               /\ pc' \in [Worker -> {"idle", "send"} \cup Marks]
               /\ current' \in [Worker -> Delivery \cup {None}]
               /\ LoopOK' /\ pc'[w] \in {"idle", "send"}
               /\ Held(w)' \subseteq Held(w) \ {d}
               /\ \A v \in Worker : v # w => Held(v)' = Held(v) /\ pc'[v] = pc[v] /\ current'[v] = current[v]
    <3>1. /\ batch' = [batch EXCEPT ![w] = batch[w] \ {e}] /\ batch[w] \ {e} \in SUBSET batch[w]
          /\ e \in Delivery \cup {None} /\ e \in batch[w] \ (batch[w] \ {e})
      BY <2>2, <1>1
    <3> QED
      BY <3>1, <2>2, <1>2
  <2> QED
    BY <2>1, <2>2, <1>4 DEF NextRow
<1> QED
  BY <1>3, <1>4

\* The end of a dispatch, recorded or not, closes the accounts of its row.
LEMMA MarkStep ==
    ASSUME IInv, NEW w \in Worker,
           MarkDeliverySent(w) \/ MarkDeliveryFailed(w) \/ MarkError(w) \/ Crash(w)
    PROVE  IInv'
<1>0. TypeOK /\ LoopOK /\ Exclusive /\ RowOK /\ Counts
  BY DEF IInv
<1>1. pc[w] # "idle" /\ UNCHANGED <<created, tries, received, contested>>
  BY DEF MarkDeliverySent, MarkDeliveryFailed, MarkError, Crash, history
<1>d. PICK d \in Delivery : d = current[w]
  BY <1>0, <1>1 DEF LoopOK
<1>2. \/ NextRow(w)
      \/ /\ batch' = [batch EXCEPT ![w] = {}] /\ pc' = [pc EXCEPT ![w] = "idle"]
         /\ current' = [current EXCEPT ![w] = None]
  BY DEF MarkDeliverySent, MarkDeliveryFailed, MarkError, Crash
<1>3. /\ batch' \in [Worker -> SUBSET Delivery]
      /\ pc' \in [Worker -> {"idle", "send"} \cup Marks]
      /\ current' \in [Worker -> Delivery \cup {None}]
      /\ LoopOK' /\ pc'[w] \in {"idle", "send"}
      /\ Held(w)' \subseteq Held(w) \ {d}
      /\ \A v \in Worker : v # w => Held(v)' = Held(v) /\ pc'[v] = pc[v] /\ current'[v] = current[v]
  BY <1>0, <1>1, <1>2, <1>d, Release
\* What the four do to the row.
<1>4. \/ /\ pc[w] = "markSent" /\ UNCHANGED <<attempt, unrecorded>>
         /\ status[d] # "none" => status' = [status EXCEPT ![d] = "sent"]
         /\ status[d] = "none" => status' = status
      \/ /\ pc[w] = "markFailed" /\ unrecorded' = unrecorded
         /\ status[d] # "none" => /\ status' = [status EXCEPT ![d] = "failed"]
                                  /\ attempt' = [attempt EXCEPT ![d] = @ + 1]
         /\ status[d] = "none" => UNCHANGED <<status, attempt>>
      \/ UNCHANGED <<status, attempt>> /\ unrecorded' = [unrecorded EXCEPT ![d] = @ + 1]
      \/ pc[w] = "send" /\ UNCHANGED <<status, attempt, unrecorded>>
  BY <1>d DEF MarkDeliverySent, MarkDeliveryFailed, MarkError, Crash, RowExists, history, rows
<1>5. /\ status' \in [Delivery -> Status] /\ attempt' \in [Delivery -> Nat \ {0}]
      /\ unrecorded' \in [Delivery -> Nat]
  BY <1>0, <1>4 DEF TypeOK, Status
<1>6. \A e \in Delivery : e # d =>
         status'[e] = status[e] /\ attempt'[e] = attempt[e] /\ unrecorded'[e] = unrecorded[e]
  BY <1>0, <1>4 DEF TypeOK
<1>7. \/ /\ pc[w] = "markSent" /\ status'[d] \in {"sent", "none"} /\ unrecorded'[d] = unrecorded[d]
         /\ attempt'[d] = attempt[d]
      \/ /\ pc[w] = "markFailed" /\ unrecorded'[d] = unrecorded[d]
         /\ \/ status[d] # "none" /\ status'[d] = "failed" /\ attempt'[d] = attempt[d] + 1
            \/ status'[d] = "none" /\ attempt'[d] = attempt[d]
      \/ /\ status'[d] = status[d] /\ attempt'[d] = attempt[d] /\ unrecorded'[d] = unrecorded[d] + 1
      \/ /\ pc[w] = "send" /\ status'[d] = status[d] /\ attempt'[d] = attempt[d]
         /\ unrecorded'[d] = unrecorded[d]
  BY <1>0, <1>4 DEF TypeOK
<1>8. TypeOK'
  BY <1>0, <1>1, <1>3, <1>5 DEF TypeOK
<1>9. d \in Held(w) /\ Held(w) = batch[w] \cup {d}
  BY <1>0, <1>1, <1>d, HeldBy
<1>10. \A v \in Worker : Held(v)' \subseteq Held(v)
  BY <1>3
<1>11. Exclusive'
  BY <1>0, <1>1, <1>10 DEF Exclusive
<1>12. \A e \in Delivery : InHand(e)' => InHand(e)
  BY <1>10 DEF InHand
<1>13. "idle" \notin Marks /\ "send" \notin Marks /\ {"markSent"} \subseteq Marks
  BY DEF Marks
<1>14. \A e \in Delivery, T \in SUBSET Marks : e # d => (At(e, T)' <=> At(e, T))
  BY <1>3, <1>13, <1>d DEF At
<1>15. RowOK'
  <2>1. ASSUME NEW e \in Delivery PROVE Fresh(e)'
    <3>1. CASE e = d
      <4>1. ~(d[1] > created)
        BY <1>0, <1>9 DEF RowOK, Fresh, InHand
      <4> QED
        BY <3>1, <4>1, <1>1 DEF Fresh
    <3>2. CASE e # d
      BY <3>2, <1>0, <1>1, <1>6, <1>12 DEF RowOK, Fresh
    <3> QED
      BY <3>1, <3>2
  <2>2. ASSUME NEW e \in Delivery
        PROVE  /\ status'[e] = "pending" => attempt'[e] = 1 \/ attempt'[e] < MaxAttempts
               /\ status'[e] = "sent" => received'[e] >= 1
    <3>1. CASE e # d
      BY <3>1, <1>0, <1>1, <1>6 DEF RowOK
    <3>2. CASE e = d
      <4>1. pc[w] = "markSent" => received[d] >= 1
        BY <1>0, <1>d DEF RowOK
      <4> QED
        BY <3>2, <4>1, <1>0, <1>1, <1>7 DEF RowOK
    <3> QED
      BY <3>1, <3>2
  <2>3. ASSUME NEW v \in Worker, pc'[v] = "markSent" PROVE received'[current'[v]] >= 1
    BY <2>3, <1>0, <1>1, <1>3 DEF RowOK
  <2> QED
    BY <2>1, <2>2, <2>3 DEF RowOK
<1>16. Counts'
  <2> SUFFICES ASSUME NEW e \in Delivery, e \notin contested PROVE Count(e)'
    BY <1>1 DEF Counts
  <2>1. Count(e)
    BY <1>0 DEF Counts
  <2>2. CASE e # d
    <3>1. Marks \in SUBSET Marks /\ {"markSent"} \in SUBSET Marks
      BY <1>13
    <3>2. (At(e, Marks)' <=> At(e, Marks)) /\ (At(e, {"markSent"})' <=> At(e, {"markSent"}))
      BY <3>1, <2>2, <1>14
    <3>3. /\ tries'[e] = tries[e] /\ received'[e] = received[e] /\ unrecorded'[e] = unrecorded[e]
          /\ attempt'[e] = attempt[e] /\ status'[e] = status[e]
      BY <2>2, <1>1, <1>6
    <3> QED
      BY <3>2, <3>3, <2>1, <1>12, CountFrame DEF Live
  <2>3. CASE e = d
    <3>1. /\ \A v \in Worker : v # w => d \notin Held(v)
          /\ \A T : At(d, T) <=> (current[w] = d /\ pc[w] \in T)
      BY <2>3, <1>0, <1>9, OnlyHolder
    <3>2. ~InHand(d)' /\ InHand(d)
      BY <3>1, <1>3, <1>9 DEF InHand
    <3>3. /\ At(d, Marks) <=> pc[w] \in Marks
          /\ At(d, {"markSent"}) <=> pc[w] = "markSent"
      BY <3>1, <1>d
    <3>4. /\ status[d] \in {"pending", "none"} /\ received[d] <= unrecorded[d] + 1
          /\ pc[w] # "markSent" => received[d] <= unrecorded[d]
          /\ Live(d) => Known(d) <= attempt[d]
          /\ Live(d) /\ pc[w] = "send" => Known(d) <= attempt[d] - 1
          /\ Known(d) <= 1 \/ Known(d) <= MaxAttempts - 1
      BY <3>2, <3>3, <2>1, <2>3, <1>13 DEF Count
    <3>5. /\ tries[d] \in Nat /\ received[d] \in Nat /\ unrecorded[d] \in Nat /\ attempt[d] \in Nat
          /\ MaxAttempts \in Nat /\ received'[d] = received[d] /\ tries'[d] = tries[d]
          /\ Known(d) = tries[d] - unrecorded[d] /\ Known(d)' = tries[d] - unrecorded'[d]
      BY <1>0, <1>1, NotificationAssumption DEF TypeOK, Known
    <3>6. received[d] <= unrecorded'[d] + 1 /\ (Live(d)' => received[d] <= unrecorded'[d])
      BY <3>4, <3>5, <1>7 DEF Live
    <3>7. Live(d)' => Known(d)' <= attempt'[d] - 1
      BY <3>4, <3>5, <1>7 DEF Live
    <3>8. attempt'[d] \in Nat /\ Known(d)' \in Int
      BY <3>5, <1>5
    <3>9. Known(d)' <= 1 \/ Known(d)' <= MaxAttempts - 1
      BY <3>4, <3>5, <1>7
    <3>10. Live(d)' => Known(d)' <= attempt'[d]
      BY <3>7, <3>8
    <3> QED
      BY <3>2, <3>5, <3>6, <3>7, <3>9, <3>10, <2>3 DEF Count
  <2> QED
    BY <2>2, <2>3
<1> QED
  BY <1>3, <1>8, <1>11, <1>15, <1>16 DEF IInv

\* The invariant holds in every reachable state of the workers and the table.
LEMMA InvHolds == Spec => []IInv
<1>1. IInv /\ [Next]_vars => IInv'
  <2> SUFFICES ASSUME IInv, [Next]_vars PROVE IInv'
    OBVIOUS
  <2>1. CASE UNCHANGED vars
    <3>1. UNCHANGED <<created, status, attempt, batch, pc, current, tries, received, unrecorded, contested>>
      BY <2>1 DEF vars, rows, loop, history
    <3> QED
      BY <3>1 DEF IInv, TypeOK, LoopOK, Exclusive, RowOK, Fresh, Counts, Count, Live, Known, InHand,
                  At, Held
  <2>2. CASE Next
    BY <2>2, TableStep, ListStep, SendStep, MarkStep DEF Next, Dispatch
  <2> QED
    BY <2>1, <2>2
<1> QED
  BY <1>1, InitInv, PTL DEF Spec

\* deliverPending, dispatch: a row says sent only for a notification that was
\* received, and is received twice only when an outcome went unrecorded or two
\* workers had the row at once, for any number of workers and failures.
THEOREM DeliveriesReceivedAsRecorded == Spec => []ReceivedAsRecorded
<1>1. IInv => ReceivedAsRecorded
  <2> SUFFICES ASSUME IInv, NEW d \in Delivery
               PROVE  /\ status[d] = "sent" => received[d] >= 1
                      /\ d \notin contested => received[d] <= 1 + unrecorded[d]
    BY DEF ReceivedAsRecorded
  <2>1. received[d] \in Nat /\ unrecorded[d] \in Nat
    BY DEF IInv, TypeOK
  <2>2. d \notin contested => received[d] <= unrecorded[d] + 1
    BY DEF IInv, Counts, Count
  <2> QED
    BY <2>1, <2>2 DEF IInv, RowOK
<1> QED
  BY <1>1, InvHolds, PTL

\* resetRetryable: the attempts of a delivery stop at the ceiling, whatever it
\* is, but for the tries the table does not know of.
THEOREM DeliveryRetriesStop == Spec => []RetriesStop
<1>1. IInv => RetriesStop
  <2> SUFFICES ASSUME IInv, NEW d \in Delivery \ contested
               PROVE  \/ tries[d] <= 1 + unrecorded[d]
                      \/ tries[d] <= MaxAttempts - 1 + unrecorded[d]
    BY DEF RetriesStop
  <2>1. tries[d] \in Nat /\ unrecorded[d] \in Nat /\ MaxAttempts \in Nat
    BY NotificationAssumption DEF IInv, TypeOK
  <2>2. Known(d) <= 1 \/ Known(d) <= MaxAttempts - 1
    BY DEF IInv, Counts, Count
  <2> QED
    BY <2>1, <2>2 DEF Known
<1> QED
  BY <1>1, InvHolds, PTL
=============================================================================
