------------------------- MODULE AlertWorker_proofs -------------------------
(***************************************************************************)
(* Proofs about internal/worker/alert.go: the alert pool is a StreamConsumer*)
(* and inherits its guarantees, no breach is suppressed without an alert,  *)
(* and the dedup check keeps alerts of one key apart.                      *)
(***************************************************************************)
EXTENDS AlertWorker, StreamConsumer_proofs

\* Every step of the alert pool is a step of the consumer or leaves it alone.
LEMMA AlertStepIsConsumerStep == AlertNext => [Next]_vars
<1> SUFFICES ASSUME AlertNext PROVE [Next]_vars
  OBVIOUS
<1>1. CASE PublishThresholdBreach
  BY <1>1 DEF PublishThresholdBreach, Next
<1>2. ASSUME NEW w \in Worker, Consume(w) PROVE [Next]_vars
  BY <1>2 DEF Consume, Next, Step
<1>3. ASSUME NEW w \in Worker, ProcessMessage(w) PROVE [Next]_vars
  BY <1>3 DEF ProcessMessage, RejectMalformed, SuppressDuplicate, CheckDuplicate,
              CheckFails, CreateAlert, CreateAlertFails, Next, Step
<1>4. ASSUME NEW m \in recent, LeaveWindow(m) PROVE [Next]_vars
  BY <1>4 DEF LeaveWindow
<1>5. CASE AlertCrash
  BY <1>5 DEF AlertCrash, Next
<1> QED
  BY <1>1, <1>2, <1>3, <1>4, <1>5 DEF AlertNext

\* The alert worker implements the generic consumer: processMessage's two
\* database calls are inside one handler call of processStreams.
THEOREM AlertPoolIsConsumer == AlertSpec => ImplementsConsumer
<1>1. AlertInit => Init
  BY DEF AlertInit
<1>2. [AlertNext]_allVars => [Next]_vars
  BY AlertStepIsConsumerStep DEF allVars
<1> QED
  BY <1>1, <1>2, PTL DEF AlertSpec, Spec, ImplementsConsumer

\* So the inductive invariant of the consumer holds of the alert pool.
LEMMA AlertConsumerInv == AlertSpec => []IInv
BY AlertPoolIsConsumer, InvHolds, PTL DEF ImplementsConsumer
-----------------------------------------------------------------------------
\* The handler's message while it is between its two database calls.
LEMMA CurrentInHandler ==
    ASSUME IInv, NEW w \in Worker, pc[w] # "read"
    PROVE  /\ Current(w) \in inbox[w] /\ Current(w) \in Id
           /\ pc[w] = "handle" => handled[Current(w)] = 0
BY CurrentIsOldest DEF IInv, TypeOK, LoopState, HandledState

AlertInv == AlertTypeOK /\ HandledIsAlerted

\* An empty alerts table satisfies the invariant of the pool.
LEMMA AlertInitInv == AlertInit => AlertInv
BY DEF AlertInit, Init, AlertInv, AlertTypeOK, HandledIsAlerted

\* No step of processMessage, of the consumer or of time breaks the pool's
\* invariant.
LEMMA AlertStepInv == IInv /\ AlertInv /\ [AlertNext]_allVars => AlertInv'
<1> SUFFICES ASSUME IInv, AlertInv, [AlertNext]_allVars PROVE AlertInv'
  OBVIOUS
<1>1. CASE PublishThresholdBreach
  BY <1>1 DEF PublishThresholdBreach, XAdd, alertVars, AlertInv, AlertTypeOK, HandledIsAlerted
<1>2. ASSUME NEW w \in Worker, Consume(w) PROVE AlertInv'
  <2>1. UNCHANGED <<breach, phase, alerts, recent, blind, handled>> /\ pc[w] # "handle"
    BY <1>2 DEF Consume, alertVars, XReadGroup, XReadGroupError, XAck, XAckError
  <2>2. \A v \in Worker : v # w => pc'[v] = pc[v]
    BY <1>2 DEF Consume, XReadGroup, XReadGroupError, XAck, XAckError, Advance, IInv, TypeOK
  <2> QED
    BY <2>1, <2>2 DEF AlertInv, AlertTypeOK, HandledIsAlerted
<1>3. ASSUME NEW w \in Worker, ProcessMessage(w) PROVE AlertInv'
  <2> DEFINE c == Current(w)
  <2>0. pc[w] = "handle" /\ c \in Id /\ handled[c] = 0
    BY <1>3, CurrentInHandler
       DEF ProcessMessage, RejectMalformed, SuppressDuplicate, CheckDuplicate,
           CheckFails, CreateAlert, CreateAlertFails, Starting, AlertInv, AlertTypeOK
  <2> HIDE DEF c
  <2>1. CASE RejectMalformed(w)
    <3>1. UNCHANGED <<alertVars, handled>> /\ \A v \in Worker : v # w => pc'[v] = pc[v]
      BY <2>1 DEF RejectMalformed, HandlerError, Advance, IInv, TypeOK
    <3>2. phase[w] = "start"
      BY <2>1 DEF RejectMalformed, Starting
    <3> QED
      BY <3>1, <3>2 DEF alertVars, AlertInv, AlertTypeOK, HandledIsAlerted
  <2>2. CASE SuppressDuplicate(w)
    <3>1. /\ UNCHANGED alertVars /\ \A v \in Worker : v # w => pc'[v] = pc[v]
          /\ handled' = [handled EXCEPT ![c] = @ + 1]
      BY <2>2 DEF SuppressDuplicate, HandlerOk, IInv, TypeOK, c
    <3>2. phase[w] = "start" /\ \E n \in recent : breach[n] = breach[c]
      BY <2>2 DEF SuppressDuplicate, Starting, HasRecentAlert, c
    <3>3. AlertTypeOK'
      BY <3>1, <3>2 DEF alertVars, AlertInv, AlertTypeOK
    <3>4. HandledIsAlerted'
      BY <3>1, <3>2, <2>0 DEF alertVars, AlertInv, AlertTypeOK, HandledIsAlerted, IInv, TypeOK
    <3> QED
      BY <3>3, <3>4 DEF AlertInv
  <2>3. CASE CheckDuplicate(w)
    <3>1. /\ UNCHANGED <<pc, handled, breach, alerts, recent>>
          /\ phase' = [phase EXCEPT ![w] = "create"]
          /\ blind' \subseteq blind \cup {c}
      BY <2>3 DEF CheckDuplicate, vars, c
    <3> QED
      BY <3>1, <2>0 DEF AlertInv, AlertTypeOK, HandledIsAlerted
  <2>4. CASE CheckFails(w)
    BY <2>4, <2>0 DEF CheckFails, vars, AlertInv, AlertTypeOK, HandledIsAlerted, c
  <2>5. CASE CreateAlert(w)
    <3>1. /\ alerts' = alerts \cup {c} /\ recent' = recent \cup {c}
          /\ handled' = [handled EXCEPT ![c] = @ + 1]
          /\ phase' = [phase EXCEPT ![w] = "start"]
          /\ UNCHANGED <<breach, blind>>
          /\ \A v \in Worker : v # w => pc'[v] = pc[v]
      BY <2>5 DEF CreateAlert, InsertAlert, HandlerOk, IInv, TypeOK, c
    <3>2. AlertTypeOK'
      BY <3>1, <2>0 DEF AlertInv, AlertTypeOK
    <3>3. HandledIsAlerted'
      BY <3>1, <2>0 DEF AlertInv, AlertTypeOK, HandledIsAlerted, IInv, TypeOK
    <3> QED
      BY <3>2, <3>3 DEF AlertInv
  <2>6. CASE CreateAlertFails(w)
    <3>1. /\ \/ alerts' = alerts \cup {c} /\ recent' = recent \cup {c}
             \/ UNCHANGED <<alerts, recent>>
          /\ phase' = [phase EXCEPT ![w] = "start"]
          /\ UNCHANGED <<breach, blind, handled>>
          /\ \A v \in Worker : v # w => pc'[v] = pc[v]
      BY <2>6 DEF CreateAlertFails, InsertAlert, HandlerError, Advance, IInv, TypeOK, c
    <3>2. AlertTypeOK'
      BY <3>1, <2>0 DEF AlertInv, AlertTypeOK
    <3>3. HandledIsAlerted'
      BY <3>1 DEF AlertInv, HandledIsAlerted
    <3> QED
      BY <3>2, <3>3 DEF AlertInv
  <2> QED
    BY <1>3, <2>1, <2>2, <2>3, <2>4, <2>5, <2>6 DEF ProcessMessage
<1>4. ASSUME NEW m \in recent, LeaveWindow(m) PROVE AlertInv'
  BY <1>4 DEF LeaveWindow, vars, AlertInv, AlertTypeOK, HandledIsAlerted
<1>5. CASE AlertCrash
  BY <1>5 DEF AlertCrash, Crash, AlertInv, AlertTypeOK, HandledIsAlerted
<1>6. CASE UNCHANGED allVars
  BY <1>6 DEF allVars, alertVars, vars, AlertInv, AlertTypeOK, HandledIsAlerted
<1> QED
  BY <1>1, <1>2, <1>3, <1>4, <1>5, <1>6 DEF AlertNext

\* The pool's invariant holds in every reachable state.
LEMMA AlertInvHolds == AlertSpec => []AlertInv
BY AlertInitInv, AlertStepInv, AlertConsumerInv, PTL DEF AlertSpec

\* A handled breach has an alert of its module and budget, for every pool
\* size: the races of the dedup check duplicate alerts but never lose one.
THEOREM NoBreachSwallowed == AlertSpec => []HandledIsAlerted
BY AlertInvHolds, PTL DEF AlertInv
-----------------------------------------------------------------------------
\* Between its two calls a goroutine relies on what its check found.  An
\* alert of its key that is in the window by then, or an insert of its key
\* that another goroutine is about to make, has a blind check on one side.
Blinded(m, n) == m \in blind \/ n \in blind

CheckHolds ==
    \A w \in Worker : phase[w] = "create" =>
        \A n \in recent : breach[n] = breach[Current(w)] => Blinded(Current(w), n)
InsertsApart ==
    \A v, w \in Worker :
        (v # w /\ phase[v] = "create" /\ phase[w] = "create"
               /\ breach[Current(v)] = breach[Current(w)]) => Blinded(Current(v), Current(w))

DedupInv == CheckHolds /\ InsertsApart /\ OneRecentAlertPerKey

\* A step that inserts nothing and starts no insert keeps the invariant.
LEMMA QuietStepKeepsApart ==
    ASSUME DedupInv,
           UNCHANGED <<breach, blind>>, recent' \subseteq recent,
           \A w \in Worker : phase'[w] = "create" =>
               phase[w] = "create" /\ Current(w)' = Current(w)
    PROVE  DedupInv'
<1>1. CheckHolds'
  BY DEF DedupInv, CheckHolds, Blinded
<1>2. InsertsApart'
  BY DEF DedupInv, InsertsApart, Blinded
<1>3. OneRecentAlertPerKey'
  BY DEF DedupInv, OneRecentAlertPerKey
<1> QED
  BY <1>1, <1>2, <1>3 DEF DedupInv

\* An insert: the alert joins the window, and its goroutine leaves the
\* section between the two calls.
LEMMA InsertKeepsApart ==
    ASSUME DedupInv, NEW w \in Worker, phase[w] = "create",
           recent' = recent \cup {Current(w)},
           phase' = [phase EXCEPT ![w] = "start"], phase \in [Worker -> {"start", "create"}],
           UNCHANGED <<breach, blind>>,
           \A v \in Worker : v # w => Current(v)' = Current(v)
    PROVE  DedupInv'
<1> DEFINE c == Current(w)
<1>1. \A n \in recent : breach[n] = breach[c] => Blinded(c, n)
  BY DEF DedupInv, CheckHolds
<1>2. \A v \in Worker : (v # w /\ phase[v] = "create" /\ breach[Current(v)] = breach[c])
                        => Blinded(Current(v), c)
  BY DEF DedupInv, InsertsApart
<1>3. \A v \in Worker : phase'[v] = "create" =>
                        v # w /\ phase[v] = "create" /\ Current(v)' = Current(v)
  OBVIOUS
<1> HIDE DEF c
<1>4. recent' = recent \cup {c}
  BY DEF c
<1>5. CheckHolds'
  BY <1>2, <1>3, <1>4 DEF DedupInv, CheckHolds, Blinded
<1>6. InsertsApart'
  BY <1>3 DEF DedupInv, InsertsApart, Blinded
<1>7. OneRecentAlertPerKey'
  BY <1>1, <1>4 DEF DedupInv, OneRecentAlertPerKey, Blinded
<1> QED
  BY <1>5, <1>6, <1>7 DEF DedupInv

\* The check: no alert of the key is in the window or the message is blind,
\* and it is blind if another goroutine is about to insert.
LEMMA CheckKeepsApart ==
    ASSUME DedupInv, NEW w \in Worker, phase \in [Worker -> {"start", "create"}],
           CheckDuplicate(w) \/ CheckFails(w)
    PROVE  DedupInv'
<1> DEFINE c == Current(w)
<1>1. /\ UNCHANGED <<breach, recent, inbox>>
      /\ phase' = [phase EXCEPT ![w] = "create"]
      /\ blind \subseteq blind'
      /\ c \in blind' \/ (~HasRecentAlert(breach[c]) /\ ~InsertUnderWay(w))
  BY DEF CheckDuplicate, CheckFails, vars
<1>2. \A v \in Worker : Current(v)' = Current(v)
  BY <1>1 DEF Current
<1>3. c \in blind' \/ \A n \in recent : breach[n] # breach[c]
  BY <1>1 DEF HasRecentAlert
<1>4. c \in blind' \/ \A v \in Worker : (v # w /\ phase[v] = "create") => breach[Current(v)] # breach[c]
  BY <1>1 DEF InsertUnderWay
<1> HIDE DEF c
<1>5. Current(w) = c
  BY DEF c
<1>6. CheckHolds'
  BY <1>1, <1>2, <1>3, <1>5 DEF DedupInv, CheckHolds, Blinded
<1>7. InsertsApart'
  BY <1>1, <1>2, <1>4, <1>5 DEF DedupInv, InsertsApart, Blinded
<1>8. OneRecentAlertPerKey'
  BY <1>1 DEF DedupInv, OneRecentAlertPerKey
<1> QED
  BY <1>6, <1>7, <1>8 DEF DedupInv

\* Every step of the pool keeps alerts of one key apart.
LEMMA DedupStepInv == IInv /\ AlertInv /\ DedupInv /\ [AlertNext]_allVars => DedupInv'
<1> SUFFICES ASSUME IInv, AlertInv, DedupInv, [AlertNext]_allVars PROVE DedupInv'
  OBVIOUS
<1>0. /\ phase \in [Worker -> {"start", "create"}] /\ inbox \in [Worker -> SUBSET Id]
      /\ \A v \in Worker : phase[v] = "create" => pc[v] = "handle"
  BY DEF AlertInv, AlertTypeOK, IInv, TypeOK
<1>1. CASE PublishThresholdBreach
  <2>1. UNCHANGED <<alertVars, inbox>>
    BY <1>1 DEF PublishThresholdBreach, XAdd
  <2> QED
    BY <2>1, QuietStepKeepsApart DEF alertVars, Current
<1>2. ASSUME NEW w \in Worker, Consume(w) PROVE DedupInv'
  <2>1. UNCHANGED alertVars /\ pc[w] # "handle" /\ \A v \in Worker : v # w => inbox'[v] = inbox[v]
    BY <1>0, <1>2 DEF Consume, XReadGroup, XReadGroupError, XAck, XAckError, Advance
  <2> QED
    BY <1>0, <2>1, QuietStepKeepsApart DEF alertVars, Current
<1>3. ASSUME NEW w \in Worker, ProcessMessage(w) PROVE DedupInv'
  <2>1. CASE RejectMalformed(w) \/ SuppressDuplicate(w)
    <3>1. UNCHANGED alertVars /\ phase[w] = "start" /\ \A v \in Worker : v # w => inbox'[v] = inbox[v]
      BY <1>0, <2>1 DEF RejectMalformed, SuppressDuplicate, Starting, HandlerError, HandlerOk, Advance
    <3> QED
      BY <3>1, QuietStepKeepsApart DEF alertVars, Current
  <2>2. CASE CheckDuplicate(w) \/ CheckFails(w)
    BY <1>0, <2>2, CheckKeepsApart
  <2>3. CASE CreateAlert(w) \/ CreateAlertFails(w)
    <3>1. /\ phase[w] = "create" /\ phase' = [phase EXCEPT ![w] = "start"]
          /\ UNCHANGED <<breach, blind>>
          /\ recent' = recent \cup {Current(w)} \/ recent' = recent
      BY <2>3 DEF CreateAlert, CreateAlertFails, InsertAlert
    <3>2. \A v \in Worker : v # w => inbox'[v] = inbox[v]
      BY <1>0, <2>3 DEF CreateAlert, CreateAlertFails, HandlerError, HandlerOk, Advance
    <3>3. \A v \in Worker : v # w => Current(v)' = Current(v)
      BY <3>2 DEF Current
    <3>4. CASE recent' = recent \cup {Current(w)}
      BY <1>0, <3>1, <3>3, <3>4, InsertKeepsApart
    <3>5. CASE recent' = recent
      BY <1>0, <3>1, <3>3, <3>5, QuietStepKeepsApart
    <3> QED
      BY <3>1, <3>4, <3>5
  <2> QED
    BY <1>3, <2>1, <2>2, <2>3 DEF ProcessMessage
<1>4. ASSUME NEW m \in recent, LeaveWindow(m) PROVE DedupInv'
  <2>1. UNCHANGED <<inbox, breach, phase, blind>> /\ recent' \subseteq recent
    BY <1>4 DEF LeaveWindow, vars
  <2> QED
    BY <2>1, QuietStepKeepsApart DEF Current
<1>5. CASE AlertCrash
  BY <1>5, QuietStepKeepsApart DEF AlertCrash
<1>6. CASE UNCHANGED allVars
  BY <1>6, QuietStepKeepsApart DEF allVars, alertVars, vars, Current
<1> QED
  BY <1>1, <1>2, <1>3, <1>4, <1>5, <1>6 DEF AlertNext

\* For every pool, two alerts of one module and budget are inside the dedup
\* window together only if one of their checks failed or was made while
\* another goroutine was between its check and its insert.
THEOREM DedupHoldsUnlessBlind == AlertSpec => []OneRecentAlertPerKey
<1>1. AlertInit => DedupInv
  BY DEF AlertInit, DedupInv, CheckHolds, InsertsApart, OneRecentAlertPerKey
<1>2. DedupInv => OneRecentAlertPerKey
  BY DEF DedupInv
<1> QED
  BY <1>1, <1>2, DedupStepInv, AlertInvHolds, AlertConsumerInv, PTL DEF AlertSpec
=============================================================================
