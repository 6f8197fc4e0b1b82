---------------------------- MODULE AlertWorker ----------------------------
(***************************************************************************)
(* internal/worker/alert.go: the pool that turns threshold breaches of the *)
(* agent:alert stream into alerts.  It is a StreamConsumer whose handler,  *)
(* processMessage, is two database calls: HasRecentAlert looks for an      *)
(* alert of the same module and budget inside the dedup window, and        *)
(* CreateAlertWithDeliveryTx inserts one when there is none.  Nothing      *)
(* serialises the two calls of one goroutine with those of another.        *)
(* A message's alert is named by the message: the consumer calls the       *)
(* handler at most once per message.                                       *)
(***************************************************************************)
EXTENDS StreamConsumer

CONSTANTS
    Key,           \* dedup keys: environment, module and budget_id of a breach
    Malformed      \* a payload that does not parse

ASSUME KeyAssumption == Malformed \notin Key

VARIABLES
    breach,        \* [id -> what the publisher put into the message]
    phase,         \* [Worker -> how far processMessage is]
    alerts,        \* messages an alert row was created for
    recent,        \* alerts whose created_at is inside the dedup window
    blind          \* messages whose dedup check failed, or could not see an
                   \* insert another goroutine was about to make

alertVars == <<breach, phase, alerts, recent, blind>>
allVars == <<vars, alertVars>>

\* The breach is determined before it is published: PublishThresholdBreach
\* appends it, XAdd only moves it into the stream.
AlertInit ==
    /\ Init
    /\ breach \in [Id -> Key \cup {Malformed}]
    /\ phase = [w \in Worker |-> "start"]
    /\ alerts = {} /\ recent = {} /\ blind = {}

PublishThresholdBreach ==
    /\ XAdd
    /\ UNCHANGED alertVars

\* The consumer's own steps.
Consume(w) ==
    /\ XReadGroup(w) \/ XReadGroupError(w) \/ XAck(w) \/ XAckError(w)
    /\ UNCHANGED alertVars

\* Mutant of HasRecentAlert: the query forgets the module and the budget.
HasAnyRecentAlert(k) == recent # {}

HasRecentAlert(k) == \E m \in recent : breach[m] = k

Starting(w) == pc[w] = "handle" /\ phase[w] = "start"

\* uuid.Parse or json.Unmarshal fails: the handler's first error returns.
RejectMalformed(w) ==
    /\ Starting(w)
    /\ breach[Current(w)] = Malformed
    /\ HandlerError(w)
    /\ UNCHANGED alertVars

\* "duplicate alert suppressed": the handler is done without an alert.
SuppressDuplicate(w) ==
    /\ Starting(w)
    /\ breach[Current(w)] \in Key
    /\ HasRecentAlert(breach[Current(w)])
    /\ HandlerOk(w)
    /\ UNCHANGED alertVars

\* Another goroutine is between its two calls for the same key.
InsertUnderWay(w) ==
    \E v \in Worker \ {w} :
        phase[v] = "create" /\ breach[Current(v)] = breach[Current(w)]

\* Mutant of CheckDuplicate: the answer of the query is not looked at.
CheckDuplicateIgnored(w) ==
    /\ Starting(w)
    /\ breach[Current(w)] \in Key
    /\ phase' = [phase EXCEPT ![w] = "create"]
    /\ blind' = blind \cup {m \in {Current(w)} : InsertUnderWay(w)}
    /\ UNCHANGED <<vars, breach, alerts, recent>>

\* No recent alert found: the handler goes on to create one.
CheckDuplicate(w) ==
    /\ Starting(w)
    /\ breach[Current(w)] \in Key
    /\ ~HasRecentAlert(breach[Current(w)])
    /\ phase' = [phase EXCEPT ![w] = "create"]
    /\ blind' = blind \cup {m \in {Current(w)} : InsertUnderWay(w)}
    /\ UNCHANGED <<vars, breach, alerts, recent>>

\* "dedup check failed, proceeding with alert creation"
CheckFails(w) ==
    /\ Starting(w)
    /\ breach[Current(w)] \in Key
    /\ phase' = [phase EXCEPT ![w] = "create"]
    /\ blind' = blind \cup {Current(w)}
    /\ UNCHANGED <<vars, breach, alerts, recent>>

\* The rows CreateAlertWithDeliveryTx commits; created_at is now().
InsertAlert(w) ==
    /\ alerts' = alerts \cup {Current(w)}
    /\ recent' = recent \cup {Current(w)}

CreateAlert(w) ==
    /\ phase[w] = "create"
    /\ InsertAlert(w)
    /\ HandlerOk(w)
    /\ phase' = [phase EXCEPT ![w] = "start"]
    /\ UNCHANGED <<breach, blind>>

\* The transaction returns an error.  It was rolled back, or its COMMIT took
\* effect and only the answer was lost.
CreateAlertFails(w) ==
    /\ phase[w] = "create"
    /\ \/ UNCHANGED <<alerts, recent>>
       \/ InsertAlert(w)
    /\ HandlerError(w)
    /\ phase' = [phase EXCEPT ![w] = "start"]
    /\ UNCHANGED <<breach, blind>>

\* DedupeWindowMin minutes after its creation an alert no longer counts.
LeaveWindow(m) ==
    /\ recent' = recent \ {m}
    /\ UNCHANGED <<vars, breach, phase, alerts, blind>>

AlertCrash ==
    /\ Crash
    /\ phase' = [w \in Worker |-> "start"]
    /\ UNCHANGED <<breach, alerts, recent, blind>>

ProcessMessage(w) ==
    \/ RejectMalformed(w)
    \/ SuppressDuplicate(w)
    \/ CheckDuplicate(w)
    \/ CheckFails(w)
    \/ CreateAlert(w)
    \/ CreateAlertFails(w)

AlertNext ==
    \/ PublishThresholdBreach
    \/ \E w \in Worker : Consume(w) \/ ProcessMessage(w)
    \/ \E m \in recent : LeaveWindow(m)
    \/ AlertCrash

AlertSpec == AlertInit /\ [][AlertNext]_allVars

\* As in StreamConsumer: the goroutines run and their calls return.
AlertFairSpec ==
    AlertSpec /\ \A w \in Worker : WF_allVars(Consume(w) \/ ProcessMessage(w))
-----------------------------------------------------------------------------
(* Properties *)

\* Types of the alerts table and of the handlers' progress: a handler is
\* between its two database calls only while its message is being handled.
AlertTypeOK ==
    /\ breach \in [Id -> Key \cup {Malformed}]
    /\ phase \in [Worker -> {"start", "create"}]
    /\ alerts \subseteq Id /\ recent \subseteq alerts /\ blind \subseteq Id
    /\ \A w \in Worker : phase[w] = "create" => pc[w] = "handle"

\* Two alerts of one module and budget are never inside the dedup window
\* together, unless the dedup check of one of them failed or was made while
\* another goroutine was about to insert (alert.go: "Checks for a recent
\* duplicate alert (dedup window, default 10 min)").  With the default
\* WorkerCount of 1 only a failed check remains.
OneRecentAlertPerKey ==
    \A m, n \in recent :
        (m # n /\ breach[m] = breach[n]) => m \in blind \/ n \in blind

\* A breach that was handled is visible to the user: an alert of the same
\* module and budget exists.  Suppression never swallows the first breach.
HandledIsAlerted ==
    \A m \in Id : handled[m] = 1 => \E n \in alerts : breach[n] = breach[m]

\* The pool behaves as the generic consumer does: processMessage never
\* acknowledges, re-reads or drops a message on its own.
ImplementsConsumer == Spec

\* Every well-formed breach ends in an alert of its key, unless its insert
\* failed, trimming removed it from the stream, or the consumer had a fault.
\* Malformed messages and other breaches' failures do not stand in its way.
BreachIsAlerted ==
    \A m \in Id :
        (m <= last /\ breach[m] \in Key) ~>
            \/ \E n \in alerts : breach[n] = breach[m]
            \/ m \in failed \/ m < first \/ faults > 0
=============================================================================
