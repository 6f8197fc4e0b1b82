----------------------------- MODULE AccessTrace -----------------------------
(***************************************************************************)
(* The ACL debugger (internal/service/acl_service.go and internal/acl):    *)
(* "why can't user X see record Y?", answered by a pipeline of five stages *)
(* over a schema snapshot and the data that the caller sent with the       *)
(* request.  A stage that denies or fails ends the pipeline.               *)
(*                                                                         *)
(* Access rules and record rules are sets: the loops over them do not      *)
(* depend on their order.  Of the four operations there is the requested   *)
(* one and the rest.                                                       *)
(***************************************************************************)
EXTENDS RuleDomain

CONSTANT
    Group        \* groups of the environment

VARIABLES
    trace,       \* the request and the snapshot it is traced against
    stages,      \* verdicts of the stages so far
    expanding,   \* stage 2 is expanding the groups
    queue,       \* groups whose implied groups it still has to add
    groups,      \* ResolvedGroups.EffectiveSet
    detail,      \* RecordRuleDetail: the global and the group rules found
    verdict      \* of the response; "NONE" before it is built

traceVars == <<trace, stages, expanding, queue, groups, detail, verdict>>
found == <<expanding, queue, groups, detail>>

NoDetail == [global |-> {}, group |-> {}]

\* What a request and its snapshot refer to are groups; a domain is a list.
WellFormed(r) ==
    /\ r.direct \subseteq Group
    /\ \A g \in r.known : r.implied[g] \subseteq Group
    /\ \A rule \in r.rules : rule.domain \in Seq({rule.domain[i] : i \in DOMAIN rule.domain})

TraceInit ==
    /\ WellFormed(trace)
    /\ stages = <<>> /\ expanding = FALSE /\ queue = {} /\ groups = {}
    /\ detail = NoDetail /\ verdict = "NONE"
TraceStart(r) == trace = r /\ TraceInit

\* The pipeline is at stage n.
AtStage(n) ==
    /\ verdict = "NONE" /\ Len(stages) = n - 1
    /\ \A i \in DOMAIN stages : stages[i] \notin {"DENIED", "ERROR"}
Superuser == trace.user.uid = 1
Stage(v) == stages' = Append(stages, v)
-----------------------------------------------------------------------------
ResolveUser ==
    /\ AtStage(1)
    /\ Stage(IF "res.users" \notin trace.models THEN "ERROR"
             ELSE IF trace.user.found /\ trace.user.active THEN "OK" ELSE "DENIED")
    /\ UNCHANGED <<trace, found, verdict>>

ResolveGroups ==
    /\ AtStage(2) /\ ~Superuser /\ ~expanding
    /\ IF "res.groups" \notin trace.models \/ trace.known = {}
         THEN Stage("ERROR") /\ UNCHANGED <<expanding, queue, groups>>
         ELSE /\ expanding' = TRUE /\ queue' = trace.direct /\ groups' = trace.direct
              /\ UNCHANGED stages
    /\ UNCHANGED <<trace, detail, verdict>>

\* One turn of the loop over the queue, which holds each group once.
ExpandGroup ==
    /\ expanding
    /\ \E g \in queue :
         LET new == (IF g \in trace.known THEN trace.implied[g] ELSE {}) \ groups
         IN  groups' = groups \cup new /\ queue' = (queue \ {g}) \cup new
    /\ UNCHANGED <<trace, stages, expanding, detail, verdict>>

GroupsResolved ==
    /\ expanding /\ queue = {}
    /\ expanding' = FALSE /\ Stage("OK")
    /\ UNCHANGED <<trace, queue, groups, detail, verdict>>

\* Group 0 stands for all users.
ruleApplies(rule) == rule.group = 0 \/ rule.group \in groups

\* No access rules, or none that applies and grants: denied.
CheckModelACL ==
    /\ AtStage(3) /\ ~Superuser
    /\ Stage(CASE ~trace.modelFound -> "ERROR"
               [] trace.modelFound /\ \E a \in trace.accesses : ruleApplies(a) /\ a.perm -> "OK"
               [] OTHER -> "DENIED")
    /\ UNCHANGED <<trace, found, verdict>>

\* A rule without any permission covers every operation.
recordRulePermForOp(rule) == rule.perms = {} \/ trace.op \in rule.perms
Applies(rule) == rule.groups = {} \/ rule.groups \cap groups # {}

FindRecordRules ==
    /\ AtStage(4) /\ ~Superuser
    /\ LET covering == {r \in trace.rules : recordRulePermForOp(r)}
           group == {r \in covering : r.groups # {}}
       IN  /\ detail' = [global |-> covering \ group, group |-> group]
           /\ Stage(CASE covering = {} -> "SKIPPED"
                      [] group # {} /\ (\A r \in group : ~Applies(r)) -> "DENIED"
                      [] OTHER -> "OK")
    /\ UNCHANGED <<trace, expanding, queue, groups, verdict>>

evaluateGlobalRules == \A r \in detail.global : evalRule(r.domain, trace.record, trace.ctx)

\* Passes where no group rule applies.
evaluateGroupRules ==
    LET applicable == {r \in detail.group : Applies(r)}
    IN  applicable # {} => \E r \in applicable : evalRule(r.domain, trace.record, trace.ctx)

EvaluateDomain ==
    /\ AtStage(5) /\ stages[4] = "OK"
    /\ Stage(CASE DOMAIN trace.record = {} -> "SKIPPED"
               [] DOMAIN trace.record # {} /\ evaluateGlobalRules /\ evaluateGroupRules -> "OK"
               [] OTHER -> "DENIED")
    /\ UNCHANGED <<trace, found, verdict>>

\* The pipeline has stopped.
Stopped ==
    /\ stages # <<>>
    /\ \/ stages[Len(stages)] \in {"DENIED", "ERROR"}
       \/ Superuser
       \/ Len(stages) = 5 \/ (Len(stages) = 4 /\ stages[4] = "SKIPPED")

\* One denied or failed stage denies.
Answer ==
    IF \E i \in DOMAIN stages : stages[i] \in {"DENIED", "ERROR"} THEN "DENIED" ELSE "ALLOWED"

BuildResponse ==
    /\ verdict = "NONE" /\ Stopped
    /\ verdict' = Answer
    /\ UNCHANGED <<trace, stages, found>>

TraceNext ==
    \/ ResolveUser \/ ResolveGroups \/ ExpandGroup \/ GroupsResolved
    \/ CheckModelACL \/ FindRecordRules \/ EvaluateDomain \/ BuildResponse

TraceSpec == TraceInit /\ [][TraceNext]_traceVars
-----------------------------------------------------------------------------
(* What Odoo grants, as the comments of internal/acl put it *)

\* The least set of groups with the user's own and all that they imply.
Effective ==
    LET closed == {s \in SUBSET Group :
                     trace.direct \subseteq s /\ \A g \in s \cap trace.known : trace.implied[g] \subseteq s}
    IN  {g \in Group : \A s \in closed : g \in s}

\* "(global_1 AND global_2 AND ...) AND (group_1 OR group_2 OR ...)"
RulesGrant ==
    LET covering == {r \in trace.rules : r.perms = {} \/ trace.op \in r.perms}
        Holds(r) == DomainHolds(r.domain, trace.record, trace.ctx)
    IN  /\ \A r \in covering : r.groups = {} => Holds(r)
        /\ (\E r \in covering : r.groups # {}) =>
             \E r \in covering : r.groups \cap Effective # {} /\ Holds(r)

Granted ==
    /\ trace.user.found /\ trace.user.active
    /\ \/ Superuser
       \/ /\ \E a \in trace.accesses : a.perm /\ a.group \in Effective \cup {0}
          /\ RulesGrant

Traceable ==
    /\ {"res.users", "res.groups"} \subseteq trace.models /\ trace.modelFound /\ trace.known # {}
    /\ DOMAIN trace.record # {}
    /\ \A r \in trace.rules : \A i \in DOMAIN r.domain :
         \/ r.domain[i] \in LogicOp \cup Refused
         \/ Decidable(r.domain[i], trace.record, trace.ctx)
AllAccepted == \A r \in trace.rules : recordRulePermForOp(r) => Accepted(r.domain)

\* Where the snapshot and the record decide every condition, the five stages
\* together answer what the rules of Odoo, as the package documents them, grant:
\* the stages stop early, expand the groups one by one and parse each domain,
\* and the answer is the same as of the definition (acl_service.go run).  The
\* code departs from its documentation on one side: a domain with (1,'=',1),
\* said to pass always (domain_evaluator.go 21), or one without a list does not
\* parse (parser.go 72, 136), its rule fails, and access that the rules grant
\* may be denied; access that they deny is not allowed even then.
VerdictMatchesRules ==
    (verdict # "NONE" /\ Traceable) =>
      /\ verdict = "ALLOWED" => Granted
      /\ Granted /\ AllAccepted => verdict = "ALLOWED"
=============================================================================
