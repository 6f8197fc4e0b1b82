------------------------------ MODULE MCServer ------------------------------
(***************************************************************************)
(* The requests of a tenant's users: the API over the tenant's tables, and *)
(* the ACL debugger.  The two share no state and are explored one at a     *)
(* time.                                                                   *)
(***************************************************************************)
EXTENDS TenantApi, AccessTrace, TLC

VARIABLE part

Symmetry == Permutations(Tenant) \cup Permutations(Client) \cup Permutations(Names)
MCRecordings ==
    {[has_chain |-> FALSE, slow |-> TRUE, has_n1 |-> FALSE],
     [has_chain |-> TRUE, slow |-> FALSE, has_n1 |-> FALSE],
     [has_chain |-> TRUE, slow |-> TRUE, has_n1 |-> TRUE]}
MCPages == {[limit |-> 1, offset |-> 0], [limit |-> 3, offset |-> 1]}
-----------------------------------------------------------------------------
(* Requests to the ACL debugger *)

Record == [x |-> Num(1), y |-> Nil]
Context == [uid |-> Num(1), companies |-> List(<<Num(1), Num(2)>>)]
Holding == Cond("x", "=", Num(1))
Failing == Cond("x", "=", Num(2))
Rule(domain) == {[groups |-> {}, perms |-> {}, domain |-> domain]}

\* User 7 of group 1, who may read the model, on which there is no rule.
Plain ==
    [user |-> [uid |-> 7, found |-> TRUE, active |-> TRUE],
     models |-> {"res.users", "res.groups"}, modelFound |-> TRUE, op |-> "read",
     known |-> Group, implied |-> [g \in Group |-> {}], direct |-> {1},
     accesses |-> {[group |-> 0, perm |-> TRUE]}, rules |-> {},
     record |-> Record, ctx |-> Context]

Users ==
    {[Plain EXCEPT !.user = [uid |-> u, found |-> f, active |-> a], !.models = m,
                   !.modelFound = mf, !.known = k, !.record = r] :
       u \in {1, 7}, f \in BOOLEAN, a \in BOOLEAN, m \in SUBSET {"res.users", "res.groups"},
       mf \in BOOLEAN, k \in {{}, Group}, r \in {Record, <<>>}}

Implications == {f \in [Group -> SUBSET Group] : \A g \in Group : g \notin f[g]}
Accesses ==
    {[Plain EXCEPT !.direct = d, !.implied = i, !.known = k, !.accesses = a] :
       d \in SUBSET {1, 2}, i \in Implications, k \in {{1, 3}, Group},
       a \in SUBSET {[group |-> 2, perm |-> FALSE], [group |-> 3, perm |-> TRUE]}}

SomeRule ==
    [groups : {{}, {1}, {3}}, perms : {{}, {"read"}, {"write"}},
     domain : {<<>>, <<Holding>>, <<Failing>>, <<Constant>>}]
RulePairs ==
    {[Plain EXCEPT !.rules = {r, s}, !.direct = d] : r \in SomeRule, s \in SomeRule, d \in {{1}, {1, 3}, {}}}

\* Every sequence of operators and conditions up to five elements.
Domains ==
    {[Plain EXCEPT !.rules = Rule(s)] : s \in UNION {[1..n -> LogicOp \cup {Holding, Failing}] : n \in 0..5}}

\* The elements the parser refuses, among others and alone.
Refusals ==
    {[Plain EXCEPT !.rules = Rule(s)] :
       s \in UNION {[1..n -> LogicOp \cup {Holding, Failing, Constant}] : n \in 1..3} \cup {<<NoList>>}}

SomeValue ==
    {Nil, Num(0), Num(1), Num(2), Bool(FALSE), Bool(TRUE), Str(1), List(<<Num(1), Str(2)>>),
     Ref("uid"), Ref("companies"), Ref("other")}
Conditions ==
    {[Plain EXCEPT !.record = [x |-> v], !.rules = Rule(n \o <<Cond(f, o, w)>>)] :
       v \in {Nil, Num(0), Num(1), Bool(TRUE), Str(1)}, n \in {<<>>, <<Op("!")>>}, f \in {"x", "z"},
       o \in {"=", "!=", "<", "<=", ">", ">=", "in", "not in", "child_of"}, w \in SomeValue}

TraceRequests == {Users, Accesses, RulePairs, Domains, Refusals, Conditions}
-----------------------------------------------------------------------------
PartsInit ==
    /\ part \in {"api", "trace"}
    /\ Init /\ (part = "trace" => area = "environments")
    /\ IF part = "trace"
         THEN \E requests \in TraceRequests : \E r \in requests : TraceStart(r)
         ELSE TraceStart(Plain)

PartsNext ==
    /\ UNCHANGED part
    /\ \/ part = "api" /\ Next /\ UNCHANGED traceVars
       \/ part = "trace" /\ TraceNext /\ UNCHANGED vars

PartsSpec == PartsInit /\ [][PartsNext]_<<part, vars, traceVars>>
=============================================================================
