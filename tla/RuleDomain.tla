----------------------------- MODULE RuleDomain -----------------------------
(***************************************************************************)
(* Record-rule domains of the ACL debugger (internal/acl/domain/parser.go  *)
(* and internal/acl/domain_evaluator.go): a list of '&', '|', '!' and      *)
(* conditions in prefix notation, built into a tree and evaluated against  *)
(* a record.                                                               *)
(*                                                                         *)
(* A domain is the sequence of its elements; lexing is left out, except    *)
(* for the elements the parser refuses.  A value is a kind and a number;   *)
(* the string n prints as the number n does.  The like operators are left  *)
(* out.                                                                    *)
(***************************************************************************)
EXTENDS Integers, Sequences, FiniteSets

Nil == [t |-> "nil", v |-> 0]
Num(n) == [t |-> "num", v |-> n]
Bool(b) == [t |-> "bool", v |-> IF b THEN 1 ELSE 0]
Str(n) == [t |-> "str", v |-> n]
List(s) == [t |-> "list", items |-> s]
Ref(r) == [t |-> "ref", ref |-> r]

Op(o) == [k |-> o]
Cond(f, op, val) == [k |-> "cond", field |-> f, op |-> op, val |-> val]
Binary == {Op("&"), Op("|")}
LogicOp == Binary \cup {Op("!")}

\* (1, '=', 1), whose field is no string, and a text that is no list: the empty
\* one, which the agent sends for a rule without a domain.
Constant == [k |-> "const"]
NoList == [k |-> "text"]
Refused == {Constant, NoList}

\* parseDomain and parseCondition read every element of the domain.
Accepted(s) == \A i \in DOMAIN s : s[i] \notin Refused
-----------------------------------------------------------------------------
(* The tree: a node is the index of the element it was read from *)

Missing == [operands |-> <<>>, next |-> 0]

\* One complete operand from each index on: the nodes below its own, and the
\* index after it, 0 for an error.
consumeNode(s) ==
    LET consume[i \in 0..(Len(s) + 1)] ==
          IF i \notin DOMAIN s THEN Missing
          ELSE IF s[i] \notin LogicOp THEN [operands |-> <<>>, next |-> i + 1]
          ELSE LET left == consume[i + 1]
                   right == consume[left.next]
               IN  IF left.next = 0 THEN Missing
                   ELSE IF s[i] = Op("!") THEN [operands |-> <<i + 1>>, next |-> left.next]
                   ELSE IF right.next = 0 THEN Missing
                   ELSE [operands |-> <<i + 1, left.next>>, next |-> right.next]
    IN  consume

Leaves(s) == {i \in DOMAIN s : s[i] \notin LogicOp}
Joining(s) == {i \in DOMAIN s : s[i] \in Binary}

\* Mutant of needed: as if '!' too joined two operands.
NeededAllOperators(s) == 2 * Cardinality(Leaves(s)) - Len(s) - 1

\* How many '&' are implicit: each binary operator joins two operands.
needed(s) == Cardinality(Leaves(s)) - Cardinality(Joining(s)) - 1

insertImplicitAnd(s) == [i \in 1..(IF needed(s) > 0 THEN needed(s) ELSE 0) |-> Op("&")] \o s

\* Not parsed where an operand is missing or elements are left over.
buildTree(s) ==
    LET expanded == insertImplicitAnd(s)
        nodes == consumeNode(expanded)
    IN  [elements |-> expanded, nodes |-> nodes, parsed |-> nodes[1].next = Len(expanded) + 1]
-----------------------------------------------------------------------------
(* Conditions *)

\* resolveRef: three references are known, the others need Odoo.
Resolvable(ctx, val) == val.t = "ref" => val.ref \in DOMAIN ctx
resolveValue(ctx, val) == IF val.t = "ref" THEN ctx[val.ref] ELSE val

isNilOrFalse(a) == a.t \in {"nil", "bool", "num"} /\ a.v = 0

\* Odoo's False is nil, 0 and false; values of two kinds are equal if they
\* print alike.
valuesEqual(a, b) ==
    IF isNilOrFalse(a) \/ isNilOrFalse(b)
      THEN isNilOrFalse(a) /\ isNilOrFalse(b)
      ELSE a = b \/ ({a.t, b.t} = {"num", "str"} /\ a.v = b.v)

\* 0 where one of the two is not a number.
numericCompare(a, b) ==
    IF a.t = "num" /\ b.t = "num"
      THEN IF a.v < b.v THEN -1 ELSE IF a.v > b.v THEN 1 ELSE 0
      ELSE 0

valueIn(a, e) ==
    IF e.t = "list" THEN \E i \in DOMAIN e.items : valuesEqual(a, e.items[i]) ELSE valuesEqual(a, e)

compare(op, a, e) ==
    CASE op = "="        -> valuesEqual(a, e)
      [] op = "!="       -> ~valuesEqual(a, e)
      [] op = "<"        -> numericCompare(a, e) < 0
      [] op = "<="       -> numericCompare(a, e) <= 0
      [] op = ">"        -> numericCompare(a, e) > 0
      [] op = ">="       -> numericCompare(a, e) >= 0
      [] op = "in"       -> valueIn(a, e)
      [] op = "not in"   -> ~valueIn(a, e)
      [] op = "child_of" -> TRUE

\* A reference that cannot be resolved or a missing field fails the condition.
evalCondition(c, record, ctx) ==
    /\ Resolvable(ctx, c.val)
    /\ c.field \in DOMAIN record
    /\ compare(c.op, record[c.field], resolveValue(ctx, c.val))
-----------------------------------------------------------------------------
(* Rules *)

evalNode(tree, record, ctx) ==
    LET eval[i \in DOMAIN tree.elements] ==
          LET element == tree.elements[i]
              children == tree.nodes[i].operands
          IN  CASE element = Op("&") -> \A c \in DOMAIN children : eval[children[c]]
                [] element = Op("|") -> \E c \in DOMAIN children : eval[children[c]]
                [] element = Op("!") -> Len(children) = 1 /\ ~eval[children[1]]
                [] OTHER -> evalCondition(element, record, ctx)
    IN  eval

\* A domain that does not parse fails its rule, an empty list passes.
evalRule(s, record, ctx) ==
    /\ Accepted(s)
    /\ s # <<>> => LET tree == buildTree(s) IN tree.parsed /\ evalNode(tree, record, ctx)[1]
-----------------------------------------------------------------------------
(* What a domain means: read from its end with a stack of results, the rest *)
(* of the stack joined by AND.                                              *)

\* "An empty domain "[]" or "(1,'=',1)" always passes (no filter)."
LeafHolds(x, record, ctx) == x \in Refused \/ evalCondition(x, record, ctx)

\* The condition can be decided from the record and the context alone.
Decidable(c, record, ctx) ==
    /\ Resolvable(ctx, c.val) /\ c.field \in DOMAIN record /\ c.op # "child_of"
    /\ c.op \in {"<", "<=", ">", ">="} =>
         record[c.field].t = "num" /\ resolveValue(ctx, c.val).t = "num"

StackStep(element, st, record, ctx) ==
    LET stack == st.stack
        joined == IF element = Op("&") THEN stack[1] /\ stack[2] ELSE stack[1] \/ stack[2]
    IN  IF element \notin LogicOp
          THEN [ok |-> st.ok, stack |-> <<LeafHolds(element, record, ctx)>> \o stack]
        ELSE IF Len(stack) < (IF element = Op("!") THEN 1 ELSE 2) THEN [ok |-> FALSE, stack |-> stack]
        ELSE [ok |-> st.ok,
              stack |-> IF element = Op("!") THEN <<~stack[1]>> \o Tail(stack)
                        ELSE <<joined>> \o Tail(Tail(stack))]

\* Reading(s, record, ctx)[j]: what the last j elements leave.
Reading(s, record, ctx) ==
    LET read[j \in 0..Len(s)] ==
          IF j = 0 THEN [ok |-> TRUE, stack |-> <<>>]
          ELSE StackStep(s[Len(s) + 1 - j], read[j - 1], record, ctx)
    IN  read

DomainHolds(s, record, ctx) ==
    LET read == Reading(s, record, ctx)[Len(s)]
    IN  read.ok /\ \A i \in DOMAIN read.stack : read.stack[i]
=============================================================================
