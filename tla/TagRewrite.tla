----------------------------- MODULE TagRewrite -----------------------------
(***************************************************************************)
(* Queries on the tags of spans, and what the planner makes of them        *)
(* (src/src/support.rs, src/migration/idempotent/007-tracing-tags.sql).    *)
(* A span stores a map from tag keys to tag ids.  The condition            *)
(*   tag_map_denormalize(span_tags) -> key  OP  value                      *)
(* is rewritten, while the statement is planned, to                        *)
(*   span_tags @> [ANY] OP_matching_tags(key, value)                       *)
(* which looks for the ids of matching tags instead; with constant         *)
(* arguments the call becomes a subselect, evaluated once per execution.   *)
(* Other sessions add tags and spans between planning and execution.       *)
(*                                                                         *)
(* A key and its key_id are one value here.  An argument stands for itself *)
(* under any number of domain coercions, which the code strips.            *)
(***************************************************************************)
EXTENDS SqlValues, Integers, FiniteSets

CONSTANTS Keys, Values,
          Class,       \* value -> the values jsonb_eq finds equal to it
          Spans,
          MaxTags,     \* bound on the tags that are stored
          Conditions   \* what a statement's WHERE clause may hold

VARIABLES tag,     \* id -> [key, value]: table _ps_trace.tag
          stored,  \* span -> None or a function from keys to tag ids
          cond,    \* the condition of the prepared statement, or None
          plan,    \* its plan, or None
          output   \* rows of the last execution, or None

trVars == <<tag, stored, cond, plan, output>>

Ids == 1..MaxTags

\* A condition is a call of func; its left argument is
\* tag_map_denormalize(span_tags) -> key when `arrow' and `inner' say so,
\* under `coerced' and `innerCoerced' coercion nodes.  A negated condition
\* stands under a NOT.  `level' is the query level, 0 for no planner root.
ASSUME TRAssumption ==
  /\ MaxTags \in Nat
  /\ \A c \in Conditions :
       c \in [func : {"tag_v_eq", "tag_v_ne", "no_helper", "agg_helper", "label_matcher"},
              coerced : Nat, arrow : STRING, innerCoerced : Nat, inner : STRING,
              key : Keys, value : Values, constant : BOOLEAN,
              negated : BOOLEAN, level : Nat]
  /\ Null \notin Values
  /\ Null \notin BOOLEAN /\ Null \notin Ids

----------------------------------------------------------------------------
(* The planner *)

\* What func_get_detail finds for OP_matching_tags(text, jsonb).
HelperDetail(func) ==
  CASE func = "tag_v_eq"   -> [code |-> "normal", array |-> FALSE]
    [] func = "tag_v_ne"   -> [code |-> "normal", array |-> TRUE]
    [] func = "agg_helper" -> [code |-> "aggregate", array |-> FALSE]
    [] OTHER               -> [code |-> "notfound", array |-> FALSE]

\* (mutant) a subselect is rewritten like the query.
AnyLevel(level) == level >= 1

\* extract_simplify_request: a subselect is planned at level 2.
SimplifyRequest(level) == level = 1

\* strip_type_coercion removes one node.
StripsToNode(coerced) == coerced <= 1

\* (mutant) the function under the arrow is not looked at.
IsArrowCondition(c) ==
  StripsToNode(c.coerced) /\ c.arrow = "->" /\ StripsToNode(c.innerCoerced)

IsTagCondition(c) ==
  /\ StripsToNode(c.coerced) /\ c.arrow = "->"
  /\ StripsToNode(c.innerCoerced) /\ c.inner = "tag_map_denormalize"

\* rewrite_fn_call_to_subquery: the call moves to an InitPlan, whose own
\* planning simplifies the copied call again.
RewriteToSubquery(p) ==
  IF SimplifyRequest(p.level) /\ p.constant
  THEN [p EXCEPT !.subselects = @ + 1, !.hasSubLinks = TRUE, !.level = 2]
  ELSE [p EXCEPT !.settled = TRUE]

\* tag_map_rewrite; the helper it calls has no support function of its own.
RewriteTagMap(p) ==
  LET form == IF HelperDetail(cond.func).array THEN "contains any" ELSE "contains"
  IN  IF /\ SimplifyRequest(p.level) /\ IsTagCondition(cond)
         /\ HelperDetail(cond.func).code # "notfound"
      THEN [RewriteToSubquery([p EXCEPT !.form = form]) EXCEPT !.settled = TRUE]
      ELSE [p EXCEPT !.settled = TRUE]

HelperError(p) ==
  /\ SimplifyRequest(p.level) /\ IsTagCondition(cond)
  /\ HelperDetail(cond.func).code \notin {"notfound", "normal"}

----------------------------------------------------------------------------
(* What expressions mean: TRUE, FALSE or Null, as in SQL *)

Not3(b) == IF b = Null THEN Null ELSE ~b

JsonbEq(v, w) == Class[v] = Class[w]

\* Equal for equal values and, but for collisions of SHA-512, only for them.
Digest(v) == Class[v]

\* A value of a row's tags, or Null.  Other functions return no tag map.
Field(c, m) ==
  LET ids == {i \in DOMAIN tag : \E k \in DOMAIN m : m[k] = i /\ tag[i].key = c.key}
  IN  IF c.inner # "tag_map_denormalize" \/ c.arrow # "->" \/ ids = {} THEN Null
      ELSE tag[CHOOSE i \in ids : TRUE].value

\* jsonb_eq and jsonb_ne are strict.
Namesake(c, m) ==
  LET v == Field(c, m)
  IN  IF v = Null THEN Null
      ELSE IF c.func = "tag_v_ne" THEN ~JsonbEq(v, c.value) ELSE JsonbEq(v, c.value)

MatchingTags(c) ==
  IF c.func = "tag_v_ne"
  THEN {i \in DOMAIN tag : tag[i].key = c.key /\ ~JsonbEq(tag[i].value, c.value)}
  ELSE {i \in DOMAIN tag : /\ tag[i].key = c.key
                           /\ Digest(tag[i].value) = Digest(c.value)
                           /\ JsonbEq(tag[i].value, c.value)}

\* span_tags @> {key_id: id}
HasTag(m, k, i) == k \in DOMAIN m /\ m[k] = i

\* tag_v_eq_matching_tags has LIMIT 1 and returns NULL when nothing matches;
\* the array of tag_v_ne_matching_tags is empty then.
Planned(c, m) ==
  IF plan.form = "contains any" THEN \E i \in MatchingTags(c) : HasTag(m, c.key, i)
  ELSE IF plan.form = "contains"
  THEN IF MatchingTags(c) = {} THEN Null
       ELSE HasTag(m, c.key, CHOOSE i \in MatchingTags(c) : TRUE)
  ELSE Namesake(c, m)

\* The planner rewrites the argument of a NOT before it simplifies the NOT.
Selected(c, b) == IF c.negated THEN Not3(b) = TRUE ELSE b = TRUE

RowsBy(Meaning(_, _)) ==
  {s \in Spans : stored[s] # None /\ Selected(cond, Meaning(cond, stored[s]))}

----------------------------------------------------------------------------

TRInit == /\ tag = <<>> /\ stored = [s \in Spans |-> None]
          /\ cond = None /\ plan = None /\ output = None

\* put_tag: the unique index is on (key, jsonb_digest(value)).
PutTag(k, v) ==
  /\ Cardinality(DOMAIN tag) < MaxTags
  /\ ~\E i \in DOMAIN tag : tag[i].key = k /\ Digest(tag[i].value) = Digest(v)
  /\ tag' = [i \in 1..(Cardinality(DOMAIN tag) + 1) |->
               IF i \in DOMAIN tag THEN tag[i] ELSE [key |-> k, value |-> v]]
  /\ UNCHANGED <<stored, cond, plan, output>>

\* A span is written with get_tag_map of its tags: the ids of known tags.
InsertSpan(s) ==
  /\ stored[s] = None
  /\ \E K \in SUBSET Keys : \E m \in [K -> DOMAIN tag] :
       /\ \A k \in K : tag[m[k]].key = k
       /\ stored' = [stored EXCEPT ![s] = m]
  /\ UNCHANGED <<tag, cond, plan, output>>

Prepare ==
  /\ cond = None
  /\ cond' \in Conditions
  /\ plan' = [form |-> "call", subselects |-> 0, hasSubLinks |-> FALSE,
              level |-> cond'.level, constant |-> cond'.constant, settled |-> FALSE]
  /\ UNCHANGED <<tag, stored, output>>

\* One simplification of the call by its support function.
Simplify ==
  /\ plan # None /\ ~plan.settled /\ ~HelperError(plan)
  /\ plan' = IF cond.func = "label_matcher" THEN RewriteToSubquery(plan)
             ELSE RewriteTagMap(plan)
  /\ UNCHANGED <<tag, stored, cond, output>>

Reject ==
  /\ plan # None /\ ~plan.settled /\ HelperError(plan)
  /\ plan' = None
  /\ UNCHANGED <<tag, stored, cond, output>>

Execute ==
  /\ plan # None /\ plan.settled
  /\ output' = RowsBy(Planned)
  /\ UNCHANGED <<tag, stored, cond, plan>>

TRNext ==
  \/ \E k \in Keys, v \in Values : PutTag(k, v)
  \/ \E s \in Spans : InsertSpan(s)
  \/ Prepare \/ Simplify \/ Reject \/ Execute

TRSpec == TRInit /\ [][TRNext]_trVars

----------------------------------------------------------------------------
(* Properties *)

\* The rewritten condition selects the rows its namesake jsonb operator would
\* select, whatever tags and spans were added since the statement was planned
\* (007-tracing-tags.sql:66-69), as long as it does not stand under a NOT.
SelectsNamesakeRows ==
  [][Execute /\ ~cond.negated => output' = RowsBy(Namesake)]_trVars

\* The same under a NOT: 007-tracing-tags.sql:68 says the function is the same
\* as its jsonb namesake but for the support function.
SelectsNamesakeRowsNegated ==
  [][Execute => output' = RowsBy(Namesake)]_trVars

\* The subselect a call is moved to is itself planned, and must not be moved
\* again (support.rs:326-329); only a call without columns may be moved, and
\* the planner must know that the query has a subselect (support.rs:54).
MovedOnce ==
  plan # None => /\ plan.subselects <= 1
                 /\ plan.subselects = 1 => plan.constant /\ plan.hasSubLinks

=============================================================================
