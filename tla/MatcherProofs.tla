---------------------------- MODULE MatcherProofs ----------------------------
(***************************************************************************)
(* Matchers of labels and tags.                                            *)
(*                                                                         *)
(* The rewriting of conditions on tags, for every set of keys, values and  *)
(* conditions: the plan selects the rows its condition means, also when    *)
(* tags and spans were added since it was made, and no call is moved to a  *)
(* subselect twice.                                                        *)
(*                                                                         *)
(* The invariant relates three tables: no two tags have the same key and   *)
(* equal values, so that LIMIT 1 loses nothing; the ids in a span's map    *)
(* are of tags with the keys they are stored under; and a plan that was    *)
(* rewritten has the form its condition's function calls for.              *)
(*                                                                         *)
(* The cache of regular expressions, for every size and sequence of calls: *)
(* it holds the patterns used last and every call finds its cell free.     *)
(* The first is inductive together with the type of the cache: what was    *)
(* used since an entry's pattern is what stands before it, so moving an    *)
(* entry to the front, or dropping the last, keeps the order of use.       *)
(*                                                                         *)
(* The digest of jsonb values, for all values whose indexes end in a byte  *)
(* 0: equal digests are of equal values, and the other way round.  The     *)
(* invariant says where in the hashed bytes each token stands.  A token    *)
(* holds no 0, so of two tokens that begin at one place neither is longer: *)
(* the shorter one is followed by an index, whose last byte is 0, and that *)
(* byte would be inside of the longer one, or the longer one's end would   *)
(* let the index repeat at an offset, which it does not.  By induction the *)
(* tokens begin at the same places and are the same; and a number is       *)
(* written without trailing zeros, with a point that is no digit.          *)
(***************************************************************************)
EXTENDS TagRewrite, RegexCache, JsonbDigest, FiniteSetTheorems, SequenceTheorems,
        WellFoundedInduction, TLAPS

----------------------------------------------------------------------------
(* Conditions on tags *)

UniqueTags ==
  /\ \E n \in Nat : DOMAIN tag = 1..n
  /\ \A i \in DOMAIN tag : tag[i].key \in Keys /\ tag[i].value \in Values
  /\ \A i, j \in DOMAIN tag :
       tag[i].key = tag[j].key /\ Digest(tag[i].value) = Digest(tag[j].value) => i = j

SpansHoldTags ==
  /\ DOMAIN stored = Spans
  /\ \A s \in Spans : stored[s] # None =>
       \A k \in DOMAIN stored[s] :
         stored[s][k] \in DOMAIN tag /\ tag[stored[s][k]].key = k

\* The form of a plan is the one its condition's function calls for.
FormFits(c, form) ==
  \/ form = "call"
  \/ IsTagCondition(c) /\ c.func = "tag_v_eq" /\ form = "contains"
  \/ IsTagCondition(c) /\ c.func = "tag_v_ne" /\ form = "contains any"

PlanFits ==
  plan # None =>
    /\ cond \in Conditions
    /\ plan = [form |-> plan.form, subselects |-> plan.subselects,
               hasSubLinks |-> plan.hasSubLinks, level |-> plan.level,
               constant |-> plan.constant, settled |-> plan.settled]
    /\ FormFits(cond, plan.form)

SubselectFits ==
  plan # None =>
    \/ plan.subselects = 0
    \/ plan.subselects = 1 /\ plan.constant /\ plan.hasSubLinks /\ plan.level = 2

TRInv == UniqueTags /\ SpansHoldTags /\ PlanFits /\ SubselectFits

----------------------------------------------------------------------------
(* What a rewritten condition means *)

\* The value a map of tags has for a key.
LEMMA FieldIsValue ==
  ASSUME TRInv, NEW c, NEW m, IsTagCondition(c),
         \A k \in DOMAIN m : m[k] \in DOMAIN tag /\ tag[m[k]].key = k
  PROVE  Field(c, m) = IF c.key \in DOMAIN m THEN tag[m[c.key]].value ELSE Null
  <1> DEFINE ids == {i \in DOMAIN tag : \E k \in DOMAIN m : m[k] = i /\ tag[i].key = c.key}
  <1>1. c.inner = "tag_map_denormalize" /\ c.arrow = "->"
    BY DEF IsTagCondition
  <1>2. CASE c.key \in DOMAIN m
    <2>1. ids = {m[c.key]}
      BY <1>2
    <2>2. (CHOOSE i \in ids : TRUE) = m[c.key]
      BY <2>1
    <2> QED BY <1>1, <1>2, <2>1, <2>2 DEF Field
  <1>3. CASE c.key \notin DOMAIN m
    <2>1. ids = {}
      BY <1>3
    <2> QED BY <1>3, <2>1 DEF Field
  <1> QED BY <1>2, <1>3

LEMMA NamesakeOfTag ==
  ASSUME TRInv, NEW c, NEW m, IsTagCondition(c),
         \A k \in DOMAIN m : m[k] \in DOMAIN tag /\ tag[m[k]].key = k
  PROVE  Namesake(c, m) = TRUE <=>
           /\ c.key \in DOMAIN m
           /\ IF c.func = "tag_v_ne" THEN ~JsonbEq(tag[m[c.key]].value, c.value)
                                     ELSE JsonbEq(tag[m[c.key]].value, c.value)
  <1>1. Field(c, m) = IF c.key \in DOMAIN m THEN tag[m[c.key]].value ELSE Null
    BY FieldIsValue
  <1>2. Null # TRUE
    BY TRAssumption
  <1>3. CASE c.key \in DOMAIN m
    <2>1. Field(c, m) = tag[m[c.key]].value /\ Field(c, m) # Null
      BY <1>1, <1>3, TRAssumption DEF TRInv, UniqueTags
    <2> QED BY <1>3, <2>1 DEF Namesake, JsonbEq
  <1>4. CASE c.key \notin DOMAIN m
    <2>1. Namesake(c, m) = Null
      BY <1>1, <1>4 DEF Namesake
    <2> QED BY <1>2, <1>4, <2>1
  <1> QED BY <1>3, <1>4

\* The plan and the condition agree on which maps they accept.
LEMMA PlanMeansCondition ==
  ASSUME TRInv, plan # None, NEW m,
         \A k \in DOMAIN m : m[k] \in DOMAIN tag /\ tag[m[k]].key = k
  PROVE  Planned(cond, m) = TRUE <=> Namesake(cond, m) = TRUE
  <1> DEFINE ids == MatchingTags(cond)
  <1>1. CASE plan.form = "call"
    BY <1>1 DEF Planned
  <1>2. CASE IsTagCondition(cond) /\ cond.func = "tag_v_ne" /\ plan.form = "contains any"
    <2>1. Planned(cond, m) = (\E i \in ids : HasTag(m, cond.key, i))
      BY <1>2 DEF Planned
    <2>2. ids = {i \in DOMAIN tag : tag[i].key = cond.key /\ ~JsonbEq(tag[i].value, cond.value)}
      BY <1>2 DEF MatchingTags
    <2>3. (\E i \in ids : HasTag(m, cond.key, i)) <=>
            cond.key \in DOMAIN m /\ ~JsonbEq(tag[m[cond.key]].value, cond.value)
      BY <2>2 DEF HasTag
    <2> QED BY <1>2, <2>1, <2>3, NamesakeOfTag
  <1>3. CASE IsTagCondition(cond) /\ cond.func = "tag_v_eq" /\ plan.form = "contains"
    <2>1. ids = {i \in DOMAIN tag : tag[i].key = cond.key /\ JsonbEq(tag[i].value, cond.value)}
      BY <1>3 DEF MatchingTags, Digest, JsonbEq
    <2>2. \A i, j \in ids : i = j
      BY <2>1 DEF JsonbEq, Digest, TRInv, UniqueTags
    <2>3. CASE ids = {}
      <3>1. Planned(cond, m) = Null
        BY <1>3, <2>3 DEF Planned
      <3>2. Null # TRUE
        BY TRAssumption
      <3>3. ~(cond.key \in DOMAIN m /\ JsonbEq(tag[m[cond.key]].value, cond.value))
        BY <2>1, <2>3
      <3> QED BY <1>3, <3>1, <3>2, <3>3, NamesakeOfTag
    <2>4. CASE ids # {}
      <3>1. PICK i \in ids : TRUE
        BY <2>4
      <3>2. (CHOOSE j \in ids : TRUE) = i
        BY <2>2, <3>1
      <3>3. Planned(cond, m) = HasTag(m, cond.key, i)
        BY <1>3, <2>4, <3>2 DEF Planned
      <3>4. HasTag(m, cond.key, i) <=>
              cond.key \in DOMAIN m /\ JsonbEq(tag[m[cond.key]].value, cond.value)
        BY <2>1, <2>2, <3>1 DEF HasTag
      <3> QED BY <1>3, <3>3, <3>4, NamesakeOfTag DEF HasTag
    <2> QED BY <2>3, <2>4
  <1> QED BY <1>1, <1>2, <1>3 DEF TRInv, PlanFits, FormFits

----------------------------------------------------------------------------
(* The steps *)

LEMMA InitInv == TRInit => TRInv
  <1> SUFFICES ASSUME TRInit PROVE TRInv
    OBVIOUS
  <1>1. DOMAIN tag = 1..0
    BY DEF TRInit
  <1>2. UniqueTags
    BY <1>1 DEF UniqueTags
  <1> QED BY <1>2 DEF TRInit, TRInv, SpansHoldTags, PlanFits, SubselectFits

\* A new tag leaves the others as they are.
LEMMA PutTagInv ==
  ASSUME TRInv, NEW k \in Keys, NEW v \in Values, PutTag(k, v)
  PROVE  TRInv'
  <1>1. PICK n \in Nat : DOMAIN tag = 1..n
    BY DEF TRInv, UniqueTags
  <1>2. Cardinality(DOMAIN tag) = n
    BY <1>1, FS_Interval
  <1> DEFINE new == [key |-> k, value |-> v]
  <1>3. /\ tag' = [i \in 1..(n + 1) |-> IF i \in 1..n THEN tag[i] ELSE new]
        /\ ~\E i \in DOMAIN tag : tag[i].key = k /\ Digest(tag[i].value) = Digest(v)
        /\ UNCHANGED <<stored, cond, plan, output>>
    BY <1>1, <1>2 DEF PutTag
  <1>4. /\ DOMAIN tag' = 1..(n + 1) /\ tag'[n + 1] = new
        /\ \A i \in 1..n : i \in 1..(n + 1) /\ tag'[i] = tag[i]
        /\ \A i \in 1..(n + 1) : i \in 1..n \/ i = n + 1
    BY <1>3
  <1>5. UniqueTags'
    <2>1. \A i \in 1..(n + 1) : tag'[i].key \in Keys /\ tag'[i].value \in Values
      BY <1>1, <1>4 DEF TRInv, UniqueTags
    <2>2. ASSUME NEW i \in 1..(n + 1), NEW j \in 1..(n + 1),
                 tag'[i].key = tag'[j].key, Digest(tag'[i].value) = Digest(tag'[j].value)
          PROVE  i = j
      BY <1>1, <1>3, <1>4, <2>2 DEF TRInv, UniqueTags
    <2>3. n + 1 \in Nat
      OBVIOUS
    <2> QED BY <1>4, <2>1, <2>2, <2>3 DEF UniqueTags, Digest
  <1>6. SpansHoldTags'
    BY <1>1, <1>3, <1>4 DEF TRInv, SpansHoldTags
  <1>7. PlanFits' /\ SubselectFits'
    BY <1>3 DEF TRInv, PlanFits, SubselectFits
  <1> QED BY <1>5, <1>6, <1>7 DEF TRInv

LEMMA InsertSpanInv ==
  ASSUME TRInv, NEW s \in Spans, InsertSpan(s)
  PROVE  TRInv'
  <1>1. PICK K \in SUBSET Keys : \E m \in [K -> DOMAIN tag] :
          (\A k \in K : tag[m[k]].key = k) /\ stored' = [stored EXCEPT ![s] = m]
    BY DEF InsertSpan
  <1>2. PICK m \in [K -> DOMAIN tag] :
          (\A k \in K : tag[m[k]].key = k) /\ stored' = [stored EXCEPT ![s] = m]
    BY <1>1
  <1>3. UNCHANGED <<tag, cond, plan>>
    BY DEF InsertSpan
  <1>4. SpansHoldTags'
    BY <1>2, <1>3 DEF TRInv, SpansHoldTags
  <1>5. UniqueTags' /\ PlanFits' /\ SubselectFits'
    BY <1>3 DEF TRInv, UniqueTags, PlanFits, SubselectFits
  <1> QED BY <1>4, <1>5 DEF TRInv

\* A settled or a moved plan keeps its parts.
LEMMA MovedPlan ==
  ASSUME NEW p, p = [form |-> p.form, subselects |-> p.subselects,
                     hasSubLinks |-> p.hasSubLinks, level |-> p.level,
                     constant |-> p.constant, settled |-> p.settled],
         \/ p.subselects = 0
         \/ p.subselects = 1 /\ p.constant /\ p.hasSubLinks /\ p.level = 2
  PROVE  LET new == RewriteToSubquery(p)
         IN  /\ new = [form |-> p.form, subselects |-> new.subselects,
                       hasSubLinks |-> new.hasSubLinks, level |-> new.level,
                       constant |-> p.constant, settled |-> new.settled]
             /\ \/ new.subselects = 0
                \/ new.subselects = 1 /\ p.constant /\ new.hasSubLinks /\ new.level = 2
  <1>1. CASE SimplifyRequest(p.level) /\ p.constant
    <2>1. p.level = 1 /\ p.subselects = 0
      BY <1>1 DEF SimplifyRequest
    <2>2. RewriteToSubquery(p) =
            [p EXCEPT !.subselects = @ + 1, !.hasSubLinks = TRUE, !.level = 2]
      BY <1>1 DEF RewriteToSubquery
    <2>3. RewriteToSubquery(p) =
            [form |-> p.form, subselects |-> p.subselects + 1, hasSubLinks |-> TRUE,
             level |-> 2, constant |-> p.constant, settled |-> p.settled]
      BY <2>2
    <2>4. p.subselects + 1 = 1
      BY <2>1
    <2> QED BY <1>1, <2>3, <2>4
  <1>2. CASE ~(SimplifyRequest(p.level) /\ p.constant)
    <2>1. RewriteToSubquery(p) =
            [form |-> p.form, subselects |-> p.subselects, hasSubLinks |-> p.hasSubLinks,
             level |-> p.level, constant |-> p.constant, settled |-> TRUE]
      <3>1. RewriteToSubquery(p) = [p EXCEPT !.settled = TRUE]
        BY <1>2 DEF RewriteToSubquery
      <3> QED BY <3>1
    <2> QED BY <2>1
  <1> QED BY <1>1, <1>2

LEMMA SettledPlan ==
  ASSUME NEW p, NEW new, p = [form |-> p.form, subselects |-> p.subselects,
                              hasSubLinks |-> p.hasSubLinks, level |-> p.level,
                              constant |-> p.constant, settled |-> p.settled],
         new = [p EXCEPT !.settled = TRUE]
  PROVE  new = [form |-> p.form, subselects |-> p.subselects, hasSubLinks |-> p.hasSubLinks,
                level |-> p.level, constant |-> p.constant, settled |-> TRUE]
  OBVIOUS

LEMMA SimplifyInv ==
  ASSUME TRInv, Simplify
  PROVE  TRInv'
  <1>1. /\ plan # None /\ ~HelperError(plan) /\ cond \in Conditions
        /\ plan = [form |-> plan.form, subselects |-> plan.subselects,
                   hasSubLinks |-> plan.hasSubLinks, level |-> plan.level,
                   constant |-> plan.constant, settled |-> plan.settled]
        /\ \/ plan.subselects = 0
           \/ plan.subselects = 1 /\ plan.constant /\ plan.hasSubLinks /\ plan.level = 2
        /\ FormFits(cond, plan.form)
        /\ UNCHANGED <<tag, stored, cond>>
        /\ plan' = IF cond.func = "label_matcher" THEN RewriteToSubquery(plan)
                   ELSE RewriteTagMap(plan)
    BY DEF Simplify, TRInv, PlanFits, SubselectFits
  <1>2. UniqueTags' /\ SpansHoldTags'
    BY <1>1 DEF TRInv, UniqueTags, SpansHoldTags
  <1>3. CASE plan' = RewriteToSubquery(plan)
    <2>1. /\ plan' = [form |-> plan.form, subselects |-> plan'.subselects,
                      hasSubLinks |-> plan'.hasSubLinks, level |-> plan'.level,
                      constant |-> plan.constant, settled |-> plan'.settled]
          /\ \/ plan'.subselects = 0
             \/ plan'.subselects = 1 /\ plan.constant /\ plan'.hasSubLinks /\ plan'.level = 2
      BY <1>1, <1>3, MovedPlan
    <2>2. plan'.form = plan.form /\ plan'.constant = plan.constant
      BY <2>1
    <2>3. PlanFits' /\ SubselectFits'
      BY <1>1, <2>1, <2>2 DEF PlanFits, SubselectFits
    <2> QED BY <1>2, <2>3 DEF TRInv
  <1>4. CASE plan' = [plan EXCEPT !.settled = TRUE]
    <2>1. plan' = [form |-> plan.form, subselects |-> plan.subselects,
                   hasSubLinks |-> plan.hasSubLinks, level |-> plan.level,
                   constant |-> plan.constant, settled |-> TRUE]
      BY <1>1, <1>4
    <2>2. PlanFits' /\ SubselectFits'
      BY <1>1, <2>1 DEF PlanFits, SubselectFits
    <2> QED BY <1>2, <2>2 DEF TRInv
  <1>5. CASE /\ IsTagCondition(cond) /\ SimplifyRequest(plan.level)
             /\ HelperDetail(cond.func).code # "notfound"
             /\ plan' = RewriteTagMap(plan)
    <2> DEFINE form == IF HelperDetail(cond.func).array THEN "contains any" ELSE "contains"
               p == [form |-> form, subselects |-> plan.subselects,
                     hasSubLinks |-> plan.hasSubLinks, level |-> plan.level,
                     constant |-> plan.constant, settled |-> plan.settled]
               q == RewriteToSubquery(p)
    <2>1. \/ cond.func = "tag_v_eq" /\ form = "contains"
          \/ cond.func = "tag_v_ne" /\ form = "contains any"
      <3>1. HelperDetail(cond.func).code = "normal"
        BY <1>1, <1>5 DEF HelperError
      <3>2. cond.func = "tag_v_eq" \/ cond.func = "tag_v_ne"
        BY <3>1 DEF HelperDetail
      <3>3. ~HelperDetail("tag_v_eq").array /\ HelperDetail("tag_v_ne").array
        BY DEF HelperDetail
      <3> QED BY <3>2, <3>3
    <2> HIDE DEF form
    <2>2. plan' = [RewriteToSubquery([plan EXCEPT !.form = form]) EXCEPT !.settled = TRUE]
      BY <1>5 DEF RewriteTagMap, form
    <2>3. [plan EXCEPT !.form = form] = p
      BY <1>1
    <2>4. plan' = [q EXCEPT !.settled = TRUE]
      BY <2>2, <2>3
    <2>5. /\ q = [form |-> form, subselects |-> q.subselects,
                  hasSubLinks |-> q.hasSubLinks, level |-> q.level,
                  constant |-> plan.constant, settled |-> q.settled]
          /\ \/ q.subselects = 0
             \/ q.subselects = 1 /\ plan.constant /\ q.hasSubLinks /\ q.level = 2
      <3>1. /\ p = [form |-> p.form, subselects |-> p.subselects,
                    hasSubLinks |-> p.hasSubLinks, level |-> p.level,
                    constant |-> p.constant, settled |-> p.settled]
            /\ p.form = form /\ p.constant = plan.constant
            /\ \/ p.subselects = 0
               \/ p.subselects = 1 /\ p.constant /\ p.hasSubLinks /\ p.level = 2
        BY <1>1
      <3> HIDE DEF p
      <3> QED BY <3>1, MovedPlan
    <2> HIDE DEF q
    <2>6. plan' = [form |-> form, subselects |-> q.subselects,
                   hasSubLinks |-> q.hasSubLinks, level |-> q.level,
                   constant |-> plan.constant, settled |-> TRUE]
      <3>1. q = [form |-> form, subselects |-> q.subselects,
                 hasSubLinks |-> q.hasSubLinks, level |-> q.level,
                 constant |-> plan.constant, settled |-> q.settled]
        BY <2>5
      <3>2. q.form = form /\ q.constant = plan.constant
        BY <3>1
      <3>3. q = [form |-> q.form, subselects |-> q.subselects,
                 hasSubLinks |-> q.hasSubLinks, level |-> q.level,
                 constant |-> q.constant, settled |-> q.settled]
        BY <3>1, <3>2
      <3>4. plan' = [form |-> q.form, subselects |-> q.subselects,
                     hasSubLinks |-> q.hasSubLinks, level |-> q.level,
                     constant |-> q.constant, settled |-> TRUE]
        BY <2>4, <3>3, SettledPlan
      <3> QED BY <3>2, <3>4
    <2>7. FormFits(cond, form)
      BY <1>5, <2>1 DEF FormFits
    <2>8. PlanFits'
      BY <1>1, <2>6, <2>7 DEF PlanFits
    <2>9. SubselectFits'
      BY <2>5, <2>6 DEF SubselectFits
    <2> QED BY <1>2, <2>8, <2>9 DEF TRInv
  <1> QED BY <1>1, <1>3, <1>4, <1>5 DEF RewriteTagMap

LEMMA NextInv == TRInv /\ [TRNext]_trVars => TRInv'
  <1> SUFFICES ASSUME TRInv, [TRNext]_trVars PROVE TRInv'
    OBVIOUS
  <1>1. ASSUME UNCHANGED <<tag, stored, cond, plan>>
        PROVE  TRInv'
    BY <1>1 DEF TRInv, UniqueTags, SpansHoldTags, PlanFits, SubselectFits
  <1>2. CASE UNCHANGED trVars
    BY <1>1, <1>2 DEF trVars
  <1>3. ASSUME NEW k \in Keys, NEW v \in Values, PutTag(k, v)
        PROVE  TRInv'
    BY <1>3, PutTagInv
  <1>4. ASSUME NEW s \in Spans, InsertSpan(s)
        PROVE  TRInv'
    BY <1>4, InsertSpanInv
  <1>5. CASE Prepare
    <2>1. /\ cond' \in Conditions /\ UNCHANGED <<tag, stored>>
          /\ plan' = [form |-> "call", subselects |-> 0, hasSubLinks |-> FALSE,
                      level |-> cond'.level, constant |-> cond'.constant, settled |-> FALSE]
      BY <1>5 DEF Prepare
    <2>2. UniqueTags' /\ SpansHoldTags'
      BY <2>1 DEF TRInv, UniqueTags, SpansHoldTags
    <2>3. PlanFits' /\ SubselectFits'
      BY <2>1 DEF PlanFits, SubselectFits, FormFits
    <2> QED BY <2>2, <2>3 DEF TRInv
  <1>6. CASE Simplify
    BY <1>6, SimplifyInv
  <1>7. CASE Reject
    BY <1>7 DEF Reject, TRInv, UniqueTags, SpansHoldTags, PlanFits, SubselectFits
  <1>8. CASE Execute
    BY <1>1, <1>8 DEF Execute
  <1> QED BY <1>2, <1>3, <1>4, <1>5, <1>6, <1>7, <1>8 DEF TRNext

\* No two tags have one key and equal values, spans hold tags of their keys,
\* and a plan fits the condition it was made for.
THEOREM TRInvariant == TRSpec => []TRInv
  <1> QED BY InitInv, NextInv, PTL DEF TRSpec

\* A call is moved to a subselect at most once, only when it has no columns,
\* and never without the mark on the query that holds it.
THEOREM MovedOnceHolds == TRSpec => []MovedOnce
  <1>1. TRInv => MovedOnce
    BY DEF TRInv, SubselectFits, MovedOnce
  <1> QED BY <1>1, TRInvariant, PTL

\* An execution selects the rows for which the jsonb operator is true, for
\* every set of tags and spans, however old the plan.
THEOREM SelectsNamesakeRowsHolds == TRSpec => SelectsNamesakeRows
  <1>1. ASSUME TRInv, Execute, ~cond.negated
        PROVE  output' = RowsBy(Namesake)
    <2>1. plan # None
      BY <1>1 DEF Execute
    <2>2. output' = {s \in Spans : stored[s] # None /\ Planned(cond, stored[s]) = TRUE}
      BY <1>1 DEF Execute, RowsBy, Selected
    <2>3. ASSUME NEW s \in Spans, stored[s] # None
          PROVE  Planned(cond, stored[s]) = TRUE <=> Namesake(cond, stored[s]) = TRUE
      <3>1. \A k \in DOMAIN stored[s] :
              stored[s][k] \in DOMAIN tag /\ tag[stored[s][k]].key = k
        BY <1>1, <2>3 DEF TRInv, SpansHoldTags
      <3> QED BY <1>1, <2>1, <3>1, PlanMeansCondition
    <2>4. output' = {s \in Spans : stored[s] # None /\ Namesake(cond, stored[s]) = TRUE}
      BY <2>2, <2>3
    <2> QED BY <1>1, <2>4 DEF RowsBy, Selected
  <1>2. TRInv => [Execute /\ ~cond.negated => output' = RowsBy(Namesake)]_trVars
    BY <1>1
  <1> QED BY <1>2, TRInvariant, PTL DEF SelectsNamesakeRows

----------------------------------------------------------------------------
(* The cache of regular expressions                                        *)

CacheTyped ==
  /\ cache \in Seq([pattern : Patterns, matcher : Patterns])
  /\ request \in Patterns \cup {None}

\* The cell is borrowed exactly while a call runs.
Borrow == borrowed = (request # None)

RCInv == CacheTyped /\ Borrow /\ KeepsMostRecent /\ SessionSurvives

\* Moving entry i to the front.
LEMMA Touched ==
  ASSUME NEW S, cache \in Seq(S), NEW i \in DOMAIN cache
  PROVE  /\ Touch(i) \in Seq(S) /\ Len(Touch(i)) = Len(cache)
         /\ Touch(i)[1] = cache[i]
         /\ \A k \in 2..i : Touch(i)[k] = cache[k - 1]
         /\ \A k \in (i + 1)..Len(cache) : Touch(i)[k] = cache[k]
  <1> DEFINE n == Len(cache)
             a == SubSeq(cache, 1, i - 1)
             b == SubSeq(cache, i + 1, n)
             w == a \o b
  <1>1. n \in Nat /\ i \in 1..n /\ cache[i] \in S
    OBVIOUS
  <1>2. /\ a \in Seq(S) /\ Len(a) = i - 1
        /\ \A k \in 1..(i - 1) : a[k] = cache[k]
    BY <1>1
  <1>3. /\ b \in Seq(S) /\ Len(b) = n - i
        /\ \A k \in 1..(n - i) : b[k] = cache[k + i]
    BY <1>1
  <1>4. Touch(i) = <<cache[i]>> \o w
    BY DEF Touch, Without
  <1> HIDE DEF a, b
  <1>5. /\ w \in Seq(S) /\ Len(w) = n - 1
        /\ \A k \in 2..i : w[k - 1] = cache[k - 1]
        /\ \A k \in (i + 1)..n : w[k - 1] = cache[k]
    BY <1>1, <1>2, <1>3
  <1> HIDE DEF w, n
  <1>6. /\ <<cache[i]>> \o w \in Seq(S) /\ Len(<<cache[i]>> \o w) = n
        /\ (<<cache[i]>> \o w)[1] = cache[i]
        /\ \A k \in 2..n : (<<cache[i]>> \o w)[k] = w[k - 1]
    BY <1>1, <1>5
  <1> QED BY <1>1, <1>4, <1>5, <1>6 DEF n

\* A new entry in front, the last one dropped if there are too many.
LEMMA Inserted ==
  ASSUME NEW S, cache \in Seq(S), NEW p, [pattern |-> p, matcher |-> p] \in S,
         Len(cache) <= CACHE_SIZE
  PROVE  /\ InsertEntry(p) \in Seq(S)
         /\ Len(InsertEntry(p)) = IF Len(cache) < CACHE_SIZE THEN Len(cache) + 1 ELSE CACHE_SIZE
         /\ InsertEntry(p)[1] = [pattern |-> p, matcher |-> p]
         /\ \A k \in 2..Len(InsertEntry(p)) : InsertEntry(p)[k] = cache[k - 1]
  <1> DEFINE e == [pattern |-> p, matcher |-> p]
             n == Len(cache)
             t == <<e>> \o cache
             u == SubSeq(t, 1, CACHE_SIZE)
  <1>1. n \in Nat /\ CACHE_SIZE \in Nat \ {0} /\ n <= CACHE_SIZE
    BY RCAssumption
  <1>5. e \in S
    BY Zenon
  <1> HIDE DEF e
  <1>2. t \in Seq(S) /\ Len(t) = n + 1 /\ t[1] = e /\ \A k \in 2..(n + 1) : t[k] = cache[k - 1]
    BY <1>1, <1>5
  <1>3. InsertEntry(p) = IF n + 1 > CACHE_SIZE THEN u ELSE t
    BY <1>2 DEF InsertEntry, Truncated, e
  <1> HIDE DEF t
  <1>4. n + 1 > CACHE_SIZE =>
          u \in Seq(S) /\ Len(u) = CACHE_SIZE /\ \A k \in 1..CACHE_SIZE : u[k] = t[k]
    BY <1>1, <1>2
  <1> HIDE DEF u, n
  <1> QED BY <1>1, <1>2, <1>3, <1>4 DEF n, e

\* A use of p adds it to what was used since the others.
LEMMA Remembered ==
  ASSUME NEW p
  PROVE  /\ DOMAIN Remember(p) = Used \cup {p}
         /\ DOMAIN Remember(p) \ Remember(p)[p] = {p}
         /\ \A q \in Used : q # p => DOMAIN Remember(p) \ Remember(p)[q] = UsedSince(q) \cup {p}
  BY DEF Remember, Used, UsedSince

LEMMA HitInv ==
  ASSUME RCInv, Hit
  PROVE  RCInv'
  <1> DEFINE S == [pattern : Patterns, matcher : Patterns]
             n == Len(cache)
             p == request
  <1>1. PICK i \in Positions(p) :
          cache' = Touch(i) /\ before' = Remember(p) /\ EndOfCall("answered")
    BY DEF Hit
  <1>2. cache \in Seq(S) /\ n \in Nat /\ i \in 1..n /\ cache[i].pattern = p /\ DOMAIN cache = 1..n
    <2>1. cache \in Seq(S)
      BY DEF RCInv, CacheTyped
    <2>2. i \in DOMAIN cache /\ cache[i].pattern = p
      BY <1>1 DEF Positions
    <2> HIDE DEF S
    <2> QED BY <2>1, <2>2
  <1> HIDE DEF S
  <1>3. /\ cache' \in Seq(S) /\ Len(cache') = n /\ cache'[1] = cache[i]
        /\ \A k \in 2..i : cache'[k] = cache[k - 1]
        /\ \A k \in (i + 1)..n : cache'[k] = cache[k]
    BY <1>1, <1>2, Touched
  <1> HIDE DEF n, p
  <1>4. DOMAIN cache' = 1..n
    BY <1>2, <1>3
  <1>5. /\ n <= CACHE_SIZE
        /\ n < CACHE_SIZE => Used = Cached(n)
        /\ \A k \in 1..n : /\ cache[k].matcher = cache[k].pattern
                           /\ Positions(cache[k].pattern) = {k}
                           /\ UsedSince(cache[k].pattern) = Cached(k)
    BY <1>2 DEF RCInv, KeepsMostRecent, n
  <1> DEFINE Since(q) == Used' \ before'[q]
  <1>6. /\ Used' = Used \cup {p} /\ Since(p) = {p}
        /\ \A q \in Used : q # p => Since(q) = UsedSince(q) \cup {p}
    BY <1>1, Remembered DEF Used
  <1> HIDE DEF Since
  <1>7. \A k \in 1..n : cache[k].pattern \in Used
    <2>1. \A k \in 1..n : cache[k].pattern \in Cached(k)
      BY <1>2 DEF Cached
    <2> QED BY <1>5, <2>1 DEF UsedSince
  <1> DEFINE from(j) == IF j = 1 THEN i ELSE IF j <= i THEN j - 1 ELSE j
  <1>8. /\ \A j \in 1..n : from(j) \in 1..n /\ cache'[j] = cache[from(j)]
        /\ \A j, k \in 1..n : from(j) = from(k) => j = k
    BY <1>2, <1>3
  <1>9. \A j, k \in 1..n : cache'[j].pattern = cache'[k].pattern => j = k
    <2>1. \A j, k \in 1..n : cache[j].pattern = cache[k].pattern => j = k
      <3>1. \A j \in 1..n : Positions(cache[j].pattern) = {j}
        BY <1>5
      <3> QED BY <1>2, <3>1 DEF Positions
    <2> HIDE DEF from
    <2> QED BY <1>8, <2>1
  <1>10. \A j \in 1..n : Since(cache'[j].pattern) = Cached(j)'
    <2> SUFFICES ASSUME NEW j \in 1..n PROVE Since(cache'[j].pattern) = Cached(j)'
      OBVIOUS
    <2>1. Cached(j)' = {cache'[k].pattern : k \in 1..j}
      BY DEF Cached
    <2>2. CASE j = 1
      <3>1. Cached(j)' = {p}
        BY <1>2, <1>3, <2>1, <2>2
      <3> QED BY <1>2, <1>3, <1>6, <2>2, <3>1
    <2>3. CASE j # 1 /\ j <= i
      <3>1. j - 1 \in 1..n /\ cache'[j] = cache[j - 1] /\ cache[j - 1].pattern # p
        <4>1. j \in 2..i /\ j - 1 \in 1..n /\ 1 \in 1..n
          BY <1>2, <2>3
        <4>2. cache'[j] = cache[j - 1] /\ cache'[1].pattern = p
          BY <1>2, <1>3, <4>1
        <4>3. cache'[j].pattern # cache'[1].pattern
          BY <1>9, <2>3, <4>1
        <4> QED BY <4>1, <4>2, <4>3
      <3>2. Cached(j)' = Cached(j - 1) \cup {p}
        <4>1. 1..j = (2..j) \cup {1} /\ \A k \in 2..j : k \in 2..i /\ k - 1 \in 1..(j - 1)
          BY <1>2, <2>3
        <4>2. \A k \in 2..j : cache'[k] = cache[k - 1]
          BY <1>3, <4>1
        <4>3. {cache'[k].pattern : k \in 2..j} = {cache[k].pattern : k \in 1..(j - 1)}
          <5>1. \A k \in 1..(j - 1) : k + 1 \in 2..j /\ (k + 1) - 1 = k
            OBVIOUS
          <5> QED BY <4>1, <4>2, <5>1
        <4>4. Cached(j)' = {cache'[k].pattern : k \in 2..j} \cup {cache'[1].pattern}
          BY <2>1, <4>1
        <4> QED BY <1>2, <1>3, <4>3, <4>4 DEF Cached
      <3>3. Since(cache[j - 1].pattern) = UsedSince(cache[j - 1].pattern) \cup {p}
        BY <1>6, <1>7, <3>1
      <3> QED BY <1>5, <3>1, <3>2, <3>3
    <2>4. CASE j > i
      <3>1. cache'[j] = cache[j] /\ cache[j].pattern # p
        <4>1. j \in (i + 1)..n /\ 1 \in 1..n /\ j # 1
          BY <1>2, <2>4
        <4>2. cache'[j] = cache[j] /\ cache'[1].pattern = p
          BY <1>2, <1>3, <4>1
        <4>3. cache'[j].pattern # cache'[1].pattern
          BY <1>9, <4>1
        <4> QED BY <4>2, <4>3
      <3>2. Cached(j)' = Cached(j)
        <4>1. \A k \in 1..j : from(k) \in 1..j /\ cache'[k] = cache[from(k)]
          BY <1>2, <1>8, <2>4
        <4>2. \A k \in 1..j : \E m \in 1..j : from(m) = k
          <5> SUFFICES ASSUME NEW k \in 1..j PROVE \E m \in 1..j : from(m) = k
            OBVIOUS
          <5>1. CASE k = i
            BY <1>2, <2>4, <5>1
          <5>2. CASE k < i
            <6>1. k + 1 \in 1..j /\ from(k + 1) = k
              BY <1>2, <2>4, <5>2
            <6> QED BY <6>1
          <5>3. CASE k > i
            <6>1. from(k) = k
              BY <1>2, <5>3
            <6> QED BY <6>1
          <5> QED BY <1>2, <5>1, <5>2, <5>3
        <4> HIDE DEF from
        <4> QED BY <2>1, <4>1, <4>2 DEF Cached
      <3>3. Since(cache[j].pattern) = UsedSince(cache[j].pattern) \cup {p}
        BY <1>6, <1>7, <3>1
      <3>4. p \in Cached(j)
        BY <1>2, <2>4 DEF Cached
      <3> QED BY <1>5, <3>1, <3>2, <3>3, <3>4
    <2> QED BY <1>2, <2>2, <2>3, <2>4
  <1>11. KeepsMostRecent'
    <2>1. n < CACHE_SIZE => Used' = {cache'[j].pattern : j \in 1..n}
      <3> SUFFICES ASSUME n < CACHE_SIZE PROVE Used' = {cache'[j].pattern : j \in 1..n}
        OBVIOUS
      <3>1. p \in Used /\ Used' = Used
        BY <1>2, <1>6, <1>7
      <3>2. {cache'[j].pattern : j \in 1..n} = Cached(n)
        <4>1. {cache'[j].pattern : j \in 1..n} = {cache[from(j)].pattern : j \in 1..n}
          BY <1>8
        <4>2. \A k \in 1..n : \E m \in 1..n : from(m) = k
          <5> SUFFICES ASSUME NEW k \in 1..n PROVE \E m \in 1..n : from(m) = k
            OBVIOUS
          <5>1. CASE k = i
            <6>1. 1 \in 1..n /\ from(1) = k
              BY <1>2, <5>1
            <6> QED BY <6>1
          <5>2. CASE k < i
            <6>1. k + 1 \in 1..n /\ from(k + 1) = k
              BY <1>2, <5>2
            <6> QED BY <6>1
          <5>3. CASE k > i
            <6>1. from(k) = k
              BY <1>2, <5>3
            <6> QED BY <6>1
          <5> QED BY <1>2, <5>1, <5>2, <5>3
        <4> HIDE DEF from
        <4> QED BY <1>8, <4>1, <4>2 DEF Cached
      <3> QED BY <1>5, <3>1, <3>2
    <2>2. \A j \in 1..n : /\ cache'[j].matcher = cache'[j].pattern
                          /\ {k \in 1..n : cache'[k].pattern = cache'[j].pattern} = {j}
      BY <1>5, <1>8, <1>9
    <2>3. (\A j \in DOMAIN cache : Positions(cache[j].pattern) = {j})'
      BY <1>4, <2>2 DEF Positions
    <2>4. (\A j \in DOMAIN cache : UsedSince(cache[j].pattern) = Cached(j))'
      BY <1>4, <1>10 DEF Since, UsedSince
    <2>5. (Len(cache) < CACHE_SIZE => Used = Cached(Len(cache)))'
      BY <1>3, <2>1 DEF Cached
    <2> QED BY <1>3, <1>4, <1>5, <2>2, <2>3, <2>4, <2>5 DEF KeepsMostRecent
  <1> QED BY <1>1, <1>3, <1>11
          DEF RCInv, CacheTyped, Borrow, SessionSurvives, EndOfCall, S

LEMMA CompileInv ==
  ASSUME RCInv, Compile
  PROVE  RCInv'
  <1> DEFINE S == [pattern : Patterns, matcher : Patterns]
             n == Len(cache)
             p == request
             m == Len(cache')
  <1>1. /\ p \in Patterns /\ Positions(p) = {}
        /\ cache' = InsertEntry(p) /\ before' = Remember(p) /\ EndOfCall("answered")
    BY RCAssumption DEF Compile
  <1>2. cache \in Seq(S) /\ n \in Nat /\ DOMAIN cache = 1..n
    BY DEF RCInv, CacheTyped
  <1>3. CACHE_SIZE \in Nat \ {0}
    BY RCAssumption
  <1>4. /\ n <= CACHE_SIZE
        /\ n < CACHE_SIZE => Used = Cached(n)
        /\ \A k \in 1..n : /\ cache[k].matcher = cache[k].pattern
                           /\ Positions(cache[k].pattern) = {k}
                           /\ UsedSince(cache[k].pattern) = Cached(k)
    BY <1>2 DEF RCInv, KeepsMostRecent
  <1>5. /\ cache' \in Seq(S) /\ m = IF n < CACHE_SIZE THEN n + 1 ELSE CACHE_SIZE
        /\ cache'[1] = [pattern |-> p, matcher |-> p]
        /\ \A k \in 2..m : cache'[k] = cache[k - 1]
    <2>1. [pattern |-> p, matcher |-> p] \in S
      BY <1>1
    <2>2. cache \in Seq(S) /\ Len(cache) <= CACHE_SIZE
      BY <1>2, <1>4
    <2> HIDE DEF S
    <2>3. /\ InsertEntry(p) \in Seq(S)
          /\ Len(InsertEntry(p)) = IF Len(cache) < CACHE_SIZE THEN Len(cache) + 1 ELSE CACHE_SIZE
          /\ InsertEntry(p)[1] = [pattern |-> p, matcher |-> p]
          /\ \A k \in 2..Len(InsertEntry(p)) : InsertEntry(p)[k] = cache[k - 1]
      BY <2>1, <2>2, Inserted
    <2>4. cache' = InsertEntry(p)
      BY <1>1
    <2> QED BY <2>3, <2>4
  <1> DEFINE Since(q) == Used' \ before'[q]
  <1>6. /\ Used' = Used \cup {p} /\ Since(p) = {p}
        /\ \A q \in Used : q # p => Since(q) = UsedSince(q) \cup {p}
    BY <1>1, Remembered DEF Used
  <1> HIDE DEF S, Since, n, p, m
  <1>7. /\ m \in Nat /\ DOMAIN cache' = 1..m /\ m <= CACHE_SIZE /\ 1 \in 1..m
        /\ \A k \in 2..m : k - 1 \in 1..n
    <2>1. m \in Nat /\ m <= CACHE_SIZE /\ 1 <= m /\ m <= n + 1
      BY <1>2, <1>3, <1>4, <1>5
    <2>2. DOMAIN cache' = 1..m
      BY <1>5 DEF m
    <2> QED BY <1>2, <2>1, <2>2
  <1>8. cache'[1].pattern = p /\ cache'[1].matcher = p
    BY <1>5
  <1>9. \A k \in 1..n : cache[k].pattern \in Used /\ cache[k].pattern # p
    <2>1. \A k \in 1..n : cache[k].pattern \in Cached(k)
      BY <1>2 DEF Cached
    <2>2. \A k \in 1..n : cache[k].pattern # p
      BY <1>1, <1>2 DEF Positions
    <2> QED BY <1>4, <2>1, <2>2 DEF UsedSince
  <1>10. \A j, k \in 1..m : cache'[j].pattern = cache'[k].pattern => j = k
    <2>1. \A j, k \in 1..n : cache[j].pattern = cache[k].pattern => j = k
      <3>1. \A j \in 1..n : Positions(cache[j].pattern) = {j}
        BY <1>4
      <3> QED BY <1>2, <3>1 DEF Positions
    <2> SUFFICES ASSUME NEW j \in 1..m, NEW k \in 1..m, cache'[j].pattern = cache'[k].pattern
                 PROVE  j = k
      OBVIOUS
    <2>2. CASE j = 1 /\ k = 1
      BY <2>2
    <2>3. CASE j # 1 /\ k # 1
      <3>1. j \in 2..m /\ k \in 2..m
        BY <1>7, <2>3
      <3> QED BY <1>5, <1>7, <2>1, <3>1
    <2>4. CASE j = 1 /\ k # 1
      <3>1. k \in 2..m
        BY <1>7, <2>4
      <3> QED BY <1>5, <1>7, <1>8, <1>9, <2>4, <3>1
    <2>5. CASE j # 1 /\ k = 1
      <3>1. j \in 2..m
        BY <1>7, <2>5
      <3> QED BY <1>5, <1>7, <1>8, <1>9, <2>5, <3>1
    <2> QED BY <2>2, <2>3, <2>4, <2>5
  <1>11. \A j \in 1..m : {cache'[k].pattern : k \in 1..j} = Cached(j - 1) \cup {p}
    <2> SUFFICES ASSUME NEW j \in 1..m
                 PROVE  {cache'[k].pattern : k \in 1..j} = Cached(j - 1) \cup {p}
      OBVIOUS
    <2>1. /\ 1..j = (2..j) \cup {1}
          /\ \A k \in 2..j : k \in 2..m /\ k - 1 \in 1..(j - 1)
          /\ \A k \in 1..(j - 1) : k + 1 \in 2..j /\ (k + 1) - 1 = k
      BY <1>7
    <2>2. \A k \in 2..j : cache'[k] = cache[k - 1]
      BY <1>5, <2>1
    <2>3. {cache'[k].pattern : k \in 2..j} = {cache[k].pattern : k \in 1..(j - 1)}
      BY <2>1, <2>2
    <2>4. {cache'[k].pattern : k \in 1..j}
            = {cache'[k].pattern : k \in 2..j} \cup {cache'[1].pattern}
      BY <2>1
    <2> QED BY <1>8, <2>3, <2>4 DEF Cached
  <1>12. \A j \in 1..m : Since(cache'[j].pattern) = {cache'[k].pattern : k \in 1..j}
    <2> SUFFICES ASSUME NEW j \in 1..m PROVE Since(cache'[j].pattern) = Cached(j - 1) \cup {p}
      BY <1>11
    <2>1. CASE j = 1
      <3>1. Cached(j - 1) = {}
        BY <2>1 DEF Cached
      <3> QED BY <1>6, <1>8, <2>1, <3>1
    <2>2. CASE j # 1
      <3>1. j \in 2..m /\ j - 1 \in 1..n
        BY <1>7, <2>2
      <3> QED BY <1>4, <1>5, <1>6, <1>9, <3>1
    <2> QED BY <2>1, <2>2
  <1>13. KeepsMostRecent'
    <2>1. m < CACHE_SIZE => Used' = {cache'[j].pattern : j \in 1..m}
      <3>1. m < CACHE_SIZE => m - 1 = n /\ m \in 1..m /\ Used = Cached(n)
        BY <1>2, <1>3, <1>4, <1>5, <1>7
      <3> QED BY <1>6, <1>11, <3>1
    <2>2. \A j \in 1..m : /\ cache'[j].matcher = cache'[j].pattern
                          /\ {k \in 1..m : cache'[k].pattern = cache'[j].pattern} = {j}
      <3>1. \A j \in 1..m : j = 1 \/ j \in 2..m
        BY <1>7
      <3>2. \A j \in 1..m : cache'[j].matcher = cache'[j].pattern
        BY <1>4, <1>5, <1>7, <1>8, <3>1
      <3> QED BY <1>10, <3>2
    <2>3. (\A j \in DOMAIN cache : Positions(cache[j].pattern) = {j})'
      BY <1>7, <2>2 DEF Positions
    <2>4. (\A j \in DOMAIN cache : UsedSince(cache[j].pattern) = Cached(j))'
      BY <1>7, <1>12 DEF Since, UsedSince, Cached
    <2>5. (Len(cache) < CACHE_SIZE => Used = Cached(Len(cache)))'
      BY <2>1 DEF Cached, m
    <2>6. Len(cache') <= CACHE_SIZE
      BY <1>7 DEF m
    <2> QED BY <1>7, <2>2, <2>3, <2>4, <2>5, <2>6 DEF KeepsMostRecent
  <1> QED BY <1>1, <1>5, <1>13
          DEF RCInv, CacheTyped, Borrow, SessionSurvives, EndOfCall, S

\* Calls that begin or fail leave the cache alone.
LEMMA RCNextInv == RCInv /\ [RCNext]_rcVars => RCInv'
  <1> SUFFICES ASSUME RCInv, [RCNext]_rcVars PROVE RCInv'
    OBVIOUS
  <1>1. ASSUME UNCHANGED <<cache, before>> PROVE KeepsMostRecent'
    BY <1>1 DEF RCInv, KeepsMostRecent, Cached, UsedSince, Used, Positions
  <1>2. CASE \E p \in Patterns : CallMatch(p)
    BY <1>1, <1>2, RCAssumption DEF CallMatch, RCInv, CacheTyped, Borrow, SessionSurvives
  <1>3. CASE CompileError
    BY <1>1, <1>3 DEF CompileError, EndOfCall, RCInv, CacheTyped, Borrow, SessionSurvives
  <1>4. CASE UNCHANGED rcVars
    BY <1>1, <1>4 DEF rcVars, RCInv, CacheTyped, Borrow, SessionSurvives
  <1> QED BY <1>2, <1>3, <1>4, HitInv, CompileInv DEF RCNext

\* What RCSpec keeps true: the properties, and that the cell is borrowed only
\* by the call that runs.
THEOREM RCInvariant == RCSpec => []RCInv
  <1>1. RCInit => RCInv
    <2> SUFFICES ASSUME RCInit PROVE RCInv
      OBVIOUS
    <2>1. CacheTyped /\ SessionSurvives
      BY DEF RCInit, CacheTyped, SessionSurvives
    <2>5. Borrow
      <3>1. borrowed = FALSE /\ request = None
        BY DEF RCInit
      <3> QED BY <3>1, Zenon DEF Borrow
    <2>2. cache = <<>> /\ Len(cache) = 0 /\ DOMAIN cache = {} /\ Used = {}
      BY DEF RCInit, Used
    <2>3. Cached(0) = {}
      BY DEF Cached
    <2>4. KeepsMostRecent
      BY <2>2, <2>3, RCAssumption DEF KeepsMostRecent
    <2> QED BY <2>1, <2>4, <2>5 DEF RCInv
  <1> QED BY <1>1, RCNextInv, PTL DEF RCSpec

\* For every size of the cache and every sequence of calls, failing ones
\* among them, the cache holds the patterns used last, in the order of use.
THEOREM KeepsMostRecentHolds == RCSpec => []KeepsMostRecent
  <1> QED BY RCInvariant, PTL DEF RCInv

\* No call ever finds the cell borrowed, however earlier ones ended.
THEOREM SessionSurvivesHolds == RCSpec => []SessionSurvives
  <1> QED BY RCInvariant, PTL DEF RCInv

----------------------------------------------------------------------------
(* Where the bytes of a token end *)

LEMMA LeastExists ==
  ASSUME NEW D \in SUBSET Nat, D # {}
  PROVE  \E d \in D : \A e \in D : d <= e
  <1>1. IsWellFoundedOn({p \in Nat \X Nat : p[1] < p[2]}, Nat)
    BY NatLessThanWellFounded, Zenon DEF OpToRel
  <1>2. PICK d \in D : \A e \in D : ~(<<e, d>> \in {p \in Nat \X Nat : p[1] < p[2]})
    BY <1>1, WFMin, Zenon
  <1>3. \A e \in D : ~(e < d)
    BY <1>2
  <1> QED BY <1>3

Limit == 256 ^ (IndexBytes - 1)

LEMMA IndexWidth ==
  ASSUME NEW i \in Nat, i < Limit
  PROVE  /\ DOMAIN LittleEndian(i) = 1..IndexBytes
         /\ LittleEndian(i)[IndexBytes] = 0
  <1>1. IndexBytes \in Nat \ {0}
    BY JDAssumption
  <1>2. LittleEndian(i)[IndexBytes] = (i \div Limit) % 256
    BY <1>1 DEF LittleEndian, Limit
  <1>3. ASSUME NEW l \in Nat, i < l
        PROVE  i \div l = 0
    BY <1>3
  <1> QED BY <1>1, <1>2, <1>3 DEF LittleEndian, Limit

LEMMA WidthIsNat == IndexBytes \in Nat \ {0}
  BY JDAssumption

\* The bytes of a token: none is 0, and there is one at least.
IsBytes(t) == t \in Seq(Bytes) /\ t # <<>>

\* Where a token of bytes t ends whose index is at x.
EndOf(t, x) == x + IndexBytes + Len(t)

\* Its index and its bytes are at x in h.
Placed(h, t, i, x) ==
  /\ EndOf(t, x) <= Len(h)
  /\ \A j \in 1..IndexBytes : h[x + j] = LittleEndian(i)[j]
  /\ \A j \in 1..Len(t) : h[x + IndexBytes + j] = t[j]

LEMMA BytesFacts ==
  ASSUME NEW t, IsBytes(t)
  PROVE  t \in Seq(Bytes) /\ Len(t) \in Nat \ {0} /\ \A j \in 1..Len(t) : t[j] # 0
  <1>1. \A x \in Bytes : x # 0
    BY DEF Bytes
  <1>2. t \in Seq(Bytes) /\ Len(t) \in Nat \ {0} /\ \A j \in 1..Len(t) : t[j] \in Bytes
    BY DEF IsBytes
  <1> QED BY <1>1, <1>2

\* Of two tokens in one place neither is shorter, for where it ends comes an
\* index, or nothing.  An index has a 0 at its end, and the longer token has none:
\* so its own index stands D bytes behind itself, and begins without a 0.
LEMMA NoShorterToken ==
  ASSUME NEW h \in Seq(Nat), NEW x \in Nat, NEW i \in Nat, i + 1 < Limit,
         NEW s \in Seq(Bytes), NEW t \in Seq(Bytes), IsBytes(s), IsBytes(t),
         Len(s) < Len(t), Placed(h, s, i, x), Placed(h, t, i, x),
         NEW u \in Seq(Bytes), NEW v,
         EndOf(s, x) = Len(h) \/ (IsBytes(u) /\ Placed(h, u, i + 1, EndOf(s, x))),
         EndOf(t, x) = Len(h) \/ Placed(h, v, i + 1, EndOf(t, x))
  PROVE  FALSE
  <1> DEFINE W == IndexBytes
             L == LittleEndian(i + 1)
             y == EndOf(s, x)
             D == Len(t) - Len(s)
             N == Len(h)
  <1>1. W \in Nat \ {0} /\ L[W] = 0 /\ N \in Nat
    BY WidthIsNat, IndexWidth
  <1>2. y \in Nat /\ D \in Nat \ {0} /\ EndOf(t, x) = y + D /\ Len(s) \in Nat /\ Len(t) \in Nat
    BY WidthIsNat DEF EndOf
  <1>3. EndOf(t, x) <= N
    BY DEF Placed
  <1>4. IsBytes(u) /\ Placed(h, u, i + 1, y)
    BY <1>1, <1>2, <1>3
  <1>5. \A j \in 1..W : h[y + j] = L[j]
    BY <1>4 DEF Placed
  <1>6. y + W < N
    <2>1. Len(u) \in Nat \ {0}
      BY <1>4, BytesFacts
    <2>2. y + W + Len(u) <= N
      BY <1>4 DEF Placed, EndOf
    <2> QED BY <1>1, <1>2, <2>1, <2>2
  <1>7. D < W => \A j \in 1..W : h[y + D + j] = L[j]
    <2>1. ASSUME D < W
          PROVE  Placed(h, v, i + 1, y + D)
      BY <1>1, <1>2, <1>6, <2>1
    <2> QED BY <2>1 DEF Placed
  <1>8. ASSUME NEW j \in 1..D
        PROVE  h[y + j] # 0
    <2>1. Len(s) + j \in 1..Len(t) /\ y + j = x + IndexBytes + (Len(s) + j)
      BY <1>2, WidthIsNat DEF EndOf
    <2>2. h[x + IndexBytes + (Len(s) + j)] = t[Len(s) + j]
      BY <2>1 DEF Placed
    <2>3. t[Len(s) + j] # 0
      BY <2>1, BytesFacts
    <2> QED BY <2>1, <2>2, <2>3
  <1>9. \A j \in 1..D : h[y + j] # 0
    BY <1>8
  <1> HIDE DEF W, L, y, D, N
  <1>10. W \in Nat \ {0} /\ D \in Nat \ {0} /\ y \in Nat /\ L[W] = 0
    BY <1>1, <1>2
  <1>11. D < W /\ \A j \in 1..D : L[j] # 0
    <2>1. D < W
      <3>1. h[y + W] = 0
        BY <1>5, <1>10
      <3>2. W \notin 1..D
        BY <1>9, <3>1
      <3> QED BY <1>10, <3>2
    <2>2. ASSUME NEW j \in 1..D
          PROVE  L[j] # 0
      <3>1. j \in 1..W
        BY <1>10, <2>1
      <3> QED BY <1>5, <1>9, <3>1
    <2> QED BY <2>1, <2>2
  <1> DEFINE Zeros == {j \in Nat : j \in 1..W /\ L[j] = 0}
  <1>12. PICK z \in Zeros : \A e \in Zeros : z <= e
    <2>1. W \in Zeros
      BY <1>10
    <2> QED BY <2>1, LeastExists
  <1>13. z > D /\ z - D \in 1..W /\ z \in 1..W
    BY <1>10, <1>11, <1>12
  <1>14. L[z - D] = 0
    <2>1. h[y + z] = 0
      BY <1>5, <1>12
    <2>2. y + D + (z - D) = y + z
      BY <1>10, <1>13
    <2> QED BY <1>7, <1>11, <1>13, <2>1, <2>2
  <1>15. z - D \in Zeros
    BY <1>13, <1>14
  <1>16. z <= z - D
    BY <1>12, <1>15
  <1> QED BY <1>10, <1>13, <1>16

\* h is the bytes of the first d tokens; o says where each begins.
LaidOut(h, b, d, o) ==
  /\ o[1] = 0 /\ o[d + 1] = Len(h)
  /\ \A k \in 1..d : Placed(h, b[k], k - 1, o[k]) /\ o[k + 1] = EndOf(b[k], o[k])

LEMMA SameLength ==
  ASSUME NEW h \in Seq(Nat), NEW m \in Nat, NEW n \in Nat, m <= Limit,
         NEW b, NEW c, NEW o \in [1..(m + 1) -> Nat], NEW p \in [1..(n + 1) -> Nat],
         \A i \in 1..m : IsBytes(b[i]), \A i \in 1..n : IsBytes(c[i]),
         LaidOut(h, b, m, o), LaidOut(h, c, n, p),
         NEW q \in 1..m, q \in 1..n, o[q] = p[q]
  PROVE  ~(Len(b[q]) < Len(c[q]))
  <1> DEFINE s == b[q]
             t == c[q]
             u == IF q = m THEN s ELSE b[q + 1]
             v == c[q + 1]
             x == o[q]
             i == q - 1
  <1>1. i \in Nat /\ i + 1 = q /\ x \in Nat /\ (q # m => i + 1 < Limit)
    BY WidthIsNat DEF Limit
  <1>2. IsBytes(s) /\ IsBytes(t) /\ IsBytes(u)
    <2>1. q # m => q + 1 \in 1..m
      OBVIOUS
    <2> QED BY <2>1
  <1>3. Placed(h, s, i, x) /\ Placed(h, t, i, x)
    BY DEF LaidOut
  <1>4. EndOf(s, x) = Len(h) \/ (q # m /\ Placed(h, u, i + 1, EndOf(s, x)))
    <2>1. CASE q = m
      <3>1. o[q + 1] = EndOf(s, x) /\ o[m + 1] = Len(h)
        BY DEF LaidOut
      <3>2. EndOf(s, x) = Len(h)
        BY <2>1, <3>1, Zenon
      <3> QED BY <3>2, Zenon
    <2>2. CASE q # m
      <3>1. q + 1 \in 1..m /\ (q + 1) - 1 = i + 1
        BY <1>1, <2>2
      <3>2. Placed(h, b[q + 1], (q + 1) - 1, o[q + 1]) /\ o[q + 1] = EndOf(s, x)
        BY <3>1 DEF LaidOut
      <3> QED BY <2>2, <3>1, <3>2
    <2> QED BY <2>1, <2>2
  <1>5. EndOf(t, x) = Len(h) \/ Placed(h, v, i + 1, EndOf(t, x))
    <2>1. CASE q = n
      BY <2>1 DEF LaidOut
    <2>2. CASE q # n
      <3>1. q + 1 \in 1..n /\ (q + 1) - 1 = i + 1
        BY <1>1, <2>2
      <3>2. Placed(h, c[q + 1], (q + 1) - 1, p[q + 1]) /\ p[q + 1] = EndOf(t, x)
        BY <3>1 DEF LaidOut
      <3> QED BY <3>1, <3>2
    <2> QED BY <2>1, <2>2
  <1> HIDE DEF s, t, u, v, x, i
  <1>6. s \in Seq(Bytes) /\ t \in Seq(Bytes) /\ u \in Seq(Bytes)
    BY <1>2, BytesFacts
  <1>7. ASSUME Len(s) < Len(t)
        PROVE  FALSE
    <2>1. q # m
      <3>1. EndOf(t, x) <= Len(h)
        BY <1>3 DEF Placed
      <3>2. EndOf(s, x) < EndOf(t, x) /\ EndOf(s, x) \in Nat /\ EndOf(t, x) \in Nat
        BY <1>1, <1>6, <1>7, WidthIsNat DEF EndOf
      <3>3. EndOf(s, x) # Len(h)
        BY <3>1, <3>2
      <3> QED BY <1>4, <3>3
    <2>2. i + 1 < Limit
      BY <1>1, <2>1
    <2> QED BY <1>1, <1>2, <1>3, <1>4, <1>5, <1>6, <1>7, <2>2, NoShorterToken, Zenon
  <1> QED BY <1>7 DEF s, t

\* The first m tokens are those of c, too.
Begins(b, m, c, n) == m <= n /\ \A k \in 1..m : b[k] = c[k]

\* From equal bytes the same tokens are read.
LEMMA ReadBack ==
  ASSUME NEW h \in Seq(Nat), NEW m \in Nat, NEW n \in Nat, m <= Limit, n <= Limit,
         NEW b, NEW c, NEW o \in [1..(m + 1) -> Nat], NEW p \in [1..(n + 1) -> Nat],
         \A i \in 1..m : IsBytes(b[i]), \A i \in 1..n : IsBytes(c[i]),
         LaidOut(h, b, m, o), LaidOut(h, c, n, p)
  PROVE  Begins(b, m, c, n)
  <1>1. ASSUME NEW q \in 1..m, q \in 1..n, o[q] = p[q]
        PROVE  b[q] = c[q]
    <2>1. ~(Len(b[q]) < Len(c[q]))
      BY <1>1, SameLength, Zenon
    <2>2. ~(Len(c[q]) < Len(b[q]))
      <3>1. p[q] = o[q] /\ q \in 1..n /\ q \in 1..m
        BY <1>1
      <3> QED BY <3>1, SameLength, Zenon
    <2> DEFINE s == b[q]
               t == c[q]
               x == o[q]
    <2>3. /\ s \in Seq(Bytes) /\ t \in Seq(Bytes)
          /\ Placed(h, s, q - 1, x) /\ Placed(h, t, q - 1, x)
      BY <1>1, BytesFacts DEF LaidOut
    <2> HIDE DEF s, t, x
    <2>4. Len(s) = Len(t)
      BY <2>1, <2>2, <2>3 DEF s, t
    <2>5. \A j \in 1..Len(s) : s[j] = t[j]
      BY <2>3, <2>4 DEF Placed
    <2>6. s = t
      BY <2>3, <2>4, <2>5, SeqEqual, Zenon
    <2> QED BY <2>6 DEF s, t
  <1> DEFINE Same(k) == k <= n + 1 /\ o[k] = p[k]
             Bad == {k \in Nat : k \in 1..(m + 1) /\ ~Same(k)}
  <1>2. Bad = {}
    <2>1. SUFFICES ASSUME Bad # {} PROVE FALSE
      OBVIOUS
    <2>2. PICK k \in Bad : \A e \in Bad : k <= e
      BY <2>1, LeastExists
    <2>3. k # 1
      BY <2>2 DEF LaidOut
    <2> DEFINE q == k - 1
    <2>4. q \in 1..m /\ q + 1 = k /\ q \notin Bad /\ q \in Nat /\ q \in 1..(m + 1)
      BY <2>2, <2>3
    <2>5. Same(q)
      BY <2>4
    <2> HIDE DEF q, Bad
    <2>6. q # n + 1
      <3>1. Len(h) \in Nat /\ EndOf(b[q], o[q]) <= Len(h)
        BY <2>4 DEF LaidOut, Placed
      <3>2. EndOf(b[q], o[q]) > o[q] /\ o[q] \in Nat /\ EndOf(b[q], o[q]) \in Nat
        <4>1. ASSUME NEW s \in Seq(Bytes), NEW x \in Nat
              PROVE  EndOf(s, x) > x /\ EndOf(s, x) \in Nat
          BY WidthIsNat DEF EndOf
        <4> QED BY <2>4, <4>1, BytesFacts
      <3>3. o[q] # Len(h)
        BY <3>1, <3>2
      <3> QED BY <2>5, <3>3 DEF LaidOut
    <2>7. q \in 1..n
      BY <2>4, <2>5, <2>6
    <2>8. o[q + 1] = EndOf(b[q], o[q]) /\ p[q + 1] = EndOf(c[q], p[q])
      BY <2>4, <2>7 DEF LaidOut
    <2>9. b[q] = c[q] /\ o[q] = p[q]
      BY <1>1, <2>4, <2>5, <2>7
    <2>10. Same(k)
      BY <2>4, <2>7, <2>8, <2>9
    <2> QED BY <2>2, <2>10 DEF Bad
  <1>3. \A k \in 1..(m + 1) : Same(k)
    <2>1. TAKE k \in 1..(m + 1)
    <2>2. k \in Nat /\ k \notin Bad
      <3> HIDE DEF Bad
      <3> QED BY <1>2
    <2> QED BY <2>2
  <1>4. m <= n
    BY <1>3
  <1>5. \A k \in 1..m : b[k] = c[k]
    BY <1>1, <1>3, <1>4
  <1> QED BY <1>4, <1>5 DEF Begins

\* The same tokens are the same bytes.
LEMMA SameBytes ==
  ASSUME NEW h \in Seq(Nat), NEW g \in Seq(Nat), NEW d \in Nat, NEW b,
         NEW o \in [1..(d + 1) -> Nat], NEW p \in [1..(d + 1) -> Nat],
         \A i \in 1..d : IsBytes(b[i]), LaidOut(h, b, d, o), LaidOut(g, b, d, p)
  PROVE  h = g
  <1> DEFINE Bad == {k \in Nat : k \in 1..(d + 1) /\ o[k] # p[k]}
  <1>1. Bad = {}
    <2>1. SUFFICES ASSUME Bad # {} PROVE FALSE
      OBVIOUS
    <2>2. PICK k \in Bad : \A e \in Bad : k <= e
      BY <2>1, LeastExists
    <2>3. k # 1
      BY <2>2 DEF LaidOut
    <2> DEFINE q == k - 1
    <2>4. q \in 1..d /\ q + 1 = k /\ q \notin Bad /\ q \in Nat /\ q \in 1..(d + 1)
      BY <2>2, <2>3
    <2>5. o[q] = p[q]
      BY <2>4
    <2> HIDE DEF q, Bad
    <2>6. o[q + 1] = EndOf(b[q], o[q]) /\ p[q + 1] = EndOf(b[q], p[q])
      BY <2>4 DEF LaidOut
    <2> QED BY <2>2, <2>4, <2>5, <2>6 DEF Bad
  <1>2. \A k \in 1..(d + 1) : o[k] = p[k]
    <2>1. TAKE k \in 1..(d + 1)
    <2>2. k \in Nat /\ k \notin Bad
      <3> HIDE DEF Bad
      <3> QED BY <1>1
    <2> QED BY <2>2
  <1>3. Len(h) = o[d + 1] /\ Len(g) = o[d + 1]
    BY <1>2 DEF LaidOut
  <1>4. ASSUME NEW x \in 1..Len(h)
        PROVE  h[x] = g[x]
    <2> DEFINE Past == {k \in Nat : k \in 1..(d + 1) /\ x <= o[k]}
    <2>1. PICK k \in Past : \A e \in Past : k <= e
      <3>1. d + 1 \in Past
        BY <1>3
      <3> QED BY <3>1, LeastExists
    <2>2. k # 1 /\ x \in Nat \ {0}
      BY <2>1 DEF LaidOut
    <2> DEFINE q == k - 1
    <2>3. q \in 1..d /\ q + 1 = k /\ q \notin Past /\ q \in Nat /\ q \in 1..(d + 1)
      BY <2>1, <2>2
    <2>4. o[q] < x /\ x <= o[q + 1]
      BY <2>1, <2>2, <2>3
    <2> HIDE DEF q, Past
    <2> DEFINE t == b[q]
               y == o[q]
    <2>5. /\ Placed(h, t, q - 1, y) /\ Placed(g, t, q - 1, y) /\ o[q + 1] = EndOf(t, y)
          /\ t \in Seq(Bytes) /\ y \in Nat
      BY <1>2, <2>3, BytesFacts DEF LaidOut
    <2> HIDE DEF t
    <2>6. y < x /\ x <= y + IndexBytes + Len(t)
      BY <2>4, <2>5 DEF EndOf
    <2> HIDE DEF y
    <2> DEFINE j == x - y
    <2>7. x = y + j /\ j \in Nat \ {0} /\ j <= IndexBytes + Len(t)
      BY <2>2, <2>5, <2>6, WidthIsNat
    <2>8. CASE j <= IndexBytes
      <3>1. j \in 1..IndexBytes
        BY <2>7, <2>8, WidthIsNat
      <3> QED BY <2>5, <2>7, <3>1 DEF Placed
    <2>9. CASE ~(j <= IndexBytes)
      <3>1. j - IndexBytes \in 1..Len(t) /\ x = y + IndexBytes + (j - IndexBytes)
        BY <2>5, <2>7, <2>9, WidthIsNat
      <3> QED BY <2>5, <3>1 DEF Placed
    <2> QED BY <2>8, <2>9
  <1> QED BY <1>3, <1>4, SeqEqual, Zenon

LEMMA IndexTyped ==
  ASSUME NEW i \in Nat
  PROVE  LittleEndian(i) \in Seq(Nat) /\ Len(LittleEndian(i)) = IndexBytes
  <1>1. IndexBytes \in Nat
    BY WidthIsNat
  <1>2. ASSUME NEW b \in 1..IndexBytes
        PROVE  (i \div (256 ^ (b - 1))) % 256 \in Nat
    <2>1. ASSUME NEW l \in Nat
          PROVE  (i \div l) % 256 \in Nat
      OBVIOUS
    <2> QED BY <2>1
  <1>3. LittleEndian(i) \in [1..IndexBytes -> Nat]
    BY <1>2 DEF LittleEndian
  <1> QED BY <1>1, <1>3

LEMMA BytesAreNat == ASSUME NEW t \in Seq(Bytes) PROVE t \in Seq(Nat)
  <1>1. Bytes \subseteq Nat
    BY DEF Bytes
  <1>2. Len(t) \in Nat /\ t \in [1..Len(t) -> Bytes]
    OBVIOUS
  <1>3. t \in [1..Len(t) -> Nat]
    BY <1>1, <1>2
  <1> QED BY <1>2, <1>3

LEMMA Joined ==
  ASSUME NEW u \in Seq(Nat), NEW v \in Seq(Nat)
  PROVE  /\ u \o v \in Seq(Nat) /\ Len(u \o v) = Len(u) + Len(v)
         /\ \A j \in 1..Len(u) : (u \o v)[j] = u[j]
         /\ \A j \in 1..Len(v) : (u \o v)[Len(u) + j] = v[j]
  OBVIOUS

\* One token more.
LEMMA LaidOutNext ==
  ASSUME NEW h \in Seq(Nat), NEW d \in Nat, NEW b, NEW o \in [1..(d + 1) -> Nat],
         \A i \in 1..(d + 1) : IsBytes(b[i]), LaidOut(h, b, d, o)
  PROVE  LET g == h \o (LittleEndian(d) \o b[d + 1])
         IN  g \in Seq(Nat) /\ \E p \in [1..(d + 2) -> Nat] : LaidOut(g, b, d + 1, p)
  <1> DEFINE l == LittleEndian(d)
             t == b[d + 1]
             w == l \o t
             g == h \o w
  <1>1. l \in Seq(Nat) /\ Len(l) = IndexBytes /\ IndexBytes \in Nat
    BY IndexTyped, WidthIsNat
  <1>2. t \in Seq(Nat)
    <2>1. IsBytes(t)
      OBVIOUS
    <2> QED BY <2>1, BytesAreNat DEF IsBytes
  <1> HIDE DEF l, t
  <1>3. /\ w \in Seq(Nat) /\ Len(w) = IndexBytes + Len(t)
        /\ \A j \in 1..IndexBytes : w[j] = l[j]
        /\ \A j \in 1..Len(t) : w[IndexBytes + j] = t[j]
    <2>1. /\ l \o t \in Seq(Nat) /\ Len(l \o t) = Len(l) + Len(t)
          /\ \A j \in 1..Len(l) : (l \o t)[j] = l[j]
          /\ \A j \in 1..Len(t) : (l \o t)[Len(l) + j] = t[j]
      BY <1>1, <1>2, Joined, Zenon
    <2> QED BY <1>1, <2>1
  <1> HIDE DEF w
  <1>4. /\ g \in Seq(Nat) /\ Len(g) = Len(h) + Len(w)
        /\ \A j \in 1..Len(h) : g[j] = h[j]
        /\ \A j \in 1..Len(w) : g[Len(h) + j] = w[j]
    BY <1>3, Joined, Zenon
  <1> HIDE DEF g
  <1> DEFINE p == [k \in 1..(d + 2) |-> IF k = d + 2 THEN Len(g) ELSE o[k]]
  <1>5. o[d + 1] = Len(h) /\ o[1] = 0
    BY DEF LaidOut
  <1>6. Len(h) \in Nat /\ Len(t) \in Nat /\ Len(g) = EndOf(t, Len(h)) /\ Len(g) \in Nat
    <2>1. Len(h) \in Nat /\ Len(t) \in Nat
      BY <1>2
    <2> QED BY <1>1, <1>3, <1>4, <2>1 DEF EndOf
  <1>7. p \in [1..(d + 2) -> Nat] /\ p[1] = 0 /\ p[(d + 1) + 1] = Len(g)
    BY <1>5, <1>6
  <1>8. ASSUME NEW k \in 1..d
        PROVE  Placed(g, b[k], k - 1, p[k]) /\ p[k + 1] = EndOf(b[k], p[k])
    <2>1. Placed(h, b[k], k - 1, o[k]) /\ o[k + 1] = EndOf(b[k], o[k])
      BY <1>8 DEF LaidOut
    <2>2. p[k] = o[k] /\ p[k + 1] = o[k + 1] /\ o[k] \in Nat
      OBVIOUS
    <2>3. b[k] \in Seq(Bytes)
      BY <1>8, BytesFacts
    <2>4. ASSUME NEW x \in Nat, NEW i, NEW c \in Seq(Bytes), Placed(h, c, i, x)
          PROVE  Placed(g, c, i, x)
      <3>1. /\ EndOf(c, x) \in Nat /\ EndOf(c, x) <= Len(g)
            /\ \A j \in 1..IndexBytes : x + j \in 1..Len(h)
            /\ \A j \in 1..Len(c) : x + IndexBytes + j \in 1..Len(h)
        <4>1. Len(c) \in Nat /\ x + IndexBytes + Len(c) <= Len(h)
          BY <2>4 DEF Placed, EndOf
        <4>2. IndexBytes \in Nat /\ Len(h) \in Nat /\ Len(h) <= Len(g)
          BY <1>1, <1>4, <1>6
        <4>3. EndOf(c, x) \in Nat /\ EndOf(c, x) <= Len(g)
          BY <1>6, <4>1, <4>2 DEF EndOf
        <4>4. \A j \in 1..IndexBytes : x + j \in 1..Len(h)
          BY <4>1, <4>2
        <4>5. \A j \in 1..Len(c) : x + IndexBytes + j \in 1..Len(h)
          BY <4>1, <4>2
        <4> QED BY <4>3, <4>4, <4>5
      <3> QED BY <1>4, <2>4, <3>1 DEF Placed
    <2> QED BY <2>1, <2>2, <2>3, <2>4
  <1>9. Placed(g, t, d, Len(h)) /\ p[(d + 1) + 1] = EndOf(t, Len(h)) /\ p[d + 1] = Len(h)
    <2>1. \A j \in 1..IndexBytes : g[Len(h) + j] = l[j]
      <3>1. TAKE j \in 1..IndexBytes
      <3>2. j \in 1..Len(w)
        BY <1>1, <1>3, <1>6
      <3> QED BY <1>3, <1>4, <3>2
    <2>2. \A j \in 1..Len(t) : g[Len(h) + IndexBytes + j] = t[j]
      <3>1. TAKE j \in 1..Len(t)
      <3>2. IndexBytes + j \in 1..Len(w) /\ Len(h) + IndexBytes + j = Len(h) + (IndexBytes + j)
        BY <1>1, <1>3, <1>6
      <3> QED BY <1>3, <1>4, <3>2
    <2>3. EndOf(t, Len(h)) <= Len(g)
      BY <1>6
    <2>4. Placed(g, t, d, Len(h))
      BY <2>1, <2>2, <2>3 DEF Placed, l
    <2> QED BY <1>5, <1>6, <2>4
  <1>10. ASSUME NEW k \in 1..(d + 1)
         PROVE  Placed(g, b[k], k - 1, p[k]) /\ p[k + 1] = EndOf(b[k], p[k])
    <2>1. CASE k = d + 1
      <3>1. (d + 1) - 1 = d
        OBVIOUS
      <3> HIDE DEF p
      <3> QED BY <1>9, <2>1, <3>1 DEF t
    <2>2. CASE k # d + 1
      <3> HIDE DEF p
      <3> QED BY <1>8, <2>2
    <2> QED BY <2>1, <2>2
  <1> HIDE DEF p
  <1>11. LaidOut(g, b, d + 1, p)
    BY <1>7, <1>10 DEF LaidOut
  <1> QED BY <1>4, <1>7, <1>11 DEF g, w, l, t

----------------------------------------------------------------------------
(* Tokens *)

Numbers == [kind : {"number"}, int : Seq({45} \cup Digits), frac : Seq(Digits)]

LEMMA SignificantPlace ==
  ASSUME NEW frac \in Seq(Digits)
  PROVE  /\ Significant(frac) \in 0..Len(frac)
         /\ Significant(frac) # 0 => frac[Significant(frac)] # 48
         /\ \A k \in (Significant(frac) + 1)..Len(frac) : frac[k] = 48
  <1> DEFINE P(n) == \A k \in (n + 1)..Len(frac) : frac[k] = 48
             Zeros == {n \in Nat : n \in 0..Len(frac) /\ P(n)}
  <1>1. PICK n \in Zeros : \A e \in Zeros : n <= e
    <2>1. Len(frac) \in Zeros
      OBVIOUS
    <2> QED BY <2>1, LeastExists
  <1>2. n \in 0..Len(frac) /\ P(n)
    BY <1>1
  <1>3. ASSUME n # 0, frac[n] = 48
        PROVE  FALSE
    <2>1. n - 1 \in 0..Len(frac) /\ n - 1 \in Nat /\ ~(n <= n - 1)
      BY <1>2, <1>3
    <2>2. P(n - 1)
      <3>1. TAKE k \in ((n - 1) + 1)..Len(frac)
      <3>2. k = n \/ k \in (n + 1)..Len(frac)
        BY <1>2
      <3> QED BY <1>2, <1>3, <3>2
    <2> QED BY <1>1, <2>1, <2>2
  <1> HIDE DEF P
  <1>4. \E u \in 0..Len(frac) : (u # 0 => frac[u] # 48) /\ P(u)
    BY <1>2, <1>3
  <1> QED BY <1>4 DEF Significant, P

\* What is left of the digits after the point says what the digits are.
LEMMA SameDigits ==
  ASSUME NEW f \in Seq(Digits), NEW g \in Seq(Digits)
  PROVE  SubSeq(f, 1, Significant(f)) = SubSeq(g, 1, Significant(g))
           <=> \A i \in DOMAIN f \cup DOMAIN g : Digit(f, i) = Digit(g, i)
  <1> DEFINE a == Significant(f)
             b == Significant(g)
             u == SubSeq(f, 1, a)
             v == SubSeq(g, 1, b)
  <1>1. a \in 0..Len(f) /\ (a # 0 => f[a] # 48) /\ \A k \in (a + 1)..Len(f) : f[k] = 48
    BY SignificantPlace
  <1>2. b \in 0..Len(g) /\ (b # 0 => g[b] # 48) /\ \A k \in (b + 1)..Len(g) : g[k] = 48
    BY SignificantPlace
  <1> HIDE DEF a, b
  <1>3. u \in Seq(Digits) /\ Len(u) = a /\ \A i \in 1..a : u[i] = f[i]
    BY <1>1
  <1>4. v \in Seq(Digits) /\ Len(v) = b /\ \A i \in 1..b : v[i] = g[i]
    BY <1>2
  <1> HIDE DEF u, v
  <1>5. /\ \A i \in 1..a : Digit(f, i) = u[i]
        /\ \A i \in Nat : i > a => Digit(f, i) = 48
    BY <1>1, <1>3 DEF Digit
  <1>6. /\ \A i \in 1..b : Digit(g, i) = v[i]
        /\ \A i \in Nat : i > b => Digit(g, i) = 48
    BY <1>2, <1>4 DEF Digit
  <1>7. ASSUME u = v, NEW i \in DOMAIN f \cup DOMAIN g
        PROVE  Digit(f, i) = Digit(g, i)
    <2>1. a = b /\ i \in Nat \ {0} /\ a \in Nat
      BY <1>1, <1>3, <1>4, <1>7
    <2>2. CASE i <= a
      BY <1>5, <1>6, <1>7, <2>1, <2>2
    <2>3. CASE ~(i <= a)
      BY <1>5, <1>6, <2>1, <2>3
    <2> QED BY <2>2, <2>3
  <1>8. ASSUME \A i \in DOMAIN f \cup DOMAIN g : Digit(f, i) = Digit(g, i)
        PROVE  u = v
    <2>1. a <= b
      <3>1. SUFFICES ASSUME b < a PROVE FALSE
        BY <1>1, <1>2
      <3>2. a \in DOMAIN f /\ a \in Nat /\ a > b /\ a # 0
        BY <1>1, <1>2, <3>1
      <3>3. Digit(f, a) = f[a] /\ Digit(g, a) = 48
        BY <1>6, <3>2 DEF Digit
      <3> QED BY <1>1, <1>8, <3>2, <3>3
    <2>2. b <= a
      <3>1. SUFFICES ASSUME a < b PROVE FALSE
        BY <1>1, <1>2
      <3>2. b \in DOMAIN g /\ b \in Nat /\ b > a /\ b # 0
        BY <1>1, <1>2, <3>1
      <3>3. Digit(g, b) = g[b] /\ Digit(f, b) = 48
        BY <1>5, <3>2 DEF Digit
      <3> QED BY <1>2, <1>8, <3>2, <3>3
    <2>3. a = b
      BY <1>1, <1>2, <2>1, <2>2
    <2>4. ASSUME NEW i \in 1..a
          PROVE  u[i] = v[i]
      <3>1. i \in DOMAIN f
        BY <1>1
      <3> QED BY <1>5, <1>6, <1>8, <2>3, <3>1
    <2> QED BY <1>3, <1>4, <2>3, <2>4, SeqEqual, Zenon
  <1> QED BY <1>7, <1>8 DEF u, v, a, b

WithPoint(i, f) == IF f = <<>> THEN i ELSE i \o <<46>> \o f

PointAfter(s, i, f) ==
  /\ \A k \in 1..Len(i) : s[k] = i[k] /\ s[k] # 46
  /\ f = <<>> => Len(s) = Len(i)
  /\ f # <<>> => /\ Len(s) = Len(i) + 1 + Len(f) /\ s[Len(i) + 1] = 46
                 /\ \A k \in 1..Len(f) : s[Len(i) + 1 + k] = f[k]

LEMMA WithPointShape ==
  ASSUME NEW i \in Seq({45} \cup Digits), NEW f \in Seq(Digits)
  PROVE  PointAfter(WithPoint(i, f), i, f)
  <1> DEFINE p == <<46>>
             q == i \o p
             s == q \o f
  <1>1. i \in Seq(Nat) /\ f \in Seq(Nat) /\ p \in Seq(Nat) /\ Len(p) = 1 /\ p[1] = 46
    <2>1. ASSUME NEW S, NEW T, S \subseteq T, NEW u \in Seq(S)
          PROVE  u \in Seq(T)
      <3>1. Len(u) \in Nat /\ u \in [1..Len(u) -> S]
        OBVIOUS
      <3>2. u \in [1..Len(u) -> T]
        BY <2>1, <3>1
      <3> QED BY <3>1, <3>2
    <2>2. {45} \cup Digits \subseteq Nat /\ Digits \subseteq Nat
      BY DEF Digits
    <2>3. i \in Seq(Nat) /\ f \in Seq(Nat)
      BY <2>1, <2>2, Zenon
    <2> QED BY <2>3
  <1>2. \A k \in 1..Len(i) : i[k] # 46
    <2>1. \A x \in {45} \cup Digits : x # 46
      BY DEF Digits
    <2> DEFINE S == {45} \cup Digits
    <2> HIDE DEF S
    <2>2. \A k \in 1..Len(i) : i[k] \in S
      BY DEF S
    <2> QED BY <2>1, <2>2 DEF S
  <1> HIDE DEF p
  <1>3. /\ q \in Seq(Nat) /\ Len(q) = Len(i) + Len(p)
        /\ \A k \in 1..Len(i) : q[k] = i[k]
        /\ \A k \in 1..Len(p) : q[Len(i) + k] = p[k]
    BY <1>1, Joined, Zenon
  <1> HIDE DEF q
  <1>4. /\ s \in Seq(Nat) /\ Len(s) = Len(q) + Len(f)
        /\ \A k \in 1..Len(q) : s[k] = q[k]
        /\ \A k \in 1..Len(f) : s[Len(q) + k] = f[k]
    <2>1. /\ q \o f \in Seq(Nat) /\ Len(q \o f) = Len(q) + Len(f)
          /\ \A k \in 1..Len(q) : (q \o f)[k] = q[k]
          /\ \A k \in 1..Len(f) : (q \o f)[Len(q) + k] = f[k]
      <3>1. q \in Seq(Nat) /\ f \in Seq(Nat)
        BY <1>1, <1>3
      <3> QED BY <3>1, Joined, Zenon
    <2> QED BY <2>1
  <1>5. CASE f = <<>>
    BY <1>1, <1>2, <1>5 DEF WithPoint, PointAfter
  <1>6. CASE f # <<>>
    <2>1. WithPoint(i, f) = s
      BY <1>6 DEF WithPoint, s, q, p
    <2> HIDE DEF s
    <2>2. Len(q) = Len(i) + 1 /\ Len(i) \in Nat /\ Len(f) \in Nat
      BY <1>1, <1>3
    <2>3. \A k \in 1..Len(i) : s[k] = i[k]
      <3>1. TAKE k \in 1..Len(i)
      <3>2. k \in 1..Len(q)
        BY <2>2
      <3> QED BY <1>3, <1>4, <3>2
    <2>4. s[Len(i) + 1] = 46
      <3>1. Len(i) + 1 \in 1..Len(q) /\ 1 \in 1..Len(p)
        BY <1>1, <2>2
      <3> QED BY <1>1, <1>3, <1>4, <3>1
    <2>5. Len(s) = Len(i) + 1 + Len(f) /\ \A k \in 1..Len(f) : s[Len(i) + 1 + k] = f[k]
      BY <1>4, <2>2
    <2> QED BY <1>2, <1>6, <2>1, <2>3, <2>4, <2>5 DEF PointAfter
  <1> QED BY <1>5, <1>6

LEMMA PointApart ==
  ASSUME NEW i \in Seq({45} \cup Digits), NEW f \in Seq(Digits),
         NEW j \in Seq({45} \cup Digits), NEW g \in Seq(Digits)
  PROVE  WithPoint(i, f) = WithPoint(j, g) => i = j /\ f = g
  <1> SUFFICES ASSUME NEW s, PointAfter(s, i, f), PointAfter(s, j, g)
               PROVE  i = j /\ f = g
    BY WithPointShape
  <1>1. /\ \A k \in 1..Len(i) : s[k] = i[k] /\ s[k] # 46
        /\ f = <<>> => Len(s) = Len(i)
        /\ f # <<>> => /\ Len(s) = Len(i) + 1 + Len(f) /\ s[Len(i) + 1] = 46
                       /\ \A k \in 1..Len(f) : s[Len(i) + 1 + k] = f[k]
    BY DEF PointAfter
  <1>2. /\ \A k \in 1..Len(j) : s[k] = j[k] /\ s[k] # 46
        /\ g = <<>> => Len(s) = Len(j)
        /\ g # <<>> => /\ Len(s) = Len(j) + 1 + Len(g) /\ s[Len(j) + 1] = 46
                       /\ \A k \in 1..Len(g) : s[Len(j) + 1 + k] = g[k]
    BY DEF PointAfter
  <1>3. /\ Len(i) \in Nat /\ Len(j) \in Nat /\ Len(f) \in Nat /\ Len(g) \in Nat
        /\ (f # <<>> => Len(f) > 0) /\ (g # <<>> => Len(g) > 0)
        /\ (f = <<>> => Len(f) = 0) /\ (g = <<>> => Len(g) = 0)
    OBVIOUS
  <1>4. ~(Len(i) < Len(j))
    <2>1. SUFFICES ASSUME Len(i) < Len(j) PROVE FALSE
      OBVIOUS
    <2>2. f # <<>>
      <3>1. Len(s) >= Len(j)
        BY <1>2, <1>3
      <3> QED BY <1>1, <2>1, <3>1
    <2>3. Len(i) + 1 \in 1..Len(j)
      BY <1>3, <2>1
    <2> QED BY <1>1, <1>2, <2>2, <2>3
  <1>5. ~(Len(j) < Len(i))
    <2>1. SUFFICES ASSUME Len(j) < Len(i) PROVE FALSE
      OBVIOUS
    <2>2. g # <<>>
      <3>1. Len(s) >= Len(i)
        BY <1>1, <1>3
      <3> QED BY <1>2, <2>1, <3>1
    <2>3. Len(j) + 1 \in 1..Len(i)
      BY <1>3, <2>1
    <2> QED BY <1>1, <1>2, <2>2, <2>3
  <1>6. Len(i) = Len(j)
    BY <1>3, <1>4, <1>5
  <1>7. i = j
    <2>1. \A k \in 1..Len(i) : i[k] = j[k]
      BY <1>1, <1>2, <1>6
    <2> QED BY <1>6, <2>1, SeqEqual, Zenon
  <1>8. Len(f) = Len(g)
    BY <1>1, <1>2, <1>3, <1>6
  <1>9. f = g
    <2>1. \A k \in 1..Len(f) : f[k] = g[k]
      <3>1. TAKE k \in 1..Len(f)
      <3>2. f # <<>> /\ g # <<>>
        BY <1>3, <1>8
      <3> QED BY <1>1, <1>2, <1>6, <1>8, <3>2
    <2> QED BY <1>8, <2>1, SeqEqual, Zenon
  <1> QED BY <1>7, <1>9

LEMMA SameNumber ==
  ASSUME NEW v \in Numbers, NEW w \in Numbers
  PROVE  Normalized(v) = Normalized(w) <=> SameScalar(v, w)
  <1> DEFINE f == SubSeq(v.frac, 1, Significant(v.frac))
             g == SubSeq(w.frac, 1, Significant(w.frac))
  <1>1. /\ v.kind = "number" /\ v.int \in Seq({45} \cup Digits) /\ v.frac \in Seq(Digits)
        /\ w.kind = "number" /\ w.int \in Seq({45} \cup Digits) /\ w.frac \in Seq(Digits)
    BY DEF Numbers
  <1>2. f \in Seq(Digits) /\ g \in Seq(Digits)
    <2>1. ASSUME NEW u \in Seq(Digits), NEW n \in 0..Len(u)
          PROVE  SubSeq(u, 1, n) \in Seq(Digits)
      OBVIOUS
    <2> QED BY <1>1, <2>1, SignificantPlace
  <1>3. Normalized(v) = WithPoint(v.int, f) /\ Normalized(w) = WithPoint(w.int, g)
    BY DEF Normalized, WithPoint
  <1>4. f = g <=> \A i \in DOMAIN v.frac \cup DOMAIN w.frac :
                    Digit(v.frac, i) = Digit(w.frac, i)
    BY <1>1, SameDigits
  <1> HIDE DEF f, g
  <1>5. Normalized(v) = Normalized(w) <=> v.int = w.int /\ f = g
    BY <1>1, <1>2, <1>3, PointApart
  <1> QED BY <1>1, <1>4, <1>5 DEF SameScalar

LEMMA EventFields ==
  ASSUME NEW e \in JsonbEvents
  PROVE  /\ e.type \in {"BEGIN_OBJECT", "END_OBJECT", "BEGIN_ARRAY", "END_ARRAY", "KEY", "SCALAR"}
         /\ e.type = "BEGIN_ARRAY" => e.rawScalar \in BOOLEAN
         /\ e.type = "KEY" => e.text \in Seq(Bytes)
         /\ e.type = "SCALAR" => e.val \in Scalars
  BY DEF JsonbEvents

LEMMA ScalarFields ==
  ASSUME NEW v \in Scalars
  PROVE  /\ v.kind \in {"null", "bool", "string", "number"}
         /\ v.kind = "bool" => v.b \in BOOLEAN
         /\ v.kind = "string" => v.text \in Seq(Bytes)
         /\ v.kind = "number" => v \in Numbers
  BY DEF Scalars, Numbers

LEMMA NormalizedTyped ==
  ASSUME NEW v \in Numbers
  PROVE  Normalized(v) \in Seq(Bytes)
  <1>1. ASSUME NEW S, NEW T, S \subseteq T, NEW u \in Seq(S)
        PROVE  u \in Seq(T)
    <2>1. Len(u) \in Nat /\ u \in [1..Len(u) -> S]
      OBVIOUS
    <2>2. u \in [1..Len(u) -> T]
      BY <1>1, <2>1
    <2> QED BY <2>1, <2>2
  <1>2. {45} \cup Digits \subseteq Bytes /\ Digits \subseteq Bytes /\ 46 \in Bytes
    BY DEF Digits, Bytes
  <1> DEFINE f == SubSeq(v.frac, 1, Significant(v.frac))
             i == v.int
             p == <<46>>
  <1>3. i \in Seq(Bytes)
    <2>1. i \in Seq({45} \cup Digits)
      BY DEF Numbers
    <2> QED BY <1>1, <1>2, <2>1, Zenon
  <1>4. f \in Seq(Bytes)
    <2>1. ASSUME NEW u \in Seq(Digits), NEW n \in 0..Len(u)
          PROVE  SubSeq(u, 1, n) \in Seq(Digits)
      OBVIOUS
    <2>2. v.frac \in Seq(Digits)
      BY DEF Numbers
    <2>3. f \in Seq(Digits)
      BY <2>1, <2>2, SignificantPlace
    <2> QED BY <1>1, <1>2, <2>3, Zenon
  <1>5. p \in Seq(Bytes)
    BY <1>2
  <1>6. ASSUME NEW u \in Seq(Bytes), NEW w \in Seq(Bytes)
        PROVE  u \o w \in Seq(Bytes)
    OBVIOUS
  <1> HIDE DEF f, i, p
  <1>7. (i \o p) \o f \in Seq(Bytes)
    BY <1>3, <1>4, <1>5, <1>6, Zenon
  <1>8. Normalized(v) = IF f = <<>> THEN i ELSE i \o p \o f
    BY DEF Normalized, f, i, p
  <1> QED BY <1>3, <1>7, <1>8

LEMMA TokenShape ==
  ASSUME NEW e \in JsonbEvents
  PROVE  /\ IsBytes(TokenBytes(e)) /\ TypeByte(e) \in Bytes /\ Content(e) \in Seq(Bytes)
         /\ TokenBytes(e)[1] = TypeByte(e)
         /\ Len(TokenBytes(e)) = Len(Content(e)) + 1
         /\ \A j \in 1..Len(Content(e)) : TokenBytes(e)[1 + j] = Content(e)[j]
  <1>1. Content(e) \in Seq(Bytes)
    <2>1. CASE e.type = "SCALAR" /\ e.val.kind = "number"
      <3>1. Content(e) = Normalized(e.val)
        BY <2>1 DEF Content
      <3> QED BY <2>1, <3>1, EventFields, ScalarFields, NormalizedTyped
    <2>2. CASE ~(e.type = "SCALAR" /\ e.val.kind = "number")
      <3>1. <<>> \in Seq(Bytes)
        OBVIOUS
      <3> QED BY <2>2, <3>1, EventFields, ScalarFields DEF Content
    <2> QED BY <2>1, <2>2
  <1>2. TypeByte(e) \in Bytes
    <2>1. e.type = "SCALAR" => ScalarByte(e.val) \in 1..5
      BY EventFields, ScalarFields DEF ScalarByte
    <2>2. e.type # "SCALAR" => TypeByte(e) \in 10..14
      BY EventFields DEF TypeByte
    <2>3. e.type = "SCALAR" => TypeByte(e) = ScalarByte(e.val)
      BY DEF TypeByte
    <2>4. 1..5 \subseteq Bytes /\ 10..14 \subseteq Bytes
      BY DEF Bytes
    <2> QED BY <2>1, <2>2, <2>3, <2>4
  <1> DEFINE t == TypeByte(e)
             c == Content(e)
  <1> HIDE DEF t, c
  <1>3. ASSUME NEW S, NEW x \in S, NEW u \in Seq(S)
        PROVE  /\ <<x>> \o u \in Seq(S) /\ <<x>> \o u # <<>> /\ (<<x>> \o u)[1] = x
               /\ Len(<<x>> \o u) = Len(u) + 1
               /\ \A j \in 1..Len(u) : (<<x>> \o u)[1 + j] = u[j]
    OBVIOUS
  <1>4. t \in Bytes /\ c \in Seq(Bytes)
    BY <1>1, <1>2 DEF t, c
  <1>5. /\ <<t>> \o c \in Seq(Bytes) /\ <<t>> \o c # <<>> /\ (<<t>> \o c)[1] = t
        /\ Len(<<t>> \o c) = Len(c) + 1
        /\ \A j \in 1..Len(c) : (<<t>> \o c)[1 + j] = c[j]
    BY <1>3, <1>4
  <1> QED BY <1>4, <1>5 DEF TokenBytes, t, c, IsBytes

\* The bytes of a token say what the token is.
LEMMA SameToken ==
  ASSUME NEW e \in JsonbEvents, NEW f \in JsonbEvents, ~BeginsRaw(e), ~BeginsRaw(f)
  PROVE  TokenBytes(e) = TokenBytes(f) <=> SameEvent(e, f)
  <1>1. TokenBytes(e) = TokenBytes(f) <=> TypeByte(e) = TypeByte(f) /\ Content(e) = Content(f)
    <2>1. ASSUME TokenBytes(e) = TokenBytes(f)
          PROVE  TypeByte(e) = TypeByte(f) /\ Content(e) = Content(f)
      <3> DEFINE c == Content(e)
                 d == Content(f)
                 t == TokenBytes(e)
      <3>1. /\ c \in Seq(Bytes) /\ t[1] = TypeByte(e) /\ Len(t) = Len(c) + 1
            /\ \A j \in 1..Len(c) : t[1 + j] = c[j]
        BY TokenShape
      <3>2. /\ d \in Seq(Bytes) /\ t[1] = TypeByte(f) /\ Len(t) = Len(d) + 1
            /\ \A j \in 1..Len(d) : t[1 + j] = d[j]
        BY <2>1, TokenShape
      <3> HIDE DEF c, d, t
      <3>3. Len(c) = Len(d)
        BY <3>1, <3>2
      <3>4. \A j \in 1..Len(c) : c[j] = d[j]
        BY <3>1, <3>2, <3>3
      <3>5. c = d
        BY <3>1, <3>2, <3>3, <3>4, SeqEqual, Zenon
      <3> QED BY <3>1, <3>2, <3>5 DEF c, d
    <2> QED BY <2>1 DEF TokenBytes
  <1>2. CASE e.type = "SCALAR" /\ f.type = "SCALAR"
    <2> DEFINE v == e.val
               w == f.val
    <2>1. v \in Scalars /\ w \in Scalars
      BY <1>2, EventFields
    <2>2. TypeByte(e) = ScalarByte(v) /\ TypeByte(f) = ScalarByte(w)
      BY <1>2 DEF TypeByte
    <2>3. Content(e) = IF v.kind = "string" THEN v.text
                       ELSE IF v.kind = "number" THEN Normalized(v) ELSE <<>>
      BY <1>2 DEF Content
    <2>4. Content(f) = IF w.kind = "string" THEN w.text
                       ELSE IF w.kind = "number" THEN Normalized(w) ELSE <<>>
      BY <1>2 DEF Content
    <2>5. SameEvent(e, f) <=> SameScalar(v, w)
      BY <1>2 DEF SameEvent
    <2> HIDE DEF v, w
    <2>6. ScalarByte(v) = ScalarByte(w) <=>
            v.kind = w.kind /\ (v.kind = "bool" => v.b = w.b)
      BY <2>1, ScalarFields DEF ScalarByte
    <2>7. CASE v.kind = "number" /\ w.kind = "number"
      <3>1. Normalized(v) = Normalized(w) <=> SameScalar(v, w)
        BY <2>1, <2>7, ScalarFields, SameNumber
      <3> QED BY <1>1, <2>2, <2>3, <2>4, <2>5, <2>6, <2>7, <3>1
    <2>8. CASE v.kind = "string" /\ w.kind = "string"
      BY <1>1, <2>2, <2>3, <2>4, <2>5, <2>6, <2>8 DEF SameScalar
    <2>9. CASE v.kind # w.kind
      BY <1>1, <2>2, <2>5, <2>6, <2>9 DEF SameScalar
    <2>10. CASE v.kind = w.kind /\ v.kind \in {"null", "bool"}
      BY <1>1, <2>2, <2>3, <2>4, <2>5, <2>6, <2>10 DEF SameScalar
    <2> QED BY <2>1, <2>7, <2>8, <2>9, <2>10, ScalarFields
  <1>3. CASE e.type # "SCALAR" \/ f.type # "SCALAR"
    <2>1. TypeByte(e) = TypeByte(f) <=> e.type = f.type
      <3>1. ASSUME NEW g \in JsonbEvents
            PROVE  TypeByte(g) = IF g.type = "SCALAR" THEN ScalarByte(g.val)
                     ELSE IF g.type = "KEY" THEN 10
                     ELSE IF g.type = "BEGIN_OBJECT" THEN 11
                     ELSE IF g.type = "END_OBJECT" THEN 12
                     ELSE IF g.type = "BEGIN_ARRAY" THEN 13 ELSE 14
        BY <3>1, EventFields DEF TypeByte
      <3>2. ASSUME NEW g \in JsonbEvents, g.type = "SCALAR"
            PROVE  ScalarByte(g.val) \in 1..5
        BY <3>2, EventFields, ScalarFields DEF ScalarByte
      <3> QED BY <1>3, <3>1, <3>2, EventFields
    <2>2. ASSUME e.type = f.type
          PROVE  Content(e) = Content(f) <=> (e.type = "KEY" => e.text = f.text)
      BY <1>3, <2>2, EventFields DEF Content
    <2>3. ASSUME e.type = f.type
          PROVE  SameEvent(e, f) <=> (e.type = "KEY" => e.text = f.text)
      <3>1. e.type = "BEGIN_ARRAY" => e.rawScalar = FALSE /\ f.rawScalar = FALSE
        BY <2>3, EventFields DEF BeginsRaw
      <3> QED BY <1>3, <2>3, <3>1 DEF SameEvent
    <2>4. e.type # f.type => ~SameEvent(e, f)
      BY DEF SameEvent
    <2> QED BY <1>1, <2>1, <2>2, <2>3, <2>4
  <1> QED BY <1>2, <1>3

----------------------------------------------------------------------------
(* What is hashed *)

TokenCount(s) == IF IsRaw(s) THEN 1 ELSE Len(s)
TokensOf(s) == IF IsRaw(s) THEN <<TokenBytes(s[2])>>
               ELSE [k \in 1..Len(s) |-> TokenBytes(s[k])]

Hashed(h, s, d) ==
  h \in Seq(Nat) /\ \E o \in [1..(d + 1) -> Nat] : LaidOut(h, TokensOf(s), d, o)

\* The tokens of the first n events.
Emitted(s, n) == IF IsRaw(s) THEN (IF n < 2 THEN 0 ELSE 1) ELSE n

LEMMA JsonbShape ==
  ASSUME NEW s \in Jsonbs
  PROVE  /\ s \in Seq(JsonbEvents) /\ Len(s) \in Nat \ {0} /\ Len(s) < Limit
         /\ s[1].type \in {"BEGIN_ARRAY", "BEGIN_OBJECT"}
         /\ IsRaw(s) => /\ Len(s) = 3 /\ s[1].type = "BEGIN_ARRAY" /\ s[2].type = "SCALAR"
                        /\ s[3].type = "END_ARRAY"
         /\ ~IsRaw(s) => \A i \in 1..Len(s) : ~BeginsRaw(s[i])
  <1>1. IsJsonb(s) /\ Len(s) < Limit
    BY JDAssumption DEF Limit
  <1>2. s \in Seq(JsonbEvents) /\ s # <<>>
    BY <1>1 DEF IsJsonb
  <1>3. Len(s) \in Nat \ {0} /\ DOMAIN s = 1..Len(s)
    BY <1>2
  <1> QED BY <1>1, <1>2, <1>3 DEF IsJsonb, IsRaw, BeginsRaw

LEMMA TokensShape ==
  ASSUME NEW s \in Jsonbs
  PROVE  /\ TokenCount(s) \in Nat /\ TokenCount(s) <= Limit
         /\ \A k \in 1..TokenCount(s) : IsBytes(TokensOf(s)[k])
  <1>1. Len(s) \in Nat \ {0} /\ Len(s) < Limit /\ \A k \in 1..Len(s) : s[k] \in JsonbEvents
    BY JsonbShape
  <1>2. Limit \in Int
    BY WidthIsNat DEF Limit
  <1>3. CASE IsRaw(s)
    <2>1. TokenCount(s) = 1 /\ TokensOf(s)[1] = TokenBytes(s[2]) /\ 2 \in 1..Len(s)
      BY <1>3, JsonbShape DEF TokenCount, TokensOf
    <2>2. IsBytes(TokenBytes(s[2]))
      BY <1>1, <2>1, TokenShape
    <2> QED BY <1>1, <1>2, <2>1, <2>2
  <1>4. CASE ~IsRaw(s)
    <2>1. /\ TokenCount(s) = Len(s)
          /\ \A k \in 1..Len(s) : TokensOf(s)[k] = TokenBytes(s[k])
      BY <1>4 DEF TokenCount, TokensOf
    <2>2. \A k \in 1..Len(s) : IsBytes(TokenBytes(s[k]))
      BY <1>1, TokenShape
    <2> QED BY <1>1, <1>2, <2>1, <2>2
  <1> QED BY <1>3, <1>4

\* Equal values have the same tokens ...
LEMMA EqualTokens ==
  ASSUME NEW s \in Jsonbs, NEW t \in Jsonbs, SemanticallyEqual(s, t)
  PROVE  TokenCount(s) = TokenCount(t) /\ TokensOf(s) = TokensOf(t)
  <1>1. /\ s \in Seq(JsonbEvents) /\ t \in Seq(JsonbEvents) /\ Len(s) \in Nat \ {0}
        /\ Len(s) = Len(t) /\ \A i \in 1..Len(s) : SameEvent(s[i], t[i])
    BY JsonbShape DEF SemanticallyEqual
  <1>2. IsRaw(s) <=> IsRaw(t)
    <2>1. SameEvent(s[1], t[1])
      BY <1>1
    <2> QED BY <2>1 DEF IsRaw, BeginsRaw, SameEvent
  <1>3. \A i \in 1..Len(s) : s[i] \in JsonbEvents /\ t[i] \in JsonbEvents
    BY <1>1
  <1>4. CASE IsRaw(s)
    <2>1. 2 \in 1..Len(s) /\ s[2].type = "SCALAR" /\ t[2].type = "SCALAR"
      BY <1>2, <1>4, JsonbShape
    <2>2. ~BeginsRaw(s[2]) /\ ~BeginsRaw(t[2])
      BY <2>1 DEF BeginsRaw
    <2>3. TokenBytes(s[2]) = TokenBytes(t[2])
      BY <1>1, <1>3, <2>1, <2>2, SameToken
    <2> QED BY <1>2, <1>4, <2>3 DEF TokenCount, TokensOf
  <1>5. CASE ~IsRaw(s)
    <2>1. ASSUME NEW i \in 1..Len(s)
          PROVE  TokenBytes(s[i]) = TokenBytes(t[i])
      <3>1. ~BeginsRaw(s[i]) /\ ~BeginsRaw(t[i])
        BY <1>1, <1>2, <1>5, JsonbShape
      <3> QED BY <1>1, <1>3, <3>1, SameToken
    <2>2. /\ TokensOf(s) = [k \in 1..Len(s) |-> TokenBytes(s[k])]
          /\ TokensOf(t) = [k \in 1..Len(s) |-> TokenBytes(t[k])]
      BY <1>1, <1>2, <1>5 DEF TokensOf
    <2>3. TokensOf(s) = TokensOf(t)
      BY <2>1, <2>2
    <2> QED BY <1>1, <1>2, <1>5, <2>3 DEF TokenCount
  <1> QED BY <1>4, <1>5

\* ... and the tokens say what the value is.
LEMMA EqualValues ==
  ASSUME NEW s \in Jsonbs, NEW t \in Jsonbs, TokenCount(s) = TokenCount(t),
         \A k \in 1..TokenCount(s) : TokensOf(s)[k] = TokensOf(t)[k]
  PROVE  SemanticallyEqual(s, t)
  <1>1. /\ Len(s) \in Nat \ {0} /\ Len(t) \in Nat \ {0}
        /\ \A i \in 1..Len(s) : s[i] \in JsonbEvents
        /\ \A i \in 1..Len(t) : t[i] \in JsonbEvents
        /\ DOMAIN s = 1..Len(s)
    BY JsonbShape
  <1>2. ASSUME NEW u \in Jsonbs, IsRaw(u)
        PROVE  /\ TokenCount(u) = 1 /\ TokensOf(u)[1] = TokenBytes(u[2]) /\ Len(u) = 3
               /\ u[1] \in JsonbEvents /\ u[2] \in JsonbEvents /\ u[3] \in JsonbEvents
               /\ u[2].type = "SCALAR" /\ ~BeginsRaw(u[2])
    BY <1>2, JsonbShape DEF TokenCount, TokensOf, BeginsRaw
  <1>3. ASSUME NEW u \in Jsonbs, ~IsRaw(u)
        PROVE  /\ TokenCount(u) = Len(u)
               /\ \A i \in 1..Len(u) : TokensOf(u)[i] = TokenBytes(u[i]) /\ ~BeginsRaw(u[i])
    BY <1>3, JsonbShape DEF TokenCount, TokensOf
  <1>4. ASSUME NEW u \in Jsonbs, NEW w \in Jsonbs, IsRaw(u), ~IsRaw(w),
               TokensOf(u)[1] = TokensOf(w)[1]
        PROVE  FALSE
    <2>1. 1 \in 1..Len(w) /\ w[1] \in JsonbEvents /\ w[1].type # "SCALAR"
      BY JsonbShape
    <2>2. /\ TokenBytes(u[2]) = TokenBytes(w[1]) /\ ~BeginsRaw(u[2]) /\ ~BeginsRaw(w[1])
          /\ u[2] \in JsonbEvents /\ u[2].type = "SCALAR"
      BY <1>2, <1>3, <1>4, <2>1
    <2>3. SameEvent(u[2], w[1])
      BY <2>1, <2>2, SameToken
    <2> QED BY <2>1, <2>2, <2>3 DEF SameEvent
  <1>5. TokensOf(s)[1] = TokensOf(t)[1]
    <2>1. 1 \in 1..TokenCount(s)
      BY <1>1 DEF TokenCount
    <2> QED BY <2>1
  <1>6. CASE IsRaw(s) /\ IsRaw(t)
    <2>1. SameEvent(s[2], t[2])
      BY <1>2, <1>5, <1>6, SameToken
    <2>2. s[1].type = "BEGIN_ARRAY" /\ t[1].type = "BEGIN_ARRAY" /\ s[1].rawScalar = t[1].rawScalar
      <3>1. s[1].rawScalar /\ t[1].rawScalar /\ s[1].type = "BEGIN_ARRAY" /\ t[1].type = "BEGIN_ARRAY"
        BY <1>6 DEF IsRaw, BeginsRaw
      <3>2. s[1].rawScalar \in BOOLEAN /\ t[1].rawScalar \in BOOLEAN
        BY <1>2, <1>6, <3>1, EventFields
      <3> QED BY <3>1, <3>2
    <2>3. SameEvent(s[1], t[1])
      BY <2>2 DEF SameEvent
    <2>4. SameEvent(s[3], t[3])
      BY <1>6, JsonbShape DEF SameEvent
    <2>5. Len(s) = 3 /\ Len(t) = 3
      BY <1>2, <1>6
    <2>6. \A i \in 1..Len(s) : i = 1 \/ i = 2 \/ i = 3
      BY <2>5
    <2> QED BY <1>1, <2>1, <2>3, <2>4, <2>5, <2>6 DEF SemanticallyEqual
  <1>7. CASE ~IsRaw(s) /\ ~IsRaw(t)
    <2>1. Len(s) = Len(t)
      BY <1>3, <1>7
    <2>2. ASSUME NEW i \in 1..Len(s)
          PROVE  SameEvent(s[i], t[i])
      <3>1. /\ s[i] \in JsonbEvents /\ t[i] \in JsonbEvents
            /\ ~BeginsRaw(s[i]) /\ ~BeginsRaw(t[i]) /\ TokenBytes(s[i]) = TokenBytes(t[i])
        BY <1>1, <1>3, <1>7, <2>1
      <3> QED BY <3>1, SameToken
    <2> QED BY <1>1, <2>1, <2>2 DEF SemanticallyEqual
  <1> QED BY <1>4, <1>5, <1>6, <1>7

\* Bytes hashed for two values are equal exactly for equal values.
LEMMA HashedSeparate ==
  ASSUME NEW s \in Jsonbs, NEW t \in Jsonbs, NEW h, NEW g,
         Hashed(h, s, TokenCount(s)), Hashed(g, t, TokenCount(t))
  PROVE  h = g <=> SemanticallyEqual(s, t)
  <1> DEFINE m == TokenCount(s)
             n == TokenCount(t)
             b == TokensOf(s)
             c == TokensOf(t)
  <1>1. /\ m \in Nat /\ m <= Limit /\ n \in Nat /\ n <= Limit
        /\ \A k \in 1..m : IsBytes(b[k])
        /\ \A k \in 1..n : IsBytes(c[k])
    BY TokensShape
  <1>2. h \in Seq(Nat) /\ g \in Seq(Nat)
    BY DEF Hashed
  <1>3. PICK o \in [1..(m + 1) -> Nat] : LaidOut(h, b, m, o)
    BY DEF Hashed
  <1>4. PICK p \in [1..(n + 1) -> Nat] : LaidOut(g, c, n, p)
    BY DEF Hashed
  <1> HIDE DEF m, n, b, c
  <1>5. ASSUME h = g
        PROVE  SemanticallyEqual(s, t)
    <2>1. LaidOut(h, c, n, p)
      BY <1>4, <1>5
    <2>2. Begins(b, m, c, n)
      BY <1>1, <1>2, <1>3, <2>1, ReadBack, Zenon
    <2>3. Begins(c, n, b, m)
      BY <1>1, <1>2, <1>3, <2>1, ReadBack, Zenon
    <2>4. m = n
      BY <1>1, <2>2, <2>3 DEF Begins
    <2> QED BY <2>2, <2>4, EqualValues DEF Begins, m, n, b, c
  <1>6. ASSUME SemanticallyEqual(s, t)
        PROVE  h = g
    <2>1. m = n /\ b = c
      BY <1>6, EqualTokens DEF m, n, b, c
    <2>2. LaidOut(g, b, m, p) /\ p \in [1..(m + 1) -> Nat]
      BY <1>4, <2>1
    <2> QED BY <1>1, <1>2, <1>3, <2>2, SameBytes, Zenon
  <1> QED BY <1>5, <1>6

----------------------------------------------------------------------------
(* The digest of a value *)

\* The events of s are read in order, and those before are hashed.
Reading(s) ==
  LET n == Len(s) - Len(iter)
  IN  /\ iter \in Seq(JsonbEvents) /\ Len(iter) <= Len(s)
      /\ \A j \in 1..Len(iter) : iter[j] = s[n + j]
      /\ rawScalar \in BOOLEAN /\ (rawScalar <=> n > 0 /\ IsRaw(s))
      /\ idx = Emitted(s, n) /\ Hashed(hasher, s, idx)

Digested(h, i) == Hashed(h, pair[i], TokenCount(pair[i]))

JDInv ==
  /\ turn \in 0..3
  /\ turn = 0 => /\ iter = <<>> /\ ~rawScalar /\ rawScalar \in BOOLEAN /\ idx = 0
                 /\ hasher = <<>> /\ digests = <<>>
  /\ turn # 0 => pair \in Jsonbs \X Jsonbs
  /\ turn = 1 => Reading(pair[1]) /\ digests = <<>>
  /\ turn = 2 => Reading(pair[2]) /\ \E h : digests = <<h>> /\ Digested(h, 1)
  /\ turn = 3 => /\ iter = <<>>
                 /\ Digested(digests[1], 1) /\ Digested(digests[2], 2)

LEMMA NothingHashed == ASSUME NEW s PROVE Hashed(<<>>, s, 0)
  <1> DEFINE o == [k \in 1..1 |-> 0]
  <1>1. o \in [1..(0 + 1) -> Nat] /\ o[1] = 0 /\ o[0 + 1] = 0
    OBVIOUS
  <1>2. <<>> \in Seq(Nat) /\ Len(<<>>) = 0
    OBVIOUS
  <1> HIDE DEF o
  <1>3. LaidOut(<<>>, TokensOf(s), 0, o)
    BY <1>1, <1>2 DEF LaidOut
  <1> QED BY <1>1, <1>2, <1>3 DEF Hashed

LEMMA HashedNext ==
  ASSUME NEW s \in Jsonbs, NEW d \in Nat, d < TokenCount(s), NEW h, Hashed(h, s, d)
  PROVE  Hashed(h \o (LittleEndian(d) \o TokensOf(s)[d + 1]), s, d + 1)
  <1> DEFINE b == TokensOf(s)
             g == h \o (LittleEndian(d) \o b[d + 1])
  <1>1. h \in Seq(Nat)
    BY DEF Hashed
  <1>2. PICK o \in [1..(d + 1) -> Nat] : LaidOut(h, b, d, o)
    BY DEF Hashed
  <1>3. \A i \in 1..(d + 1) : IsBytes(b[i])
    BY TokensShape
  <1> HIDE DEF b
  <1>4. g \in Seq(Nat) /\ \E p \in [1..(d + 2) -> Nat] : LaidOut(g, b, d + 1, p)
    BY <1>1, <1>2, <1>3, LaidOutNext, Zenon
  <1>5. (d + 1) + 1 = d + 2
    OBVIOUS
  <1> QED BY <1>4, <1>5 DEF Hashed, b

LEMMA BeginsReading ==
  ASSUME NEW s \in Jsonbs, iter' = s, rawScalar' = FALSE, idx' = 0, hasher' = <<>>
  PROVE  Reading(s)'
  <1>1. s \in Seq(JsonbEvents) /\ Len(s) \in Nat
    BY JsonbShape
  <1>2. Len(s) - Len(iter') = 0
    BY <1>1
  <1>3. Emitted(s, 0) = 0 /\ Hashed(<<>>, s, 0)
    BY NothingHashed DEF Emitted
  <1> DEFINE n == Len(s) - Len(iter')
  <1>4. /\ iter' \in Seq(JsonbEvents) /\ Len(iter') <= Len(s)
        /\ \A j \in 1..Len(iter') : iter'[j] = s[n + j]
    BY <1>1, <1>2
  <1>5. rawScalar' \in BOOLEAN /\ (rawScalar' <=> n > 0 /\ IsRaw(s))
    <2>1. ~(n > 0) /\ rawScalar' = FALSE
      BY <1>2
    <2> HIDE DEF n
    <2> QED BY <2>1, Zenon
  <1>6. idx' = Emitted(s, n) /\ Hashed(hasher', s, idx')
    BY <1>2, <1>3
  <1> QED BY <1>4, <1>5, <1>6 DEF Reading

LEMMA ReadsOn ==
  ASSUME NEW s \in Jsonbs, Reading(s), NextToken
  PROVE  Reading(s)'
  <1> DEFINE n == Len(s) - Len(iter)
             e == Head(iter)
  <1>1. /\ iter \in Seq(JsonbEvents) /\ Len(iter) <= Len(s) /\ iter # <<>>
        /\ \A j \in 1..Len(iter) : iter[j] = s[n + j]
        /\ rawScalar \in BOOLEAN /\ (rawScalar <=> n > 0 /\ IsRaw(s))
        /\ idx = Emitted(s, n) /\ Hashed(hasher, s, idx)
    BY DEF Reading, NextToken
  <1>2. s \in Seq(JsonbEvents) /\ Len(s) \in Nat
    BY JsonbShape
  <1>3. /\ Len(iter) \in Nat \ {0} /\ n \in 0..(Len(s) - 1) /\ n \in Nat
        /\ e = s[n + 1] /\ n + 1 \in 1..Len(s)
    BY <1>1, <1>2
  <1>4. /\ iter' \in Seq(JsonbEvents) /\ Len(iter') = Len(iter) - 1
        /\ \A j \in 1..Len(iter') : iter'[j] = s[n + 1 + j]
    <2>1. iter' = Tail(iter)
      BY DEF NextToken
    <2>2. /\ Tail(iter) \in Seq(JsonbEvents) /\ Len(Tail(iter)) = Len(iter) - 1
          /\ \A j \in 1..(Len(iter) - 1) : Tail(iter)[j] = iter[j + 1]
      BY <1>1
    <2>3. ASSUME NEW j \in 1..(Len(iter) - 1)
          PROVE  Tail(iter)[j] = s[n + 1 + j]
      <3>1. j + 1 \in 1..Len(iter) /\ n + (j + 1) = n + 1 + j
        BY <1>3
      <3> QED BY <1>1, <2>2, <3>1
    <2> QED BY <2>1, <2>2, <2>3
  <1>5. Len(s) - Len(iter') = n + 1 /\ Len(iter') <= Len(s)
    BY <1>1, <1>2, <1>3, <1>4
  <1> HIDE DEF n, e
  <1>6. /\ rawScalar' \in BOOLEAN /\ (rawScalar' <=> rawScalar \/ BeginsRaw(e))
    BY <1>1 DEF NextToken, e, BeginsRaw
  <1>7. IF Skipped(e) THEN idx' = idx /\ hasher' = hasher
        ELSE idx' = idx + 1 /\ hasher' = hasher \o (LittleEndian(idx) \o TokenBytes(e))
    BY DEF NextToken, Update, e
  <1>8. /\ rawScalar' <=> IsRaw(s)
        /\ IF Skipped(e) THEN Emitted(s, n + 1) = idx
           ELSE /\ Emitted(s, n + 1) = idx + 1 /\ idx \in Nat /\ idx < TokenCount(s)
                /\ TokensOf(s)[idx + 1] = TokenBytes(e)
    <2>1. CASE IsRaw(s)
      <3>1. /\ Len(s) = 3 /\ s[2].type = "SCALAR" /\ s[3].type = "END_ARRAY"
            /\ TokenCount(s) = 1 /\ TokensOf(s)[1] = TokenBytes(s[2]) /\ BeginsRaw(s[1])
        BY <2>1, JsonbShape DEF TokenCount, TokensOf, IsRaw
      <3>2. \A i \in Nat : Emitted(s, i) = IF i < 2 THEN 0 ELSE 1
        BY <2>1 DEF Emitted
      <3>3. n = 0 \/ n = 1 \/ n = 2
        BY <1>3, <3>1
      <3>4. CASE n = 0
        <4>1. e = s[1] /\ idx = 0 /\ Emitted(s, n + 1) = 0
          BY <1>1, <1>3, <3>2, <3>4
        <4>2. Skipped(e)
          BY <3>1, <4>1 DEF Skipped
        <4> QED BY <1>6, <2>1, <3>1, <4>1, <4>2
      <3>5. CASE n = 1
        <4>1. e = s[2] /\ idx = 0 /\ Emitted(s, n + 1) = 1 /\ rawScalar
          <5>1. n > 0 /\ n + 1 = 2
            BY <3>5
          <5> QED BY <1>1, <1>3, <2>1, <3>2, <3>5, <5>1
        <4>2. ~Skipped(e)
          BY <3>1, <4>1 DEF Skipped, BeginsRaw
        <4> QED BY <1>6, <2>1, <3>1, <4>1, <4>2
      <3>6. CASE n = 2
        <4>1. e = s[3] /\ idx = 1 /\ Emitted(s, n + 1) = 1 /\ rawScalar
          <5>1. n > 0 /\ n + 1 = 3
            BY <3>6
          <5> QED BY <1>1, <1>3, <2>1, <3>2, <3>6, <5>1
        <4>2. Skipped(e)
          BY <3>1, <4>1 DEF Skipped
        <4> QED BY <1>6, <2>1, <4>1, <4>2
      <3> QED BY <3>3, <3>4, <3>5, <3>6
    <2>2. CASE ~IsRaw(s)
      <3>1. ~BeginsRaw(e) /\ ~rawScalar
        BY <1>1, <1>3, <2>2, JsonbShape
      <3>2. ~Skipped(e)
        BY <3>1 DEF Skipped
      <3>3. Emitted(s, n + 1) = n + 1 /\ idx = n /\ TokenCount(s) = Len(s)
        BY <1>1, <2>2 DEF Emitted, TokenCount
      <3>4. TokensOf(s)[n + 1] = TokenBytes(e)
        BY <1>3, <2>2 DEF TokensOf
      <3> QED BY <1>2, <1>3, <1>6, <2>2, <3>1, <3>2, <3>3, <3>4
    <2> QED BY <2>1, <2>2
  <1>9. idx' = Emitted(s, n + 1) /\ Hashed(hasher', s, idx')
    BY <1>1, <1>7, <1>8, HashedNext
  <1>10. n + 1 > 0
    BY <1>3
  <1> QED BY <1>4, <1>5, <1>6, <1>8, <1>9, <1>10 DEF Reading

\* All events are read: all tokens are hashed.
LEMMA ReadToEnd ==
  ASSUME NEW s \in Jsonbs, Reading(s), iter = <<>>
  PROVE  Hashed(hasher, s, TokenCount(s))
  <1>1. Len(s) - Len(iter) = Len(s) /\ Len(s) \in Nat /\ (IsRaw(s) => Len(s) = 3)
    BY JsonbShape
  <1>2. idx = Emitted(s, Len(s)) /\ Hashed(hasher, s, idx)
    BY <1>1 DEF Reading
  <1>3. Emitted(s, Len(s)) = TokenCount(s)
    <2>1. CASE IsRaw(s)
      <3>1. ~(Len(s) < 2)
        BY <1>1, <2>1
      <3> QED BY <2>1, <3>1 DEF Emitted, TokenCount
    <2>2. CASE ~IsRaw(s)
      BY <2>2 DEF Emitted, TokenCount
    <2> QED BY <2>1, <2>2
  <1> QED BY <1>2, <1>3

LEMMA JDInvInit == JDInit => JDInv
  <1> SUFFICES ASSUME JDInit PROVE JDInv
    OBVIOUS
  <1>1. turn = 0 /\ iter = <<>> /\ idx = 0 /\ hasher = <<>> /\ digests = <<>>
    BY DEF JDInit
  <1>2. ~rawScalar /\ rawScalar \in BOOLEAN
    BY Zenon DEF JDInit
  <1>3. turn \in 0..3 /\ turn # 1 /\ turn # 2 /\ turn # 3
    BY <1>1
  <1> QED BY <1>1, <1>2, <1>3, Zenon DEF JDInv

LEMMA ReadingHere ==
  ASSUME NEW i, NEW s, Reading(s)', pair'[i] = s
  PROVE  Reading(pair[i])'
  BY Zenon DEF Reading

LEMMA JDInvNext == JDInv /\ [JDNext]_jdVars => JDInv'
  <1> SUFFICES ASSUME JDInv, [JDNext]_jdVars
               PROVE  JDInv'
    OBVIOUS
  <1>1. CASE Compare
    <2>1. /\ turn' = 1 /\ pair' \in Jsonbs \X Jsonbs /\ iter' = pair'[1] /\ idx' = 0
          /\ hasher' = <<>> /\ digests' = <<>>
      BY <1>1 DEF Compare, JDInv
    <2>2. rawScalar' = FALSE
      BY <1>1 DEF Compare, JDInv
    <2>3. pair'[1] \in Jsonbs
      BY <2>1
    <2>4. Reading(pair[1])'
      <3>1. PICK s \in Jsonbs : pair'[1] = s
        BY <2>3
      <3>2. Reading(s)'
        BY <2>1, <2>2, <3>1, BeginsReading
      <3> QED BY <3>1, <3>2, ReadingHere, Zenon
    <2>5. turn' \in 0..3 /\ turn' # 0 /\ turn' # 2 /\ turn' # 3
      BY <2>1
    <2> QED BY <2>1, <2>4, <2>5, Zenon DEF JDInv
  <1>2. CASE NextToken
    <2>1. iter # <<>> /\ UNCHANGED <<pair, turn, digests>>
      BY <1>2 DEF NextToken
    <2>2. turn = 1 \/ turn = 2
      BY <2>1 DEF JDInv
    <2>3. pair[1] \in Jsonbs /\ pair[2] \in Jsonbs
      BY <2>2 DEF JDInv
    <2>4. CASE turn = 1
      <3>1. PICK s \in Jsonbs : pair[1] = s
        BY <2>3
      <3>2. Reading(s)'
        BY <1>2, <2>4, <3>1, ReadsOn DEF JDInv
      <3>3. Reading(pair[1])'
        BY <2>1, <3>1, <3>2, ReadingHere
      <3> QED BY <2>1, <2>4, <3>3 DEF JDInv
    <2>5. CASE turn = 2
      <3>1. PICK s \in Jsonbs : pair[2] = s
        BY <2>3
      <3>2. Reading(s)'
        BY <1>2, <2>5, <3>1, ReadsOn DEF JDInv
      <3>3. Reading(pair[2])'
        BY <2>1, <3>1, <3>2, ReadingHere
      <3> QED BY <2>1, <2>5, <3>3 DEF JDInv, Digested
    <2> QED BY <2>2, <2>4, <2>5
  <1>3. CASE Finalize
    <2>1. /\ turn \in {1, 2} /\ iter = <<>> /\ digests' = Append(digests, hasher)
          /\ turn' = turn + 1 /\ pair' = pair
          /\ iter' = IF turn = 1 THEN pair[2] ELSE <<>>
          /\ idx' = 0 /\ hasher' = <<>>
      BY <1>3 DEF Finalize
    <2>2. rawScalar' = FALSE
      BY <1>3 DEF Finalize
    <2>3. pair \in Jsonbs \X Jsonbs /\ pair[1] \in Jsonbs /\ pair[2] \in Jsonbs
      BY <2>1 DEF JDInv
    <2>4. CASE turn = 1
      <3>1. Digested(hasher, 1)
        BY <2>1, <2>3, <2>4, ReadToEnd DEF JDInv, Digested
      <3>2. digests' = <<hasher>>
        BY <2>1, <2>4 DEF JDInv
      <3>3. Reading(pair[2])'
        <4>1. PICK s \in Jsonbs : pair[2] = s
          BY <2>3
        <4>2. Reading(s)'
          BY <2>1, <2>2, <2>4, <4>1, BeginsReading
        <4> QED BY <2>1, <4>1, <4>2, ReadingHere
      <3> QED BY <2>1, <2>3, <2>4, <3>1, <3>2, <3>3 DEF JDInv, Digested
    <2>5. CASE turn = 2
      <3>1. Digested(hasher, 2)
        BY <2>1, <2>3, <2>5, ReadToEnd DEF JDInv, Digested
      <3>2. PICK h : digests = <<h>> /\ Digested(h, 1)
        BY <2>5 DEF JDInv
      <3>3. PICK g : g = hasher
        OBVIOUS
      <3>4. digests'[1] = h /\ digests'[2] = g
        <4>1. digests' = Append(<<h>>, g)
          BY <2>1, <3>2, <3>3, Zenon
        <4> QED BY <4>1
      <3>5. Digested(h, 1)' /\ Digested(g, 2)'
        BY <2>1, <3>1, <3>2, <3>3 DEF Digested
      <3>6. iter' = <<>> /\ turn' = 3
        BY <2>1, <2>5
      <3> QED BY <2>1, <2>3, <3>4, <3>5, <3>6 DEF JDInv
    <2> QED BY <2>1, <2>4, <2>5
  <1>4. CASE UNCHANGED jdVars
    BY <1>4 DEF JDInv, jdVars, Reading, Digested
  <1> QED BY <1>1, <1>2, <1>3, <1>4 DEF JDNext

THEOREM JDInvariant == JDSpec => []JDInv
  BY JDInvInit, JDInvNext, PTL DEF JDSpec

THEOREM DigestSeparatesHolds == JDSpec => []DigestSeparates
  <1>1. JDInv => DigestSeparates
    <2> SUFFICES ASSUME JDInv, turn = 3
                 PROVE  (digests[1] = digests[2]) <=> SemanticallyEqual(pair[1], pair[2])
      BY DEF DigestSeparates
    <2>1. pair[1] \in Jsonbs /\ pair[2] \in Jsonbs
      BY DEF JDInv
    <2>2. Digested(digests[1], 1) /\ Digested(digests[2], 2)
      BY DEF JDInv
    <2> QED BY <2>1, <2>2, HashedSeparate DEF Digested
  <1> QED BY <1>1, JDInvariant, PTL

=============================================================================
