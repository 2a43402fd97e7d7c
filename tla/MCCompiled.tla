----------------------------- MODULE MCCompiled -----------------------------
(***************************************************************************)
(* One part of the system at a time: a statement that calls an aggregate,  *)
(* reads tags, compares jsonb values or matches regular expressions, the   *)
(* sessions that fill the catalog of traces, or the build and installation *)
(* of releases.                                                            *)
(***************************************************************************)
EXTENDS VectorSelector, GapfillDelta, TagRewrite, JsonbDigest, RegexCache, Migrations,
        TraceCatalog, SequencesExt

VARIABLE part   \* the part that runs

Q(s, e, w, l) == [start |-> s, end |-> e, width |-> w, lookback |-> l]

MCQueries == {Q(4, 9, 1, 1), Q(4, 9, 1, 2), Q(4, 8, 2, 1), Q(4, 4, 0, 1), Q(4, 6, 0, 1)}

R(t, v) == [time |-> t, val |-> v]

VSTimes == {1, 2, 4, 5, 8, 9, 10}

MCTables ==
  {<<>>}
    \cup {<<R(t, v)>> : t \in VSTimes, v \in {1, STALE_NAN}}
    \cup {<<R(t, 1), R(u, v)>> : t, u \in VSTimes, v \in {2, STALE_NAN}}
    \cup {<<R(t, 1), R(u, STALE_NAN), R(x, 3)>> : t \in {4, 8}, u, x \in {4, 5, 7, 8}}

C(l, g, s, r, a) == [lowest |-> l, greatest |-> g, step |-> s, range |-> r, aggregate |-> a]

\* Windows that overlap, that leave gaps, that touch; and a step of 0.  With a
\* millisecond of 2 microseconds.
MCCalls == {C(0, 14, s[1], s[2], a) : s \in {<<2, 3>>, <<3, 1>>, <<2, 2>>, <<0, 2>>},
                                      a \in Aggregates}

MCInputs ==
  {<<>>}
    \cup {<<R(t, v)>> : t \in {-1, 2, 15}, v \in {1, STALE_NAN}}
    \cup {<<R(t, v), R(u, w)>> : t \in {0, 2, 6}, u \in {0, 3, 6, 8, 14},
                                 v \in {-2, 0, 5}, w \in {0, 3, STALE_NAN}}
    \cup {<<R(t, v), R(u, 3), R(x, y)>> : t \in {2, 8}, u \in {5, 6, 10},
                                          x \in {4, 8, 12}, v \in {0, 5}, y \in {0, 4}}

TagCondition ==
  [func |-> "tag_v_eq", coerced |-> 0, arrow |-> "->", innerCoerced |-> 0,
   inner |-> "tag_map_denormalize", key |-> "a", value |-> "1.01",
   constant |-> TRUE, negated |-> FALSE, level |-> 1]

MCConditions ==
  {[TagCondition EXCEPT !.func = f, !.constant = c, !.level = l, !.coerced = n] :
     f \in {"tag_v_eq", "tag_v_ne"}, c \in BOOLEAN, l \in {1, 2}, n \in {0, 2}}
    \cup {[TagCondition EXCEPT !.func = f, !.level = l] :
            f \in {"no_helper", "agg_helper", "label_matcher"}, l \in 0..2}
    \cup {[TagCondition EXCEPT !.inner = "other", !.func = f] : f \in {"tag_v_eq", "tag_v_ne"}}
    \cup {[TagCondition EXCEPT !.arrow = "#>"], [TagCondition EXCEPT !.innerCoerced = 2]}

NegatedConditions ==
  {[TagCondition EXCEPT !.func = f, !.negated = TRUE] : f \in {"tag_v_eq", "tag_v_ne"}}

\* 1.01 and 1.010 are equal.
MCClass == [v \in {"1.01", "1.010", "x"} |-> IF v = "1.010" THEN "1.01" ELSE v]

Str(s) == [kind |-> "string", text |-> s]
Num(i, f) == [kind |-> "number", int |-> i, frac |-> f]
Arr(s) == [kind |-> "array", elems |-> s]
Obj(s) == [kind |-> "object", fields |-> s]
Field1(k, v) == Obj(<<[key |-> k, val |-> v]>>)

\* What JsonbIteratorNext returns for a value.
RECURSIVE EventsOf(_)
EventsOf(j) ==
  CASE j.kind = "array" ->
         <<[type |-> "BEGIN_ARRAY", rawScalar |-> FALSE]>>
           \o FlattenSeq([i \in DOMAIN j.elems |-> EventsOf(j.elems[i])])
           \o <<[type |-> "END_ARRAY"]>>
    [] j.kind = "object" ->
         <<[type |-> "BEGIN_OBJECT"]>>
           \o FlattenSeq([i \in DOMAIN j.fields |->
                <<[type |-> "KEY", text |-> j.fields[i].key]>> \o EventsOf(j.fields[i].val)])
           \o <<[type |-> "END_OBJECT"]>>
    [] OTHER -> <<[type |-> "SCALAR", val |-> j]>>

JsonbIteratorInit(j) ==
  IF j.kind \in {"array", "object"} THEN EventsOf(j)
  ELSE <<[type |-> "BEGIN_ARRAY", rawScalar |-> TRUE]>> \o EventsOf(j)
         \o <<[type |-> "END_ARRAY"]>>

\* 97 is the letter a, 48 and 49 are digits, and 4 and 14 are the bytes that
\* mark a string and the end of an array.
MCValues ==
  {[kind |-> "null"], Str(<<>>), Str(<<97>>), Str(<<49>>), Num(<<49>>, <<>>),
   Num(<<49>>, <<48>>), Num(<<49>>, <<48, 49>>), Num(<<49>>, <<48, 49, 48>>),
   Arr(<<>>), Obj(<<>>), Arr(<<Arr(<<>>)>>), Arr(<<Arr(<<>>), Arr(<<>>)>>),
   Arr(<<Num(<<49>>, <<>>)>>), Arr(<<Str(<<97>>), Str(<<97>>)>>),
   Arr(<<Str(<<97, 4, 97>>)>>), Arr(<<Str(<<97, 14>>)>>), Arr(<<Arr(<<Str(<<97>>)>>)>>),
   Field1(<<97>>, Str(<<97>>)), Field1(<<97>>, [kind |-> "null"]),
   Field1(<<97, 4, 97>>, Str(<<>>)),
   Field1(<<97>>, Arr(<<[kind |-> "bool", b |-> TRUE]>>)),
   Field1(<<97>>, Arr(<<[kind |-> "bool", b |-> FALSE]>>)),
   Obj(<<[key |-> <<97>>, val |-> Num(<<49>>, <<>>)], [key |-> <<98>>, val |-> Str(<<>>)]>>)}

MCJsonbs == {JsonbIteratorInit(j) : j \in MCValues}

F(n, t, b) == [number |-> n, title |-> t, body |-> b]

First == {F(1, "1-extension", "v1"), F(2, "2-tables", "v1")}
Basic == {F(1, "1-base", "v1"), F(999, "999-last", "v1")}
Full == {F(1, "1-base", "v2"), F(2, "2-ha", "v1"), F(999, "999-last", "v1")}
Frozen == {F(1, "1-extension", "v3"), F(2, "2-tables", "v2"), F(3, "3-roles", "v1"),
           F(4, "4-tracing", "v1")}

\* The second tree has a gap, the third two files of one number, the fifth one
\* numbered 1000.  The last has two numbered 999, and changes two files, of
\* which one may change.
MCReleases ==
  <<[schema |-> "v1", incremental |-> First, idempotent |-> Basic],
    [schema |-> "v1", incremental |-> First \cup {F(4, "4-tracing", "v1")}, idempotent |-> Basic],
    [schema |-> "v1", incremental |-> First \cup {F(2, "2-tracing", "v1")}, idempotent |-> Basic],
    [schema |-> "v1",
     incremental |-> {F(1, "1-extension", "v2"), F(2, "2-tables", "v1"), F(3, "3-roles", "v1"),
                      F(4, "4-tracing", "v1")},
     idempotent  |-> Full],
    [schema |-> "v2", incremental |-> Frozen,
     idempotent  |-> Full \cup {F(1000, "1000-last", "v1")}],
    [schema |-> "v2", incremental |-> Frozen \cup {F(5, "5-privileges", "v1")},
     idempotent  |-> Full \cup {F(999, "999-late", "v1")}]>>

Load(t, v, u, n) == [typed |-> t, services |-> v, urls |-> u, calls |-> n]

\* A tag and its key; a key in two types; two services, so that ids come again for
\* another; one service that is put as a tag, too; a library and its url.
MCWorkloads ==
  {Load({<<TagKey("k"), {"span"}>>, <<Tag("k", "1"), {"span"}>>,
         <<Tag("k", "1"), {"resource"}>>}, {}, {}, 1),
   Load({<<TagKey("k"), {"span"}>>, <<TagKey("k"), {"resource"}>>}, {}, {}, 2),
   Load({}, {"x", "y"}, {}, 1),
   Load({<<ServiceTag("x"), {"span"}>>}, {"x"}, {}, 1),
   Load({}, {}, {"u"}, 2)}

----------------------------------------------------------------------------

Parts == {"vector", "gapfill", "tags", "digest", "regex", "releases", "traces"}

MCInit == /\ part \in Parts
          /\ VSInit /\ GDInit /\ TRInit /\ JDInit /\ RCInit /\ MGInit
          /\ TCInit /\ (part # "traces" => workload.services = {"x", "y"})

Only(p, others) == part = p /\ UNCHANGED part /\ UNCHANGED others

MCNext ==
  \/ Only("vector", <<gdVars, trVars, jdVars, rcVars, mgVars, tcVars>>) /\ VSNext
  \/ Only("gapfill", <<vsVars, trVars, jdVars, rcVars, mgVars, tcVars>>) /\ GDNext
  \/ Only("tags", <<vsVars, gdVars, jdVars, rcVars, mgVars, tcVars>>) /\ TRNext
  \/ Only("digest", <<vsVars, gdVars, trVars, rcVars, mgVars, tcVars>>) /\ JDNext
  \/ Only("regex", <<vsVars, gdVars, trVars, jdVars, mgVars, tcVars>>) /\ RCNext
  \/ Only("releases", <<vsVars, gdVars, trVars, jdVars, rcVars, tcVars>>) /\ MGNext
  \/ Only("traces", <<vsVars, gdVars, trVars, jdVars, rcVars, mgVars>>) /\ TCNext

=============================================================================
