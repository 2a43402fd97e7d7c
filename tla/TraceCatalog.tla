---------------------------- MODULE TraceCatalog ----------------------------
(***************************************************************************)
(* The catalog of traces (008-tracing-functions.sql): tag keys, tags,      *)
(* operations, schema urls and instrumentation libraries, which connectors *)
(* find or create in concurrent transactions, and delete_all_traces, which *)
(* empties it and starts the ids again.  A connector keeps the ids it was  *)
(* given and writes them into spans.                                       *)
(*                                                                         *)
(* The functions are VOLATILE: each of their statements sees what was      *)
(* committed before it.  INSERT ... ON CONFLICT waits for a transaction    *)
(* that inserted the same row and did not end; FOR UPDATE, UPDATE and      *)
(* ON CONFLICT DO UPDATE wait for one that holds the row.  The foreign key *)
(* of tag only makes sessions wait longer: left out.                       *)
(***************************************************************************)
EXTENDS Integers, FiniteSets

CONSTANTS
  Connectors,
  Standard,    \* the tag keys that are there from the installation, id < 1000
  NewKeys,     \* tag keys that come with traces
  TagValues,   \* of tags
  Services, SpanNames, Urls, Libs,
  TagTypes,    \* the bits of a tag_type
  Workloads,   \* what connectors ask for, [typed, services, urls, calls]: the rows
               \* and types for put_tag_key and put_tag, the services and urls for
               \* the others, and how many calls a transaction makes
  MaxId        \* ids per table and life of the table

\* What makes a row unique, in each of the tables.
TagKey(k)         == <<"tag_key", k>>
Tag(k, v)         == <<"tag", k, v>>
SchemaUrl(u)      == <<"schema_url", u>>
Library(uid, l)   == <<"instrumentation_lib", uid, l>>
Operation(sid, n) == <<"operation", sid, n>>
ServiceTag(v)     == Tag("service.name", v)

RowIds == 1..MaxId
Rows   == {TagKey(k) : k \in NewKeys \cup Standard}
          \cup {Tag(k, v) : k \in NewKeys \cup Standard, v \in TagValues \cup Services}
          \cup {SchemaUrl(u) : u \in Urls}
          \cup {Library(i, l) : i \in RowIds, l \in Libs}
          \cup {Operation(i, n) : i \in RowIds, n \in SpanNames}

ASSUME MaxIdAssumption == MaxId \in Nat \ {0}
ASSUME NamesAssumption ==
  "service.name" \in Standard /\ "resource" \in TagTypes /\ "none" \notin SpanNames

\* tag_type & _tag_type = 0 decides whether types are added: a call comes with one.
ASSUME WorkloadsAssumption ==
  \A w \in Workloads :
    /\ w.services \subseteq Services /\ w.urls \subseteq Urls
    /\ \A c \in w.typed : /\ c[1] \in Rows /\ c[1][1] \in {"tag_key", "tag"}
                          /\ \E t \in TagTypes : c[2] = {t}

IsStandard(r) == r \in {TagKey(k) : k \in Standard}

TableNames == {"tag_key", "tag", "schema_url", "instrumentation_lib", "operation"}

VARIABLES
  workload,  \* one of Workloads
  row,       \* row[r]: [id, types] as committed; id 0 is no row
  next,      \* next[t]: the sequence of table t
  mine,      \* mine[s][r]: what s made of the row and did not commit
  held,      \* held[s]: rows that s has locked
  pc,        \* pc[s]: how far the call is; "out" is not connected
  want,      \* want[s]: [of, types, then, via]; then is the operation that
             \* put_operation goes on with, via the row that of names by id
  got,       \* got[s]: answers of the transaction, [of, id, types, via]
  known,     \* known[s]: answers that s keeps
  span,      \* answers that committed spans hold
  deleting,  \* delete_all_traces ran and did not commit
  put        \* history: <<row, type>> that a committed call put

tcVars == <<workload, row, next, mine, held, pc, want, got, known, span, deleting, put>>

NoRow  == [id |-> 0, types |-> {}]
NoRows == [r \in Rows |-> NoRow]

Request(of, types, then, via) == [of |-> of, types |-> types, then |-> then, via |-> via]
NoCall == Request(<<>>, {}, "none", <<>>)

Installed == [r \in Rows |-> IF IsStandard(r) THEN [id |-> 1, types |-> TagTypes] ELSE NoRow]

TCInit ==
  /\ workload \in Workloads
  /\ row = Installed /\ next = [t \in TableNames |-> IF t = "tag_key" THEN 1 ELSE 0]
  /\ mine = [s \in Connectors |-> NoRows] /\ held = [s \in Connectors |-> {}]
  /\ pc = [s \in Connectors |-> "out"] /\ want = [s \in Connectors |-> NoCall]
  /\ got = [s \in Connectors |-> {}] /\ known = [s \in Connectors |-> {}]
  /\ span = {} /\ deleting = FALSE /\ put = {}

Seen(s, r)  == IF mine[s][r].id # 0 THEN mine[s][r] ELSE row[r]
Exists(s, r) == Seen(s, r).id # 0

----------------------------------------------------------------------------
(* A call, statement by statement *)

Goto(s, to) == pc' = [pc EXCEPT ![s] = to]

\* TRUNCATE has the tables until delete_all_traces commits.
StartPut(s, c) ==
  /\ pc[s] \in {"idle", "answered"} /\ ~deleting /\ Cardinality(got[s]) < workload.calls
  /\ Goto(s, "find") /\ want' = [want EXCEPT ![s] = c]
  /\ UNCHANGED <<row, next, mine, held, got, known, span, deleting, put>>

\* put_tag_key, put_tag
PutTyped(s) == \E c \in workload.typed :
  StartPut(s, Request(c[1], c[2], "none", <<>>))

PutOperation(s) ==
  \E v \in workload.services, n \in SpanNames :
    StartPut(s, Request(ServiceTag(v), {}, n, <<>>))

PutSchemaUrl(s) ==
  \E u \in workload.urls : StartPut(s, Request(SchemaUrl(u), {}, "none", <<>>))

\* The caller gives the id of a schema url.
PutInstrumentationLib(s) ==
  \E l \in Libs, u \in workload.urls, a \in known[s] \cup got[s] :
    /\ a.of = SchemaUrl(u)
    /\ StartPut(s, Request(Library(a.id, l), {}, "none", a.of))

Answers(s, id) ==
  LET c == want[s] IN
  IF c.then # "none"
  THEN /\ want' = [want EXCEPT ![s] = Request(Operation(id, c.then), {}, "none", c.of)]
       /\ Goto(s, "find") /\ UNCHANGED got
  ELSE /\ got' = [got EXCEPT ![s] = @ \cup
                   {[of |-> c.of, id |-> id, via |-> c.via,
                     types |-> IF pc[s] = "read unkeyed" THEN {} ELSE c.types]}]
       /\ want' = [want EXCEPT ![s] = NoCall]
       /\ Goto(s, "answered")

\* put_tag_key and put_tag come with a tag_type.
Typed(s) == want[s].types # {}

Free(s, r) == \A t \in Connectors \ {s} : r \notin held[t]
Hold(s, r) == held' = [held EXCEPT ![s] = @ \cup {r}]
Write(s, r, new) == mine' = [mine EXCEPT ![s][r] = new]

\* SELECT * INTO _tag ... FOR UPDATE; the other functions read without a lock.
Find(s) ==
  LET r == want[s].of IN
  /\ pc[s] = "find"
  /\ IF ~Exists(s, r)
     THEN Goto(s, "insert") /\ UNCHANGED <<held, want, got>>
     ELSE IF Typed(s)
     THEN /\ Free(s, r) /\ Hold(s, r)
          /\ IF Seen(s, r).types \cap want[s].types = {}
             THEN Goto(s, "update") /\ UNCHANGED <<want, got>>
             ELSE Answers(s, Seen(s, r).id)
     ELSE Answers(s, Seen(s, r).id) /\ UNCHANGED held
  /\ UNCHANGED <<row, next, mine, known, span, deleting, put>>

UpdateTypes(s) ==
  LET r == want[s].of IN
  /\ pc[s] = "update" /\ Free(s, r) /\ Hold(s, r)
  /\ Write(s, r, [Seen(s, r) EXCEPT !.types = @ \cup want[s].types])
  /\ Answers(s, Seen(s, r).id)
  /\ UNCHANGED <<row, next, known, span, deleting, put>>

\* (mutant) ON CONFLICT DO NOTHING, as in the other functions.
DoNothing(s, r) == UNCHANGED <<mine, held>>

\* ON CONFLICT DO UPDATE SET tag_type = ... WHERE t.tag_type & EXCLUDED.tag_type = 0
DoUpdate(s, r) ==
  /\ Free(s, r) /\ Hold(s, r)
  /\ IF Seen(s, r).types \cap want[s].types = {}
     THEN Write(s, r, [Seen(s, r) EXCEPT !.types = @ \cup want[s].types])
     ELSE UNCHANGED mine

TakesId(t) == next[t] < MaxId /\ next' = [next EXCEPT ![t] = @ + 1]

IsTaken(t, id) == \E r \in Rows : r[1] = t /\ row[r].id = id

\* put_tag selects what it inserts from tag_key; put_operation knows its key.
HasKey(s, r) == r[1] = "tag" /\ Typed(s) => Exists(s, TagKey(r[2]))

InsertNothing(s) ==
  /\ pc[s] = "insert" /\ ~HasKey(s, want[s].of)
  /\ Goto(s, "read unkeyed")
  /\ UNCHANGED <<row, next, mine, held, want, got, known, span, deleting, put>>

InsertConflict(s) ==
  LET r == want[s].of IN
  /\ pc[s] = "insert" /\ HasKey(s, r) /\ Exists(s, r)
  /\ TakesId(r[1])
  /\ IF Typed(s) THEN DoUpdate(s, r) ELSE UNCHANGED <<mine, held>>
  /\ Goto(s, "read")
  /\ UNCHANGED <<row, want, got, known, span, deleting, put>>

NobodyInserts(s, r) == \A t \in Connectors \ {s} : mine[t][r].id = 0

\* RETURNING id answers put_operation and its like; the other two read the row.
InsertNew(s) ==
  LET r  == want[s].of
      id == next[r[1]] + 1 IN
  /\ pc[s] = "insert" /\ HasKey(s, r) /\ ~Exists(s, r) /\ NobodyInserts(s, r)
  /\ TakesId(r[1]) /\ ~IsTaken(r[1], id)
  /\ Hold(s, r)
  /\ Write(s, r, [id |-> id,
                  types |-> IF r[1] = "tag" /\ ~Typed(s) THEN {"resource"} ELSE want[s].types])
  /\ IF Typed(s) THEN Goto(s, "read") /\ UNCHANGED <<want, got>> ELSE Answers(s, id)
  /\ UNCHANGED <<row, known, span, deleting, put>>

\* (mutant) as in a STABLE function: the statement uses the snapshot of the call,
\* which showed no row before.
OwnRow(s, r) == mine[s][r].id # 0
SeenNow(s, r) == Exists(s, r)

\* SELECT ... INTO STRICT
Read(s) ==
  /\ pc[s] \in {"read", "read unkeyed"} /\ SeenNow(s, want[s].of)
  /\ Answers(s, Seen(s, want[s].of).id)
  /\ UNCHANGED <<row, next, mine, held, known, span, deleting, put>>

----------------------------------------------------------------------------
(* Transactions and connectors *)

Ends(s, to) ==
  /\ Goto(s, to)
  /\ mine' = [mine EXCEPT ![s] = NoRows] /\ held' = [held EXCEPT ![s] = {}]
  /\ want' = [want EXCEPT ![s] = NoCall] /\ got' = [got EXCEPT ![s] = {}]

CommitPuts(s) ==
  /\ pc[s] = "answered" /\ Ends(s, "idle")
  /\ row' = [r \in Rows |-> Seen(s, r)]
  /\ known' = [known EXCEPT ![s] = @ \cup got[s]]
  /\ put' = put \cup {<<a.of, a.types>> : a \in got[s]}
  /\ UNCHANGED <<next, span, deleting>>

\* SELECT INTO STRICT without a row: query returned no rows
RaiseNoRows(s) ==
  /\ pc[s] \in {"read", "read unkeyed"} /\ ~SeenNow(s, want[s].of)
  /\ Ends(s, "idle")
  /\ UNCHANGED <<row, next, known, span, deleting, put>>

\* The sequence gave an id that a row has.
RaiseDuplicateKey(s) ==
  LET t == want[s].of[1] IN
  /\ pc[s] = "insert" /\ HasKey(s, want[s].of) /\ ~Exists(s, want[s].of)
  /\ TakesId(t) /\ IsTaken(t, next[t] + 1)
  /\ Ends(s, "idle")
  /\ UNCHANGED <<row, known, span, deleting, put>>

\* Of a deadlock's victim, or as the client wants.
AbortPuts(s) ==
  /\ pc[s] \notin {"out", "idle"} /\ Ends(s, "idle")
  /\ UNCHANGED <<row, next, known, span, deleting, put>>

\* A connector holds the advisory lock, shared, for as long as it runs.
Connect(s) ==
  /\ pc[s] = "out" /\ ~deleting /\ Goto(s, "idle")
  /\ UNCHANGED <<row, next, mine, held, want, got, known, span, deleting, put>>

\* It ends, or died in a transaction, which is rolled back first.
Disconnect(s) ==
  /\ pc[s] = "idle" /\ Ends(s, "out")
  /\ known' = [known EXCEPT ![s] = {}]
  /\ UNCHANGED <<row, next, span, deleting, put>>

\* One span is enough, with an id whose row names another by id.
IngestSpan(s) ==
  /\ pc[s] = "idle" /\ ~deleting /\ span = {}
  /\ \E a \in known[s] : a.via # <<>> /\ span' = {a}
  /\ UNCHANGED <<row, next, mine, held, pc, want, got, known, deleting, put>>

\* (mutant) it goes on without the lock, once TRUNCATE gets its tables.
TablesFree == \A s \in Connectors : pc[s] \in {"out", "idle"}
LockTaken == \A s \in Connectors : pc[s] = "out"

\* delete_all_traces up to its last statement.  setval is not undone by a rollback.
DeleteAllTraces ==
  /\ ~deleting /\ LockTaken
  /\ deleting' = TRUE /\ next' = [next EXCEPT !["tag_key"] = 1]
  /\ UNCHANGED <<row, mine, held, pc, want, got, known, span, put>>

\* TRUNCATE ... RESTART IDENTITY; DELETE ... WHERE id >= 1000
CommitDelete ==
  /\ deleting /\ deleting' = FALSE
  /\ row' = [r \in Rows |-> IF IsStandard(r) THEN row[r] ELSE NoRow]
  /\ next' = [t \in TableNames |-> IF t = "tag_key" THEN next[t] ELSE 0]
  /\ span' = {} /\ put' = {p \in put : IsStandard(p[1])}
  /\ UNCHANGED <<mine, held, pc, want, got, known>>

RollbackDelete ==
  /\ deleting /\ deleting' = FALSE
  /\ UNCHANGED <<row, next, mine, held, pc, want, got, known, span, put>>

TCNext ==
  /\ UNCHANGED workload
  /\ \/ \E s \in Connectors :
          \/ PutTyped(s) \/ PutOperation(s) \/ PutSchemaUrl(s) \/ PutInstrumentationLib(s)
          \/ Find(s) \/ UpdateTypes(s)
          \/ InsertNothing(s) \/ InsertConflict(s) \/ InsertNew(s) \/ Read(s)
          \/ RaiseNoRows(s) \/ RaiseDuplicateKey(s)
          \/ CommitPuts(s) \/ AbortPuts(s) \/ Connect(s) \/ Disconnect(s) \/ IngestSpan(s)
     \/ DeleteAllTraces \/ CommitDelete \/ RollbackDelete

TCSpec == TCInit /\ [][TCNext]_tcVars

----------------------------------------------------------------------------
(* Properties *)

\* Whatever the order of the sessions' statements, a row has every type that a
\* committed put_tag_key or put_tag came with, until delete_all_traces.  (A put_tag
\* that finds no key does not count: should another session commit the key and the
\* tag before it reads, it answers without having added its type.)
TypesKept == \A p \in put : p[2] \subseteq row[p[1]].types

\* An id means what it was given for, for as long as a connector keeps it or a span
\* holds it; so does the id of a service or schema url inside the row it names.
\* After delete_all_traces the ids start again: one kept through it would mean another
\* row.
IdsResolve ==
  \A a \in (UNION {known[s] : s \in Connectors}) \cup span :
    /\ row[a.of].id = a.id
    /\ a.via # <<>> => row[a.via].id = a.of[2]

\* SELECT INTO STRICT finds the row that its session inserted or that made it wait;
\* it raises an error only for a tag whose key was not there when it came to insert.
StrictFindsRow == \A s \in Connectors : pc[s] = "read" => SeenNow(s, want[s].of)

=============================================================================
