------------------------- MODULE TraceCatalogProofs -------------------------
(***************************************************************************)
(* For any number of connectors, rows, types and ids: the types that were  *)
(* put are kept, ids mean what they were given for, and the strict reads   *)
(* find their rows.                                                        *)
(*                                                                         *)
(* What a session sees of a row only grows while it is connected: it reads *)
(* its own version over the committed one (Grows), no other session can    *)
(* have a version of a row it holds (Apart), and delete_all_traces finds   *)
(* nobody connected (Quiet, Deletion).                                     *)
(***************************************************************************)
EXTENDS TraceCatalog, TLAPS

RowRecords == [id : 0..MaxId, types : SUBSET TagTypes]
CallRecords == [of : Rows \cup {<<>>}, types : SUBSET TagTypes,
                then : SpanNames \cup {"none"}, via : Rows \cup {<<>>}]
AnswerRecords ==
  {a \in [of : Rows, id : RowIds, via : Rows \cup {<<>>}, types : SUBSET TagTypes] :
     a.via # <<>> => a.of[2] \in RowIds}

Calling == {"find", "insert", "update", "read", "read unkeyed"}
Pcs == {"out", "idle", "answered"} \cup Calling

\* Every variable has its type.
TCTypeOK ==
  /\ workload \in Workloads
  /\ row \in [Rows -> RowRecords]
  /\ next \in [TableNames -> Nat]
  /\ mine \in [Connectors -> [Rows -> RowRecords]]
  /\ held \in [Connectors -> SUBSET Rows]
  /\ pc \in [Connectors -> Pcs]
  /\ want \in [Connectors -> CallRecords]
  /\ got \in [Connectors -> SUBSET AnswerRecords]
  /\ known \in [Connectors -> SUBSET AnswerRecords]
  /\ span \subseteq AnswerRecords
  /\ deleting \in BOOLEAN
  /\ put \subseteq Rows \X SUBSET TagTypes

Names(s, of, via) == via # <<>> => of[2] \in RowIds /\ Seen(s, via).id = of[2]

\* A version of its own keeps the id of the committed row, and its types.
Grows(s) ==
  \A r \in Rows : mine[s][r].id # 0 =>
    /\ r \in held[s]
    /\ row[r].types \subseteq mine[s][r].types
    /\ row[r].id # 0 => row[r].id = mine[s][r].id

Holds(s) == \A r \in held[s] : Exists(s, r)

\* The call that runs.
Runs(s) ==
  /\ pc[s] \in Calling =>
       /\ want[s].of \in Rows
       /\ want[s].types # {} => \E t \in TagTypes : want[s].types = {t}
       /\ Names(s, want[s].of, want[s].via)
  /\ pc[s] = "read" => Exists(s, want[s].of) /\ want[s].types \subseteq Seen(s, want[s].of).types
  /\ pc[s] = "update" => Exists(s, want[s].of)

Answered(s) ==
  \A a \in got[s] : /\ Seen(s, a.of).id = a.id
                    /\ a.types \subseteq Seen(s, a.of).types
                    /\ Names(s, a.of, a.via)

Quiet(s) ==
  /\ pc[s] \in {"out", "idle"} => mine[s] = NoRows /\ held[s] = {} /\ got[s] = {}
  /\ pc[s] = "out" => known[s] = {}

Local(s) == Grows(s) /\ Holds(s) /\ Runs(s) /\ Answered(s) /\ Quiet(s)

Apart == \A s, t \in Connectors : s # t => held[s] \cap held[t] = {}

Deletion == deleting => \A s \in Connectors : pc[s] = "out"

NoRowHasNoTypes == \A r \in Rows : row[r].id = 0 => row[r].types = {}

TCInv ==
  /\ TCTypeOK /\ Apart /\ Deletion /\ NoRowHasNoTypes
  /\ IdsResolve /\ TypesKept
  /\ \A s \in Connectors : Local(s)

\* A session that sees a row goes on seeing it, with its id and with no type less.
Later(s) ==
  \A r \in Rows : Exists(s, r) =>
    /\ (Seen(s, r).id)' = Seen(s, r).id
    /\ Seen(s, r).types \subseteq (Seen(s, r).types)'

Same(t) == /\ mine'[t] = mine[t] /\ held'[t] = held[t] /\ pc'[t] = pc[t]
           /\ want'[t] = want[t] /\ got'[t] = got[t] /\ known'[t] = known[t]

----------------------------------------------------------------------------
(* Rows *)

\* Each constructor makes a row; libraries and operations begin with an id.
LEMMA MadeRows ==
  /\ \A v \in Services : ServiceTag(v) \in Rows
  /\ \A u \in Urls : SchemaUrl(u) \in Rows
  /\ \A i \in RowIds, l \in Libs : Library(i, l) \in Rows /\ Library(i, l)[2] = i
  /\ \A i \in RowIds, n \in SpanNames : Operation(i, n) \in Rows /\ Operation(i, n)[2] = i
BY NamesAssumption DEF Rows, ServiceTag, Tag, SchemaUrl, Library, Operation

\* A row is of one of the tables.
LEMMA TableOf == ASSUME NEW r \in Rows PROVE r[1] \in TableNames
BY DEF Rows, TableNames, TagKey, Tag, SchemaUrl, Library, Operation

\* What a session sees of a row is a record of a row.
LEMMA SeenType ==
  ASSUME TCTypeOK, NEW s \in Connectors, NEW r \in Rows
  PROVE  Seen(s, r) \in RowRecords
BY DEF TCTypeOK, Seen

\* The ids of answers are ids of rows that are there.
LEMMA IdPositive == ASSUME NEW i \in RowIds PROVE i # 0 /\ i \in 0..MaxId
BY MaxIdAssumption DEF RowIds

\* An id that a session sees is an id.
LEMMA SeenId ==
  ASSUME TCTypeOK, NEW s \in Connectors, NEW r \in Rows, Exists(s, r)
  PROVE  Seen(s, r).id \in RowIds
BY SeenType, MaxIdAssumption DEF Exists, RowRecords, RowIds

----------------------------------------------------------------------------
(* The initial state *)

LEMMA InitHolds == TCInit => TCInv
<1> SUFFICES ASSUME TCInit PROVE TCInv
  OBVIOUS
<1>1. NoRow \in RowRecords /\ NoRows \in [Rows -> RowRecords]
  BY MaxIdAssumption DEF NoRow, NoRows, RowRecords
<1>2. row \in [Rows -> RowRecords] /\ NoRowHasNoTypes
  BY <1>1, MaxIdAssumption DEF TCInit, Installed, NoRow, RowRecords, NoRowHasNoTypes
<1>3. NoCall \in CallRecords
    BY DEF NoCall, Request, CallRecords
<1>4. TCTypeOK
  BY <1>1, <1>2, <1>3 DEF TCInit, TCTypeOK, Pcs
<1>5. ASSUME NEW s \in Connectors PROVE Local(s)
  BY <1>5 DEF TCInit, Local, Grows, Holds, Runs, Calling, Answered, Quiet, NoRows, NoRow
<1>6. Apart /\ Deletion /\ IdsResolve /\ TypesKept
  BY DEF TCInit, Apart, Deletion, IdsResolve, TypesKept
<1> QED
  BY <1>2, <1>4, <1>5, <1>6 DEF TCInv

----------------------------------------------------------------------------
(* Steps of one session *)

\* Who does not move and whose rows stay is as before.
LEMMA OthersKeep ==
  ASSUME TCInv, NEW t \in Connectors, Same(t), row' = row
  PROVE  Local(t)'
<1> USE DEF TCInv, Same
<1>1. Grows(t)' /\ Quiet(t)'
  BY DEF Local, Grows, Quiet
<1>2. \A r : Seen(t, r)' = Seen(t, r) /\ Exists(t, r)' = Exists(t, r)
  BY DEF Seen, Exists
<1>3. \A of, via : Names(t, of, via)' = Names(t, of, via)
  BY <1>2 DEF Names
<1>4. Holds(t)' /\ Answered(t)'
  BY <1>2, <1>3 DEF Local, Holds, Answered
<1>5. Runs(t)'
  BY <1>2, <1>3 DEF Local, Runs
<1> QED
  BY <1>1, <1>4, <1>5 DEF Local

\* A step of a session that commits nothing.
LEMMA LocalStep ==
  ASSUME TCInv, NEW s \in Connectors,
         UNCHANGED <<row, span, deleting, put>>,
         \A t \in Connectors \ {s} : Same(t) /\ held'[s] \cap held[t] = {},
         known'[s] \subseteq known[s],
         ~deleting, TCTypeOK', Local(s)'
  PROVE  TCInv'
<1>1. \A t \in Connectors \ {s} : Local(t)'
  BY OthersKeep
<1>2. Apart'
  BY DEF TCInv, Apart, Same
<1>3. Deletion' /\ NoRowHasNoTypes' /\ TypesKept'
  BY DEF TCInv, Deletion, NoRowHasNoTypes, TypesKept
<1>4. \A t \in Connectors : known'[t] \subseteq known[t]
  BY DEF Same
<1>5. IdsResolve'
  BY <1>4 DEF TCInv, IdsResolve
<1> QED
  BY <1>1, <1>2, <1>3, <1>5 DEF TCInv

\* A row named by its id stays so for a session that goes on seeing it.
LEMMA NamesLater ==
  ASSUME TCTypeOK, NEW s \in Connectors, Later(s), NEW of, NEW via \in Rows \cup {<<>>},
         Names(s, of, via)
  PROVE  Names(s, of, via)'
<1>1. CASE via = <<>>
  BY <1>1 DEF Names
<1>2. CASE via # <<>>
  <2>1. via \in Rows /\ Seen(s, via).id = of[2] /\ of[2] \in RowIds
    BY <1>2 DEF Names
  <2>2. Exists(s, via)
    BY <2>1, IdPositive DEF Exists
  <2> QED
    BY <2>1, <2>2 DEF Names, Later
<1> QED
  BY <1>1, <1>2

\* Answers of the transaction stay what they are.
LEMMA AnsweredLater ==
  ASSUME TCTypeOK, NEW s \in Connectors, Later(s), Answered(s)
  PROVE  \A a \in got[s] : /\ (Seen(s, a.of).id)' = a.id
                           /\ a.types \subseteq (Seen(s, a.of).types)'
                           /\ Names(s, a.of, a.via)'
<1> SUFFICES ASSUME NEW a \in got[s]
             PROVE  /\ (Seen(s, a.of).id)' = a.id
                    /\ a.types \subseteq (Seen(s, a.of).types)'
                    /\ Names(s, a.of, a.via)'
  OBVIOUS
<1>1. a \in AnswerRecords
  BY DEF TCTypeOK
<1>2. a.of \in Rows /\ a.id \in RowIds /\ a.via \in Rows \cup {<<>>}
  BY <1>1 DEF AnswerRecords
<1>3. Seen(s, a.of).id = a.id /\ a.types \subseteq Seen(s, a.of).types /\ Names(s, a.of, a.via)
  BY DEF Answered
<1>4. Exists(s, a.of)
  BY <1>2, <1>3, IdPositive DEF Exists
<1>5. Names(s, a.of, a.via)'
  BY <1>2, <1>3, NamesLater
<1> QED
  BY <1>2, <1>3, <1>4, <1>5 DEF Later

\* A call for row r that is answered with its id, or goes on to the operation.
LEMMA AnswersStep ==
  ASSUME TCInv, NEW s \in Connectors, pc[s] \in Calling, NEW id \in RowIds,
         NEW r \in Rows, want[s].of = r,
         Answers(s, id), Later(s), (Seen(s, r).id)' = id,
         pc[s] = "read unkeyed" \/ want[s].types \subseteq (Seen(s, r).types)'
  PROVE  /\ Runs(s)' /\ Answered(s)' /\ Quiet(s)'
         /\ want' \in [Connectors -> CallRecords]
         /\ got' \in [Connectors -> SUBSET AnswerRecords]
         /\ pc' \in [Connectors -> Pcs]
<1>1. TCTypeOK /\ Runs(s) /\ Answered(s)
  BY DEF TCInv, Local
<1>2. want[s] \in CallRecords
  BY <1>1 DEF TCTypeOK
<1>3. PICK c \in CallRecords : c = want[s]
  BY <1>2
<1>4. c.of = r /\ c.via \in Rows \cup {<<>>} /\ c.types \subseteq TagTypes
      /\ c.then \in SpanNames \cup {"none"}
  BY <1>3 DEF CallRecords
<1>5. Names(s, r, c.via)
  BY <1>1, <1>3, <1>4 DEF Runs
<1>6. Names(s, r, c.via)'
  BY <1>1, <1>4, <1>5, NamesLater
<1>7. CASE c.then # "none"
  <2>1. PICK op \in Rows : op = Operation(id, c.then) /\ op[2] = id
    BY <1>4, <1>7, MadeRows
  <2>2. PICK n : n = Request(op, {}, "none", c.of)
    OBVIOUS
  <2>3. n = [of |-> op, types |-> {}, then |-> "none", via |-> r]
    BY <1>4, <2>2 DEF Request
  <2>4. n \in CallRecords
    BY <2>3 DEF CallRecords
  <2>5. /\ want' = [want EXCEPT ![s] = n] /\ got' = got
        /\ pc' = [pc EXCEPT ![s] = "find"]
    BY <1>3, <1>7, <2>1, <2>2 DEF Answers, Goto
  <2>6. want'[s] = n /\ pc'[s] = "find" /\ got'[s] = got[s]
    BY <1>1, <2>5 DEF TCTypeOK
  <2>7. Names(s, op, r)'
    BY <2>1 DEF Names
  <2>8. Runs(s)'
    <3>1. n.of = op /\ n.via = r /\ n.types = {}
      BY <2>3
    <3> QED
      BY <2>6, <2>7, <3>1 DEF Runs, Names
  <2>9. Answered(s)'
    BY <1>1, <2>6, AnsweredLater DEF Answered
  <2>10. Quiet(s)'
    BY <2>6 DEF Quiet
  <2> QED
    BY <1>1, <2>4, <2>5, <2>8, <2>9, <2>10 DEF TCTypeOK, Pcs, Calling
<1>8. CASE c.then = "none"
  <2>1. PICK a : a = [of |-> c.of, id |-> id, via |-> c.via,
                      types |-> IF pc[s] = "read unkeyed" THEN {} ELSE c.types]
    OBVIOUS
  <2>2. /\ a \in AnswerRecords
        /\ a.of = r /\ a.id = id /\ a.via = c.via
        /\ a.types \subseteq (Seen(s, r).types)'
    BY <1>3, <1>4, <1>5, <2>1 DEF AnswerRecords, Names
  <2>3. /\ want' = [want EXCEPT ![s] = NoCall] /\ pc' = [pc EXCEPT ![s] = "answered"]
        /\ got' = [got EXCEPT ![s] = @ \cup {a}]
    BY <1>3, <1>8, <2>1 DEF Answers, Goto
  <2>4. pc'[s] = "answered" /\ got'[s] = got[s] \cup {a}
    BY <1>1, <2>3 DEF TCTypeOK
  <2>5. /\ (Seen(s, a.of).id)' = a.id /\ a.types \subseteq (Seen(s, a.of).types)'
        /\ Names(s, a.of, a.via)'
    BY <1>6, <2>2
  <2>6. Answered(s)'
    BY <1>1, <2>4, <2>5, AnsweredLater DEF Answered
  <2>7. Runs(s)' /\ Quiet(s)'
    BY <2>4 DEF Runs, Quiet, Calling
  <2>8. NoCall \in CallRecords
    BY DEF NoCall, Request, CallRecords
  <2> QED
    BY <1>1, <2>2, <2>3, <2>6, <2>7, <2>8 DEF TCTypeOK, Pcs
<1> QED
  BY <1>7, <1>8

----------------------------------------------------------------------------
(* Calls begin *)

\* Nothing changes but what the session wants and how far it is.
LEMMA StartPutStep ==
  ASSUME TCInv, NEW s \in Connectors, NEW c \in CallRecords, UNCHANGED workload,
         c.of \in Rows, c.types # {} => \E t \in TagTypes : c.types = {t},
         Names(s, c.of, c.via), StartPut(s, c)
  PROVE  TCInv'
<1>1. TCTypeOK /\ Local(s) /\ ~deleting
  BY DEF TCInv, StartPut
<1>2. /\ pc' = [pc EXCEPT ![s] = "find"] /\ want' = [want EXCEPT ![s] = c]
      /\ UNCHANGED <<row, next, mine, held, got, known, span, deleting, put>>
  BY DEF StartPut, Goto
<1>3. TCTypeOK'
  BY <1>1, <1>2 DEF TCTypeOK, Pcs, Calling
<1>4. pc'[s] = "find" /\ want'[s] = c
  BY <1>1, <1>2 DEF TCTypeOK
<1>5. \A r : Seen(s, r)' = Seen(s, r) /\ Exists(s, r)' = Exists(s, r)
  BY <1>2 DEF Seen, Exists
<1>6. Grows(s)' /\ Holds(s)' /\ Quiet(s)'
  BY <1>1, <1>2, <1>4, <1>5 DEF Local, Grows, Holds, Quiet
<1>7. Runs(s)' /\ Answered(s)'
  BY <1>1, <1>2, <1>4, <1>5 DEF Local, Runs, Answered, Names
<1>8. \A t \in Connectors \ {s} : Same(t) /\ held'[s] \cap held[t] = {}
  BY <1>1, <1>2 DEF TCTypeOK, Same, TCInv, Apart
<1> QED
  BY <1>1, <1>2, <1>3, <1>6, <1>7, <1>8, LocalStep DEF Local

LEMMA PutTypedStep ==
  ASSUME TCInv, NEW s \in Connectors, PutTyped(s), UNCHANGED workload
  PROVE  TCInv'
<1>1. PICK c \in workload.typed :
        StartPut(s, Request(c[1], c[2], "none", <<>>))
  BY DEF PutTyped
<1>2. c[1] \in Rows /\ \E t \in TagTypes : c[2] = {t}
  BY <1>1, WorkloadsAssumption DEF TCInv, TCTypeOK
<1>3. PICK n : n = Request(c[1], c[2], "none", <<>>)
  OBVIOUS
<1>4. n \in CallRecords /\ n.of = c[1] /\ n.types = c[2] /\ n.via = <<>>
  BY <1>2, <1>3 DEF Request, CallRecords
<1>5. StartPut(s, n)
  BY <1>1, <1>3 DEF StartPut
<1>6. Names(s, n.of, n.via)
  BY <1>4 DEF Names
<1> QED
  BY <1>2, <1>4, <1>5, <1>6, StartPutStep

LEMMA PutOperationStep ==
  ASSUME TCInv, NEW s \in Connectors, PutOperation(s), UNCHANGED workload
  PROVE  TCInv'
<1>1. PICK v \in workload.services, m \in SpanNames :
        StartPut(s, Request(ServiceTag(v), {}, m, <<>>))
  BY DEF PutOperation
<1>2. v \in Services
  BY <1>1, WorkloadsAssumption DEF TCInv, TCTypeOK
<1>3. PICK r \in Rows : r = ServiceTag(v)
  BY <1>2, MadeRows
<1>4. PICK n : n = Request(r, {}, m, <<>>)
  OBVIOUS
<1>5. n \in CallRecords /\ n.of = r /\ n.types = {} /\ n.via = <<>>
  BY <1>4 DEF Request, CallRecords
<1>6. StartPut(s, n)
  BY <1>1, <1>3, <1>4 DEF StartPut
<1>7. Names(s, n.of, n.via)
  BY <1>5 DEF Names
<1> QED
  BY <1>5, <1>6, <1>7, StartPutStep

LEMMA PutSchemaUrlStep ==
  ASSUME TCInv, NEW s \in Connectors, PutSchemaUrl(s), UNCHANGED workload
  PROVE  TCInv'
<1>1. PICK u \in workload.urls : StartPut(s, Request(SchemaUrl(u), {}, "none", <<>>))
  BY DEF PutSchemaUrl
<1>2. u \in Urls
  BY <1>1, WorkloadsAssumption DEF TCInv, TCTypeOK
<1>3. PICK r \in Rows : r = SchemaUrl(u)
  BY <1>2, MadeRows
<1>4. PICK n : n = Request(r, {}, "none", <<>>)
  OBVIOUS
<1>5. n \in CallRecords /\ n.of = r /\ n.types = {} /\ n.via = <<>>
  BY <1>4 DEF Request, CallRecords
<1>6. StartPut(s, n)
  BY <1>1, <1>3, <1>4 DEF StartPut
<1>7. Names(s, n.of, n.via)
  BY <1>5 DEF Names
<1> QED
  BY <1>5, <1>6, <1>7, StartPutStep

\* A url that the caller knows, from this transaction or an earlier one, has its id.
LEMMA PutInstrumentationLibStep ==
  ASSUME TCInv, NEW s \in Connectors, PutInstrumentationLib(s), UNCHANGED workload
  PROVE  TCInv'
<1>1. PICK l \in Libs, u \in workload.urls, a \in known[s] \cup got[s] :
        /\ a.of = SchemaUrl(u)
        /\ StartPut(s, Request(Library(a.id, l), {}, "none", a.of))
  BY DEF PutInstrumentationLib
<1>2. a \in AnswerRecords
  BY <1>1 DEF TCInv, TCTypeOK
<1>3. a.of \in Rows /\ a.id \in RowIds
  BY <1>2 DEF AnswerRecords
<1>4. PICK r \in Rows : r = Library(a.id, l) /\ r[2] = a.id
  BY <1>1, <1>3, MadeRows
<1>5. PICK n : n = Request(r, {}, "none", a.of)
  OBVIOUS
<1>6. n \in CallRecords /\ n.of = r /\ n.types = {} /\ n.via = a.of
  BY <1>3, <1>5 DEF Request, CallRecords
<1>7. StartPut(s, n)
  BY <1>1, <1>4, <1>5 DEF StartPut
<1>8. Seen(s, a.of).id = a.id
  <2>1. CASE a \in got[s]
    BY <2>1 DEF TCInv, Local, Answered
  <2>2. CASE a \in known[s]
    <3>1. row[a.of].id = a.id
      BY <2>2 DEF TCInv, IdsResolve
    <3> QED
      BY <1>3, <3>1, IdPositive DEF TCInv, Local, Grows, Seen
  <2> QED
    BY <1>1, <2>1, <2>2
<1>9. Names(s, n.of, n.via)
  BY <1>3, <1>4, <1>6, <1>8 DEF Names
<1> QED
  BY <1>6, <1>7, <1>9, StartPutStep

----------------------------------------------------------------------------
(* Statements of a call *)

\* A session that keeps its rows, and those it sees, sees them later.
LEMMA SeenAsBefore ==
  ASSUME TCTypeOK, NEW s \in Connectors, row' = row, mine'[s] = mine[s]
  PROVE  /\ Later(s)
         /\ \A r : Seen(s, r)' = Seen(s, r) /\ Exists(s, r)' = Exists(s, r)
BY DEF Later, Seen, Exists

\* Holding one more row, which the session sees and nobody else holds.
LEMMA HoldStep ==
  ASSUME TCInv, NEW s \in Connectors, NEW r \in Rows, Exists(s, r), Free(s, r), Hold(s, r),
         row' = row, mine' = mine
  PROVE  /\ held' \in [Connectors -> SUBSET Rows]
         /\ Grows(s)' /\ Holds(s)'
         /\ \A t \in Connectors \ {s} : held'[t] = held[t] /\ held'[s] \cap held[t] = {}
<1>1. TCTypeOK /\ Grows(s) /\ Holds(s)
  BY DEF TCInv, Local
<1>2. held' = [held EXCEPT ![s] = held[s] \cup {r}]
  BY DEF Hold
<1>3. held'[s] = held[s] \cup {r} /\ \A t \in Connectors \ {s} : held'[t] = held[t]
  BY <1>1, <1>2 DEF TCTypeOK
<1>4. held' \in [Connectors -> SUBSET Rows]
  BY <1>1, <1>2 DEF TCTypeOK
<1>5. Grows(s)'
  BY <1>1, <1>3 DEF Grows
<1>6. Holds(s)'
  BY <1>1, <1>3, SeenAsBefore DEF Holds
<1>7. \A t \in Connectors \ {s} : held'[s] \cap held[t] = {}
  BY <1>3 DEF TCInv, Apart, Free
<1> QED
  BY <1>3, <1>4, <1>5, <1>6, <1>7

\* Writing a version of a row with its id and more types, or the first with a new id.
LEMMA WriteStep ==
  ASSUME TCInv, NEW s \in Connectors, NEW r \in Rows, NEW new \in RowRecords, new.id # 0,
         \A t \in Connectors \ {s} : r \notin held[t],
         Hold(s, r), Write(s, r, new), row' = row,
         Exists(s, r) => new.id = Seen(s, r).id /\ Seen(s, r).types \subseteq new.types
  PROVE  /\ held' \in [Connectors -> SUBSET Rows]
         /\ mine' \in [Connectors -> [Rows -> RowRecords]]
         /\ Grows(s)' /\ Holds(s)' /\ Later(s) /\ Seen(s, r)' = new
         /\ \A t \in Connectors \ {s} :
              mine'[t] = mine[t] /\ held'[t] = held[t] /\ held'[s] \cap held[t] = {}
<1>1. TCTypeOK /\ Grows(s) /\ Holds(s) /\ NoRowHasNoTypes
  BY DEF TCInv, Local
<1>2. held' = [held EXCEPT ![s] = held[s] \cup {r}]
  BY DEF Hold
<1>3. held'[s] = held[s] \cup {r} /\ \A t \in Connectors \ {s} : held'[t] = held[t]
  BY <1>1, <1>2 DEF TCTypeOK
<1>4. mine' = [mine EXCEPT ![s] = [mine[s] EXCEPT ![r] = new]]
  BY DEF Write
<1>5. /\ mine'[s] = [mine[s] EXCEPT ![r] = new]
      /\ \A t \in Connectors \ {s} : mine'[t] = mine[t]
  BY <1>1, <1>4 DEF TCTypeOK
<1>6. mine'[s][r] = new /\ \A q \in Rows \ {r} : mine'[s][q] = mine[s][q]
  BY <1>1, <1>5 DEF TCTypeOK
<1>7. Seen(s, r)' = new
  BY <1>6 DEF Seen
<1>8. \A q \in Rows \ {r} : Seen(s, q)' = Seen(s, q)
  BY <1>6 DEF Seen
<1>9. Later(s)
  BY <1>7, <1>8 DEF Later
<1>10. Grows(s)'
  <2> SUFFICES ASSUME NEW q \in Rows, (mine[s][q].id)' # 0
               PROVE  /\ q \in held'[s]
                      /\ row[q].types \subseteq (mine[s][q].types)'
                      /\ row[q].id # 0 => row[q].id = (mine[s][q].id)'
    BY DEF Grows
  <2>1. CASE q # r
    BY <1>1, <1>3, <1>6, <2>1 DEF Grows
  <2>2. CASE q = r
    <3>1. CASE mine[s][r].id # 0
      <4>1. Seen(s, r) = mine[s][r] /\ Exists(s, r)
        BY <3>1 DEF Seen, Exists
      <4> QED
        BY <1>1, <1>3, <1>6, <2>2, <3>1, <4>1 DEF Grows
    <3>2. CASE mine[s][r].id = 0 /\ row[r].id # 0
      <4>1. Seen(s, r) = row[r] /\ Exists(s, r)
        BY <3>2 DEF Seen, Exists
      <4> QED
        BY <1>3, <1>6, <2>2, <4>1
    <3>3. CASE row[r].id = 0
      BY <1>1, <1>3, <1>6, <2>2, <3>3 DEF NoRowHasNoTypes
    <3> QED
      BY <3>1, <3>2, <3>3
  <2> QED
    BY <2>1, <2>2
<1>11. Holds(s)'
  <2> SUFFICES ASSUME NEW q \in held'[s] PROVE Exists(s, q)'
    BY DEF Holds
  <2>1. CASE q = r
    BY <1>7, <2>1 DEF Exists
  <2>2. CASE q # r
    <3>1. q \in held[s] /\ q \in Rows
      BY <1>1, <1>3, <2>2 DEF TCTypeOK
    <3>2. Exists(s, q)
      BY <1>1, <3>1 DEF Holds
    <3> QED
      BY <1>8, <2>2, <3>1, <3>2 DEF Exists
  <2> QED
    BY <2>1, <2>2
<1>12. \A t \in Connectors \ {s} : held'[s] \cap held[t] = {}
  BY <1>3 DEF TCInv, Apart
<1>13. /\ held' \in [Connectors -> SUBSET Rows]
       /\ mine' \in [Connectors -> [Rows -> RowRecords]]
  BY <1>1, <1>2, <1>4 DEF TCTypeOK
<1> QED
  BY <1>3, <1>5, <1>7, <1>9, <1>10, <1>11, <1>12, <1>13

\* What the call of a session is about.
LEMMA RunningCall ==
  ASSUME TCInv, NEW s \in Connectors, pc[s] \in Calling
  PROVE  /\ TCTypeOK /\ Local(s) /\ ~deleting
         /\ want[s] \in CallRecords /\ want[s].of \in Rows
<1>1. TCTypeOK /\ Local(s)
  BY DEF TCInv
<1>2. want[s] \in CallRecords /\ want[s].of \in Rows
  BY <1>1 DEF TCTypeOK, Local, Runs
<1>3. ~deleting
  BY DEF TCInv, Deletion, Calling
<1> QED
  BY <1>1, <1>2, <1>3

\* A type among those of the row, or one of the call's: a call comes with one.
LEMMA OneType ==
  ASSUME NEW A, NEW B, B # {} => \E t \in TagTypes : B = {t}, A \cap B # {}
  PROVE  B \subseteq A
OBVIOUS

\* A call that goes on to its next statement and changes no row.
LEMMA NextStatement ==
  ASSUME TCInv, NEW s \in Connectors, pc[s] \in Calling,
         NEW p \in {"insert", "read unkeyed"}, Goto(s, p),
         UNCHANGED <<workload, row, next, mine, held, want, got, known, span, deleting, put>>
  PROVE  TCInv'
<1>1. TCTypeOK /\ Local(s) /\ ~deleting /\ want[s].of \in Rows
  BY RunningCall
<1>2. pc' = [pc EXCEPT ![s] = p] /\ pc'[s] = p /\ p \in Pcs
  BY <1>1 DEF Goto, TCTypeOK, Pcs, Calling
<1>3. TCTypeOK'
  BY <1>1, <1>2 DEF TCTypeOK
<1>4. Grows(s)' /\ Holds(s)' /\ Quiet(s)'
  BY <1>1, <1>2, SeenAsBefore DEF Local, Grows, Holds, Quiet
<1>5. Runs(s)' /\ Answered(s)'
  <2>1. \A r : Seen(s, r)' = Seen(s, r)
    BY <1>1, SeenAsBefore
  <2>2. \A of, via : Names(s, of, via)' = Names(s, of, via)
    BY DEF Names, Seen
  <2>3. Answered(s)'
    BY <1>1, <2>1, <2>2 DEF Local, Answered
  <2>4. pc'[s] \notin {"read", "update"} /\ want' = want
    BY <1>2
  <2>5. Runs(s)'
    BY <1>1, <2>2, <2>4 DEF Local, Runs
  <2> QED
    BY <2>3, <2>5
<1>6. \A t \in Connectors \ {s} : Same(t) /\ held'[s] \cap held[t] = {}
  BY <1>1, <1>2 DEF TCTypeOK, Same, TCInv, Apart
<1> QED
  BY <1>1, <1>3, <1>4, <1>5, <1>6, LocalStep DEF Local

LEMMA FindStep ==
  ASSUME TCInv, NEW s \in Connectors, Find(s), UNCHANGED workload
  PROVE  TCInv'
<1>1. pc[s] = "find" /\ pc[s] \in Calling
  BY DEF Find, Calling
<1>2. PICK r \in Rows : r = want[s].of
  BY <1>1, RunningCall
<1>3. TCTypeOK /\ Local(s) /\ ~deleting
  BY <1>1, RunningCall
<1>4. UNCHANGED <<workload, row, next, mine, known, span, deleting, put>>
  BY DEF Find
<1>5. Later(s) /\ \A q : Seen(s, q)' = Seen(s, q) /\ Exists(s, q)' = Exists(s, q)
  BY <1>3, <1>4, SeenAsBefore
<1>6. CASE ~Exists(s, r)
  <2>1. Goto(s, "insert") /\ UNCHANGED <<held, want, got>>
    BY <1>2, <1>6 DEF Find
  <2> QED
    BY <1>1, <1>4, <2>1, NextStatement
<1>7. CASE Exists(s, r) /\ ~Typed(s)
  <2>1. Answers(s, Seen(s, r).id) /\ held' = held
    BY <1>2, <1>7 DEF Find
  <2>2. PICK id \in RowIds : id = Seen(s, r).id
    BY <1>3, <1>7, SeenId
  <2>3. want[s].types = {}
    BY <1>7 DEF Typed
  <2>4. /\ Runs(s)' /\ Answered(s)' /\ Quiet(s)'
        /\ want' \in [Connectors -> CallRecords]
        /\ got' \in [Connectors -> SUBSET AnswerRecords]
        /\ pc' \in [Connectors -> Pcs]
    BY <1>1, <1>2, <1>5, <2>1, <2>2, <2>3, AnswersStep
  <2>5. Grows(s)' /\ Holds(s)'
    BY <1>3, <1>4, <1>5, <2>1 DEF Local, Grows, Holds
  <2>6. TCTypeOK'
    BY <1>3, <1>4, <2>1, <2>4 DEF TCTypeOK
  <2>7. \A t \in Connectors \ {s} : Same(t) /\ held'[s] \cap held[t] = {}
    BY <1>3, <1>4, <2>1 DEF TCTypeOK, Same, Answers, Goto, TCInv, Apart
  <2> QED
    BY <1>3, <1>4, <2>4, <2>5, <2>6, <2>7, LocalStep DEF Local
<1>8. CASE Exists(s, r) /\ Typed(s)
  <2>1. Free(s, r) /\ Hold(s, r)
    BY <1>2, <1>8 DEF Find
  <2>2. /\ held' \in [Connectors -> SUBSET Rows] /\ Grows(s)' /\ Holds(s)'
        /\ \A t \in Connectors \ {s} : held'[t] = held[t] /\ held'[s] \cap held[t] = {}
    BY <1>4, <1>8, <2>1, HoldStep
  <2>3. want[s].types # {} => \E t \in TagTypes : want[s].types = {t}
    BY <1>1, <1>3 DEF Local, Runs
  <2>4. CASE Seen(s, r).types \cap want[s].types = {}
    <3>1. Goto(s, "update") /\ UNCHANGED <<want, got>>
      BY <1>2, <1>8, <2>4 DEF Find
    <3>2. pc' = [pc EXCEPT ![s] = "update"] /\ pc'[s] = "update"
      BY <1>3, <3>1 DEF Goto, TCTypeOK
    <3>3. TCTypeOK'
      BY <1>3, <1>4, <2>2, <3>1, <3>2 DEF TCTypeOK, Pcs, Calling
    <3>4. \A of, via : Names(s, of, via)' = Names(s, of, via)
      BY <1>5 DEF Names
    <3>5. Runs(s)'
      BY <1>1, <1>2, <1>3, <1>5, <1>8, <3>1, <3>2, <3>4 DEF Local, Runs
    <3>6. Answered(s)' /\ Quiet(s)'
      BY <1>3, <1>5, <3>1, <3>2, <3>4 DEF Local, Answered, Quiet
    <3>7. \A t \in Connectors \ {s} : Same(t) /\ held'[s] \cap held[t] = {}
      BY <1>3, <1>4, <2>2, <3>1, <3>2 DEF TCTypeOK, Same
    <3> QED
      BY <1>3, <1>4, <2>2, <3>3, <3>5, <3>6, <3>7, LocalStep DEF Local
  <2>5. CASE Seen(s, r).types \cap want[s].types # {}
    <3>1. Answers(s, Seen(s, r).id)
      BY <1>2, <1>8, <2>5 DEF Find
    <3>2. PICK id \in RowIds : id = Seen(s, r).id
      BY <1>3, <1>8, SeenId
    <3>3. want[s].types \subseteq Seen(s, r).types
      BY <2>3, <2>5, OneType
    <3>4. /\ Runs(s)' /\ Answered(s)' /\ Quiet(s)'
          /\ want' \in [Connectors -> CallRecords]
          /\ got' \in [Connectors -> SUBSET AnswerRecords]
          /\ pc' \in [Connectors -> Pcs]
      BY <1>1, <1>2, <1>5, <3>1, <3>2, <3>3, AnswersStep
    <3>5. TCTypeOK'
      BY <1>3, <1>4, <2>2, <3>4 DEF TCTypeOK
    <3>6. \A t \in Connectors \ {s} : Same(t) /\ held'[s] \cap held[t] = {}
      BY <1>3, <1>4, <2>2, <3>1 DEF TCTypeOK, Same, Answers, Goto
    <3> QED
      BY <1>3, <1>4, <2>2, <3>4, <3>5, <3>6, LocalStep DEF Local
  <2> QED
    BY <2>4, <2>5
<1> QED
  BY <1>6, <1>7, <1>8

LEMMA UpdateTypesStep ==
  ASSUME TCInv, NEW s \in Connectors, UpdateTypes(s), UNCHANGED workload
  PROVE  TCInv'
<1>1. pc[s] = "update" /\ pc[s] \in Calling
  BY DEF UpdateTypes, Calling
<1>2. PICK r \in Rows : r = want[s].of
  BY <1>1, RunningCall
<1>3. TCTypeOK /\ Local(s) /\ ~deleting /\ want[s] \in CallRecords
  BY <1>1, RunningCall
<1>4. UNCHANGED <<workload, row, next, known, span, deleting, put>>
  BY DEF UpdateTypes
<1>5. Exists(s, r) /\ Seen(s, r) \in RowRecords
  BY <1>1, <1>2, <1>3, SeenType DEF Local, Runs
<1>6. PICK new : new = [Seen(s, r) EXCEPT !.types = @ \cup want[s].types]
  OBVIOUS
<1>7. /\ new \in RowRecords /\ new.id = Seen(s, r).id
      /\ new.types = Seen(s, r).types \cup want[s].types
  BY <1>3, <1>5, <1>6 DEF RowRecords, CallRecords
<1>8. Free(s, r) /\ Hold(s, r) /\ Write(s, r, new) /\ Answers(s, Seen(s, r).id)
  BY <1>2, <1>6 DEF UpdateTypes, Write
<1>9. /\ held' \in [Connectors -> SUBSET Rows]
      /\ mine' \in [Connectors -> [Rows -> RowRecords]]
      /\ Grows(s)' /\ Holds(s)' /\ Later(s) /\ Seen(s, r)' = new
      /\ \A t \in Connectors \ {s} :
           mine'[t] = mine[t] /\ held'[t] = held[t] /\ held'[s] \cap held[t] = {}
  BY <1>4, <1>5, <1>7, <1>8, WriteStep DEF Free, Exists
<1>10. PICK id \in RowIds : id = Seen(s, r).id
  BY <1>3, <1>5, SeenId
<1>11. (Seen(s, r).id)' = id /\ want[s].types \subseteq (Seen(s, r).types)'
  BY <1>7, <1>9, <1>10
<1>12. /\ Runs(s)' /\ Answered(s)' /\ Quiet(s)'
       /\ want' \in [Connectors -> CallRecords]
       /\ got' \in [Connectors -> SUBSET AnswerRecords]
       /\ pc' \in [Connectors -> Pcs]
  BY <1>1, <1>2, <1>8, <1>9, <1>10, <1>11, AnswersStep
<1>13. TCTypeOK'
  BY <1>3, <1>4, <1>9, <1>12 DEF TCTypeOK
<1>14. \A t \in Connectors \ {s} : Same(t) /\ held'[s] \cap held[t] = {}
  BY <1>3, <1>4, <1>8, <1>9 DEF TCTypeOK, Same, Answers, Goto
<1> QED
  BY <1>3, <1>4, <1>9, <1>12, <1>13, <1>14, LocalStep DEF Local

LEMMA InsertNothingStep ==
  ASSUME TCInv, NEW s \in Connectors, InsertNothing(s), UNCHANGED workload
  PROVE  TCInv'
BY NextStatement DEF InsertNothing, Calling

\* A call comes to its strict read with a row that it sees, in the types it came with.
LEMMA ReadyStep ==
  ASSUME TCInv, NEW s \in Connectors, pc[s] \in Calling, Goto(s, "read"),
         UNCHANGED <<workload, row, want, got, known, span, deleting, put>>,
         next' \in [TableNames -> Nat], held' \in [Connectors -> SUBSET Rows],
         mine' \in [Connectors -> [Rows -> RowRecords]],
         Grows(s)', Holds(s)', Later(s),
         \A t \in Connectors \ {s} :
           mine'[t] = mine[t] /\ held'[t] = held[t] /\ held'[s] \cap held[t] = {},
         NEW r \in Rows, r = want[s].of, Exists(s, r)',
         want[s].types \subseteq (Seen(s, r).types)'
  PROVE  TCInv'
<1>1. TCTypeOK /\ Local(s) /\ ~deleting /\ want[s] \in CallRecords
  BY RunningCall
<1>2. pc' = [pc EXCEPT ![s] = "read"] /\ pc'[s] = "read"
  BY <1>1 DEF Goto, TCTypeOK
<1>3. TCTypeOK'
  BY <1>1, <1>2 DEF TCTypeOK, Pcs, Calling
<1>4. PICK v \in Rows \cup {<<>>} : v = want[s].via
  BY <1>1 DEF CallRecords
<1>5. Names(s, r, v)
  BY <1>1, <1>4 DEF Local, Runs
<1>6. Names(s, r, v)'
  BY <1>1, <1>5, NamesLater
<1>7. want'[s].of = r /\ want'[s].via = v /\ want'[s].types = want[s].types
  BY <1>4
<1>8. want[s].types # {} => \E t \in TagTypes : want[s].types = {t}
  BY <1>1 DEF Local, Runs
<1>9. Runs(s)'
  BY <1>2, <1>6, <1>7, <1>8 DEF Runs, Names, Exists
<1>10. Answered(s)' /\ Quiet(s)'
  BY <1>1, <1>2, AnsweredLater DEF Local, Answered, Quiet
<1>11. \A t \in Connectors \ {s} : Same(t) /\ held'[s] \cap held[t] = {}
  BY <1>1, <1>2 DEF TCTypeOK, Same
<1> QED
  BY <1>1, <1>3, <1>9, <1>10, <1>11, LocalStep DEF Local

\* The sequence of a table goes on, whatever becomes of the id.
LEMMA TakesIdStep ==
  ASSUME TCTypeOK, NEW t \in TableNames, TakesId(t)
  PROVE  next' \in [TableNames -> Nat] /\ next[t] + 1 \in RowIds
BY MaxIdAssumption DEF TCTypeOK, TakesId, RowIds

LEMMA InsertConflictStep ==
  ASSUME TCInv, NEW s \in Connectors, InsertConflict(s), UNCHANGED workload
  PROVE  TCInv'
<1>1. pc[s] = "insert" /\ pc[s] \in Calling
  BY DEF InsertConflict, Calling
<1>2. PICK r \in Rows : r = want[s].of
  BY <1>1, RunningCall
<1>3. TCTypeOK /\ Local(s) /\ ~deleting /\ want[s] \in CallRecords
  BY <1>1, RunningCall
<1>4. /\ UNCHANGED <<row, want, got, known, span, deleting, put>>
      /\ Exists(s, r) /\ TakesId(r[1]) /\ Goto(s, "read")
  BY <1>2 DEF InsertConflict
<1>5. next' \in [TableNames -> Nat]
  BY <1>3, <1>4, TableOf, TakesIdStep
<1>6. CASE ~Typed(s)
  <2>1. UNCHANGED <<mine, held>> /\ want[s].types = {}
    BY <1>6 DEF InsertConflict, Typed
  <2>2. Later(s) /\ \A q : Seen(s, q)' = Seen(s, q) /\ Exists(s, q)' = Exists(s, q)
    BY <1>3, <1>4, <2>1, SeenAsBefore
  <2>3. Grows(s)' /\ Holds(s)'
    BY <1>3, <1>4, <2>1, <2>2 DEF Local, Grows, Holds
  <2>4. \A t \in Connectors \ {s} :
           mine'[t] = mine[t] /\ held'[t] = held[t] /\ held'[s] \cap held[t] = {}
    BY <2>1 DEF TCInv, Apart
  <2>5. held' \in [Connectors -> SUBSET Rows] /\ mine' \in [Connectors -> [Rows -> RowRecords]]
    BY <1>3, <2>1 DEF TCTypeOK
  <2>6. Exists(s, r)' /\ want[s].types \subseteq (Seen(s, r).types)'
    BY <1>4, <2>1, <2>2
  <2> QED
    BY <1>1, <1>2, <1>4, <1>5, <2>2, <2>3, <2>4, <2>5, <2>6, ReadyStep
<1>7. CASE Typed(s)
  <2>1. DoUpdate(s, r)
    BY <1>2, <1>7 DEF InsertConflict
  <2>2. Free(s, r) /\ Hold(s, r)
    BY <2>1 DEF DoUpdate
  <2>3. Seen(s, r) \in RowRecords
    BY <1>3, SeenType
  <2>4. CASE Seen(s, r).types \cap want[s].types = {}
    <3>1. PICK new : new = [Seen(s, r) EXCEPT !.types = @ \cup want[s].types]
      OBVIOUS
    <3>2. /\ new \in RowRecords /\ new.id = Seen(s, r).id /\ new.id # 0
          /\ new.types = Seen(s, r).types \cup want[s].types
      BY <1>3, <1>4, <2>3, <3>1 DEF RowRecords, CallRecords, Exists
    <3>3. Write(s, r, new)
      BY <2>1, <2>4, <3>1 DEF DoUpdate, Write
    <3>4. /\ held' \in [Connectors -> SUBSET Rows]
          /\ mine' \in [Connectors -> [Rows -> RowRecords]]
          /\ Grows(s)' /\ Holds(s)' /\ Later(s) /\ Seen(s, r)' = new
          /\ \A t \in Connectors \ {s} :
               mine'[t] = mine[t] /\ held'[t] = held[t] /\ held'[s] \cap held[t] = {}
      BY <1>4, <2>2, <3>2, <3>3, WriteStep DEF Free
    <3>5. Exists(s, r)' /\ want[s].types \subseteq (Seen(s, r).types)'
      BY <3>2, <3>4 DEF Exists
    <3> QED
      BY <1>1, <1>2, <1>4, <1>5, <3>4, <3>5, ReadyStep
  <2>5. CASE Seen(s, r).types \cap want[s].types # {}
    <3>1. mine' = mine
      BY <2>1, <2>5 DEF DoUpdate
    <3>2. /\ held' \in [Connectors -> SUBSET Rows] /\ Grows(s)' /\ Holds(s)'
          /\ \A t \in Connectors \ {s} : held'[t] = held[t] /\ held'[s] \cap held[t] = {}
      BY <1>4, <2>2, <3>1, HoldStep
    <3>3. Later(s) /\ \A q : Seen(s, q)' = Seen(s, q) /\ Exists(s, q)' = Exists(s, q)
      BY <1>3, <1>4, <3>1, SeenAsBefore
    <3>4. want[s].types # {} => \E t \in TagTypes : want[s].types = {t}
      BY <1>1, <1>3 DEF Local, Runs
    <3>5. want[s].types \subseteq Seen(s, r).types
      BY <2>5, <3>4, OneType
    <3>6. Exists(s, r)' /\ want[s].types \subseteq (Seen(s, r).types)'
      BY <1>4, <3>3, <3>5
    <3>7. mine' \in [Connectors -> [Rows -> RowRecords]]
      BY <1>3, <3>1 DEF TCTypeOK
    <3> QED
      BY <1>1, <1>2, <1>4, <1>5, <3>1, <3>2, <3>3, <3>6, <3>7, ReadyStep
  <2> QED
    BY <2>4, <2>5
<1> QED
  BY <1>6, <1>7

LEMMA InsertNewStep ==
  ASSUME TCInv, NEW s \in Connectors, InsertNew(s), UNCHANGED workload
  PROVE  TCInv'
<1>1. pc[s] = "insert" /\ pc[s] \in Calling
  BY DEF InsertNew, Calling
<1>2. PICK r \in Rows : r = want[s].of
  BY <1>1, RunningCall
<1>3. TCTypeOK /\ Local(s) /\ ~deleting /\ want[s] \in CallRecords
  BY <1>1, RunningCall
<1>4. PICK id : id = next[r[1]] + 1
  OBVIOUS
<1>5. PICK new : new = [id |-> id, types |-> IF r[1] = "tag" /\ ~Typed(s) THEN {"resource"}
                                              ELSE want[s].types]
  OBVIOUS
<1>6. /\ UNCHANGED <<row, known, span, deleting, put>>
      /\ ~Exists(s, r) /\ NobodyInserts(s, r) /\ TakesId(r[1])
      /\ Hold(s, r) /\ Write(s, r, new)
      /\ IF Typed(s) THEN Goto(s, "read") /\ UNCHANGED <<want, got>> ELSE Answers(s, id)
  BY <1>2, <1>4, <1>5 DEF InsertNew, Write
<1>7. next' \in [TableNames -> Nat] /\ id \in RowIds
  BY <1>3, <1>4, <1>6, TableOf, TakesIdStep
<1>8. /\ new.id = id /\ want[s].types \subseteq new.types /\ new.id # 0
      /\ new \in RowRecords
  BY <1>3, <1>5, <1>7, IdPositive, NamesAssumption DEF RowRecords, CallRecords, Typed
<1>9. \A t \in Connectors \ {s} : r \notin held[t]
  <2> SUFFICES ASSUME NEW t \in Connectors \ {s}, r \in held[t] PROVE FALSE
    OBVIOUS
  <2>1. Exists(t, r)
    BY DEF TCInv, Local, Holds
  <2>2. mine[t][r].id = 0
    BY <1>6 DEF NobodyInserts
  <2> QED
    BY <1>6, <2>1, <2>2 DEF Exists, Seen
<1>10. /\ held' \in [Connectors -> SUBSET Rows]
       /\ mine' \in [Connectors -> [Rows -> RowRecords]]
       /\ Grows(s)' /\ Holds(s)' /\ Later(s) /\ Seen(s, r)' = new
       /\ \A t \in Connectors \ {s} :
            mine'[t] = mine[t] /\ held'[t] = held[t] /\ held'[s] \cap held[t] = {}
  BY <1>6, <1>8, <1>9, WriteStep
<1>11. (Seen(s, r).id)' = id /\ Exists(s, r)' /\ want[s].types \subseteq (Seen(s, r).types)'
  BY <1>8, <1>10 DEF Exists
<1>12. CASE Typed(s)
  BY <1>1, <1>2, <1>6, <1>7, <1>10, <1>11, <1>12, ReadyStep
<1>13. CASE ~Typed(s)
  <2>1. Answers(s, id)
    BY <1>6, <1>13
  <2>2. /\ Runs(s)' /\ Answered(s)' /\ Quiet(s)'
        /\ want' \in [Connectors -> CallRecords]
        /\ got' \in [Connectors -> SUBSET AnswerRecords]
        /\ pc' \in [Connectors -> Pcs]
    BY <1>1, <1>2, <1>7, <1>10, <1>11, <2>1, AnswersStep
  <2>3. TCTypeOK'
    BY <1>3, <1>6, <1>7, <1>10, <2>2 DEF TCTypeOK
  <2>4. \A t \in Connectors \ {s} : Same(t) /\ held'[s] \cap held[t] = {}
    BY <1>3, <1>6, <1>10, <2>1 DEF TCTypeOK, Same, Answers, Goto
  <2> QED
    BY <1>3, <1>6, <1>10, <2>2, <2>3, <2>4, LocalStep DEF Local
<1> QED
  BY <1>12, <1>13

LEMMA ReadStep ==
  ASSUME TCInv, NEW s \in Connectors, Read(s), UNCHANGED workload
  PROVE  TCInv'
<1>1. pc[s] \in {"read", "read unkeyed"} /\ pc[s] \in Calling
  BY DEF Read, Calling
<1>2. PICK r \in Rows : r = want[s].of
  BY <1>1, RunningCall
<1>3. TCTypeOK /\ Local(s) /\ ~deleting
  BY <1>1, RunningCall
<1>4. /\ UNCHANGED <<row, next, mine, held, known, span, deleting, put>>
      /\ Exists(s, r) /\ Answers(s, Seen(s, r).id)
  BY <1>2 DEF Read, SeenNow
<1>5. Later(s) /\ \A q : Seen(s, q)' = Seen(s, q) /\ Exists(s, q)' = Exists(s, q)
  BY <1>3, <1>4, SeenAsBefore
<1>6. PICK id \in RowIds : id = Seen(s, r).id
  BY <1>3, <1>4, SeenId
<1>7. pc[s] = "read unkeyed" \/ want[s].types \subseteq Seen(s, r).types
  BY <1>1, <1>2, <1>3 DEF Local, Runs
<1>8. /\ Runs(s)' /\ Answered(s)' /\ Quiet(s)'
      /\ want' \in [Connectors -> CallRecords]
      /\ got' \in [Connectors -> SUBSET AnswerRecords]
      /\ pc' \in [Connectors -> Pcs]
  BY <1>1, <1>2, <1>4, <1>5, <1>6, <1>7, AnswersStep
<1>9. Grows(s)' /\ Holds(s)'
  BY <1>3, <1>4, <1>5 DEF Local, Grows, Holds
<1>10. TCTypeOK'
  BY <1>3, <1>4, <1>8 DEF TCTypeOK
<1>11. \A t \in Connectors \ {s} : Same(t) /\ held'[s] \cap held[t] = {}
  BY <1>3, <1>4 DEF TCTypeOK, Same, Answers, Goto, TCInv, Apart
<1> QED
  BY <1>3, <1>4, <1>8, <1>9, <1>10, <1>11, LocalStep DEF Local

----------------------------------------------------------------------------
(* Transactions and connectors *)

\* After the end of its transaction a session has nothing but what it knows.
LEMMA EndsEffect ==
  ASSUME TCTypeOK, NEW s \in Connectors, NEW to \in {"idle", "out"}, Ends(s, to)
  PROVE  /\ pc'[s] = to /\ mine'[s] = NoRows /\ held'[s] = {} /\ got'[s] = {}
         /\ pc' \in [Connectors -> Pcs] /\ want' \in [Connectors -> CallRecords]
         /\ mine' \in [Connectors -> [Rows -> RowRecords]]
         /\ held' \in [Connectors -> SUBSET Rows]
         /\ got' \in [Connectors -> SUBSET AnswerRecords]
         /\ Grows(s)' /\ Holds(s)' /\ Runs(s)' /\ Answered(s)'
         /\ \A t \in Connectors \ {s} :
              /\ mine'[t] = mine[t] /\ held'[t] = held[t] /\ pc'[t] = pc[t]
              /\ want'[t] = want[t] /\ got'[t] = got[t]
<1>1. /\ pc' = [pc EXCEPT ![s] = to] /\ mine' = [mine EXCEPT ![s] = NoRows]
      /\ held' = [held EXCEPT ![s] = {}] /\ want' = [want EXCEPT ![s] = NoCall]
      /\ got' = [got EXCEPT ![s] = {}]
  BY DEF Ends, Goto
<1>2. NoRows \in [Rows -> RowRecords] /\ \A r \in Rows : NoRows[r].id = 0
  BY MaxIdAssumption DEF NoRows, NoRow, RowRecords
<1>3. NoCall \in CallRecords
  BY DEF NoCall, Request, CallRecords
<1>4. pc'[s] = to /\ mine'[s] = NoRows /\ held'[s] = {} /\ got'[s] = {}
  BY <1>1 DEF TCTypeOK
<1>5. /\ pc' \in [Connectors -> Pcs] /\ want' \in [Connectors -> CallRecords]
      /\ mine' \in [Connectors -> [Rows -> RowRecords]]
      /\ held' \in [Connectors -> SUBSET Rows]
      /\ got' \in [Connectors -> SUBSET AnswerRecords]
  BY <1>1, <1>2, <1>3 DEF TCTypeOK, Pcs
<1>6. Grows(s)' /\ Holds(s)' /\ Answered(s)'
  BY <1>2, <1>4 DEF Grows, Holds, Answered
<1>7. Runs(s)'
  BY <1>4 DEF Runs, Calling
<1>8. \A t \in Connectors \ {s} :
         /\ mine'[t] = mine[t] /\ held'[t] = held[t] /\ pc'[t] = pc[t]
         /\ want'[t] = want[t] /\ got'[t] = got[t]
  BY <1>1 DEF TCTypeOK
<1> QED
  BY <1>4, <1>5, <1>6, <1>7, <1>8

\* A transaction is rolled back.
LEMMA RollbackStep ==
  ASSUME TCInv, NEW s \in Connectors, pc[s] # "out", Ends(s, "idle"),
         UNCHANGED <<workload, row, known, span, deleting, put>>,
         next' \in [TableNames -> Nat]
  PROVE  TCInv'
<1>1. TCTypeOK /\ ~deleting
  BY DEF TCInv, Deletion
<1>2. /\ pc'[s] = "idle" /\ mine'[s] = NoRows /\ held'[s] = {} /\ got'[s] = {}
      /\ pc' \in [Connectors -> Pcs] /\ want' \in [Connectors -> CallRecords]
      /\ mine' \in [Connectors -> [Rows -> RowRecords]]
      /\ held' \in [Connectors -> SUBSET Rows]
      /\ got' \in [Connectors -> SUBSET AnswerRecords]
      /\ Grows(s)' /\ Holds(s)' /\ Runs(s)' /\ Answered(s)'
      /\ \A t \in Connectors \ {s} :
           /\ mine'[t] = mine[t] /\ held'[t] = held[t] /\ pc'[t] = pc[t]
           /\ want'[t] = want[t] /\ got'[t] = got[t]
  BY <1>1, EndsEffect
<1>3. TCTypeOK'
  BY <1>1, <1>2 DEF TCTypeOK
<1>4. Local(s)'
  BY <1>2 DEF Local, Quiet
<1>5. \A t \in Connectors \ {s} : Same(t) /\ held'[s] \cap held[t] = {}
  BY <1>2 DEF Same
<1> QED
  BY <1>1, <1>3, <1>4, <1>5, LocalStep

LEMMA FailedPutStep ==
  ASSUME TCInv, NEW s \in Connectors, UNCHANGED workload,
         RaiseNoRows(s) \/ RaiseDuplicateKey(s) \/ AbortPuts(s)
  PROVE  TCInv'
<1>1. CASE RaiseNoRows(s)
  <2>1. next' \in [TableNames -> Nat] /\ pc[s] # "out"
    BY <1>1 DEF RaiseNoRows, TCInv, TCTypeOK
  <2> QED
    BY <1>1, <2>1, RollbackStep DEF RaiseNoRows
<1>2. CASE RaiseDuplicateKey(s)
  <2>1. pc[s] = "insert" /\ pc[s] \in Calling
    BY <1>2 DEF RaiseDuplicateKey, Calling
  <2>2. want[s].of \in Rows /\ TCTypeOK
    BY <2>1, RunningCall
  <2>3. next' \in [TableNames -> Nat]
    BY <1>2, <2>2, TableOf, TakesIdStep DEF RaiseDuplicateKey
  <2> QED
    BY <1>2, <2>1, <2>3, RollbackStep DEF RaiseDuplicateKey
<1>3. CASE AbortPuts(s)
  <2>1. next' \in [TableNames -> Nat] /\ pc[s] # "out"
    BY <1>3 DEF AbortPuts, TCInv, TCTypeOK
  <2> QED
    BY <1>3, <2>1, RollbackStep DEF AbortPuts
<1> QED
  BY <1>1, <1>2, <1>3

LEMMA DisconnectStep ==
  ASSUME TCInv, NEW s \in Connectors, Disconnect(s), UNCHANGED workload
  PROVE  TCInv'
<1>1. TCTypeOK /\ ~deleting
  BY DEF TCInv, Deletion, Disconnect
<1>2. /\ Ends(s, "out") /\ known' = [known EXCEPT ![s] = {}]
      /\ UNCHANGED <<workload, row, next, span, deleting, put>>
  BY DEF Disconnect
<1>3. /\ pc'[s] = "out" /\ mine'[s] = NoRows /\ held'[s] = {} /\ got'[s] = {}
      /\ pc' \in [Connectors -> Pcs] /\ want' \in [Connectors -> CallRecords]
      /\ mine' \in [Connectors -> [Rows -> RowRecords]]
      /\ held' \in [Connectors -> SUBSET Rows]
      /\ got' \in [Connectors -> SUBSET AnswerRecords]
      /\ Grows(s)' /\ Holds(s)' /\ Runs(s)' /\ Answered(s)'
      /\ \A t \in Connectors \ {s} :
           /\ mine'[t] = mine[t] /\ held'[t] = held[t] /\ pc'[t] = pc[t]
           /\ want'[t] = want[t] /\ got'[t] = got[t]
  BY <1>1, <1>2, EndsEffect
<1>4. /\ known'[s] = {} /\ \A t \in Connectors \ {s} : known'[t] = known[t]
      /\ known' \in [Connectors -> SUBSET AnswerRecords]
  BY <1>1, <1>2 DEF TCTypeOK
<1>5. TCTypeOK'
  BY <1>1, <1>2, <1>3, <1>4 DEF TCTypeOK
<1>6. Local(s)'
  BY <1>3, <1>4 DEF Local, Quiet
<1>7. \A t \in Connectors \ {s} : Same(t) /\ held'[s] \cap held[t] = {}
  BY <1>3, <1>4 DEF Same
<1> QED
  BY <1>1, <1>2, <1>4, <1>5, <1>6, <1>7, LocalStep

LEMMA ConnectStep ==
  ASSUME TCInv, NEW s \in Connectors, Connect(s), UNCHANGED workload
  PROVE  TCInv'
<1>1. TCTypeOK /\ ~deleting /\ Local(s) /\ pc[s] = "out"
  BY DEF TCInv, Connect
<1>2. /\ pc' = [pc EXCEPT ![s] = "idle"]
      /\ UNCHANGED <<workload, row, next, mine, held, want, got, known, span, deleting, put>>
  BY DEF Connect, Goto
<1>3. pc'[s] = "idle" /\ TCTypeOK'
  BY <1>1, <1>2 DEF TCTypeOK, Pcs
<1>4. mine[s] = NoRows /\ held[s] = {} /\ got[s] = {}
  BY <1>1 DEF Local, Quiet
<1>5. Quiet(s)' /\ Runs(s)' /\ Answered(s)' /\ Holds(s)'
  BY <1>2, <1>3, <1>4 DEF Quiet, Runs, Answered, Holds, Calling
<1>6. Grows(s)'
  BY <1>1, <1>2 DEF Local, Grows
<1>7. \A t \in Connectors \ {s} : Same(t) /\ held'[s] \cap held[t] = {}
  BY <1>1, <1>2, <1>4 DEF Same, TCTypeOK
<1> QED
  BY <1>1, <1>2, <1>3, <1>5, <1>6, <1>7, LocalStep DEF Local

\* The commit makes a session's versions the rows of all; who did not hold them sees
\* the same ids and no type less.
LEMMA CommitPutsStep ==
  ASSUME TCInv, NEW s \in Connectors, CommitPuts(s), UNCHANGED workload
  PROVE  TCInv'
<1>1. TCTypeOK /\ Local(s) /\ ~deleting /\ Apart /\ NoRowHasNoTypes
  BY DEF TCInv, Deletion, CommitPuts
<1>2. /\ Ends(s, "idle") /\ row' = [r \in Rows |-> Seen(s, r)]
      /\ known' = [known EXCEPT ![s] = @ \cup got[s]]
      /\ put' = put \cup {<<a.of, a.types>> : a \in got[s]}
      /\ UNCHANGED <<workload, next, span, deleting>>
  BY DEF CommitPuts
<1>3. /\ pc'[s] = "idle" /\ mine'[s] = NoRows /\ held'[s] = {} /\ got'[s] = {}
      /\ pc' \in [Connectors -> Pcs] /\ want' \in [Connectors -> CallRecords]
      /\ mine' \in [Connectors -> [Rows -> RowRecords]]
      /\ held' \in [Connectors -> SUBSET Rows]
      /\ got' \in [Connectors -> SUBSET AnswerRecords]
      /\ Grows(s)' /\ Holds(s)' /\ Runs(s)' /\ Answered(s)'
      /\ \A t \in Connectors \ {s} :
           /\ mine'[t] = mine[t] /\ held'[t] = held[t] /\ pc'[t] = pc[t]
           /\ want'[t] = want[t] /\ got'[t] = got[t]
  BY <1>1, <1>2, EndsEffect
<1>4. \A a \in got[s] : /\ a \in AnswerRecords /\ a.of \in Rows /\ a.id \in RowIds
                        /\ a.types \subseteq TagTypes /\ a.via \in Rows \cup {<<>>}
  BY <1>1 DEF TCTypeOK, AnswerRecords
<1>5. /\ known'[s] = known[s] \cup got[s]
      /\ \A t \in Connectors \ {s} : known'[t] = known[t]
      /\ known' \in [Connectors -> SUBSET AnswerRecords]
  BY <1>1, <1>2 DEF TCTypeOK
<1>6. row' \in [Rows -> RowRecords] /\ \A r \in Rows : row'[r] = Seen(s, r)
  BY <1>1, <1>2, SeenType
<1>7. put' \subseteq Rows \X SUBSET TagTypes
  BY <1>1, <1>2, <1>4 DEF TCTypeOK
<1>8. TCTypeOK'
  BY <1>1, <1>2, <1>3, <1>5, <1>6, <1>7 DEF TCTypeOK
<1>9. \A r \in Rows : /\ row[r].types \subseteq row'[r].types
                      /\ row[r].id # 0 => row'[r].id = row[r].id
  BY <1>1, <1>6 DEF Local, Grows, Seen
<1>10. NoRowHasNoTypes'
  <2> SUFFICES ASSUME NEW r \in Rows, row'[r].id = 0 PROVE row'[r].types = {}
    BY DEF NoRowHasNoTypes
  <2>1. Seen(s, r).id = 0
    BY <1>6
  <2>2. Seen(s, r) = row[r]
    BY <2>1 DEF Seen
  <2> QED
    BY <1>1, <1>6, <2>1, <2>2 DEF NoRowHasNoTypes
<1>11. Apart'
  BY <1>1, <1>3 DEF Apart
<1>12. Deletion'
  BY <1>1, <1>2 DEF Deletion
<1>13. TypesKept'
  <2> SUFFICES ASSUME NEW p \in put' PROVE p[2] \subseteq row'[p[1]].types
    BY DEF TypesKept
  <2>1. CASE p \in put
    BY <1>1, <1>9, <2>1 DEF TCInv, TypesKept, TCTypeOK
  <2>2. CASE p \in {<<a.of, a.types>> : a \in got[s]}
    <3>1. PICK a \in got[s] : p = <<a.of, a.types>>
      BY <2>2
    <3> QED
      BY <1>1, <1>4, <1>6, <3>1 DEF Local, Answered
  <2> QED
    BY <1>2, <2>1, <2>2
<1>14. IdsResolve'
  <2> SUFFICES ASSUME NEW a \in (UNION {known'[t] : t \in Connectors}) \cup span
               PROVE  /\ row'[a.of].id = a.id
                      /\ a.via # <<>> => row'[a.via].id = a.of[2]
    BY <1>2 DEF IdsResolve
  <2>1. CASE a \in (UNION {known[t] : t \in Connectors}) \cup span
    <3>1. a \in AnswerRecords
      <4>1. CASE a \in span
        BY <1>1, <4>1 DEF TCTypeOK
      <4>2. ASSUME NEW t \in Connectors, a \in known[t] PROVE a \in AnswerRecords
        BY <1>1, <4>2 DEF TCTypeOK
      <4>3. a \in span \/ \E t \in Connectors : a \in known[t]
        BY <2>1
      <4> QED
        BY <4>1, <4>2, <4>3
    <3>2. /\ a.of \in Rows /\ a.id \in RowIds /\ a.via \in Rows \cup {<<>>}
          /\ a.via # <<>> => a.of[2] \in RowIds
      BY <3>1 DEF AnswerRecords
    <3>3. row[a.of].id = a.id /\ (a.via # <<>> => row[a.via].id = a.of[2])
      BY <2>1 DEF TCInv, IdsResolve
    <3>4. row'[a.of].id = a.id
      <4>1. row[a.of].id # 0
        BY <3>2, <3>3, IdPositive
      <4> QED
        BY <1>9, <3>2, <3>3, <4>1
    <3>5. ASSUME a.via # <<>> PROVE row'[a.via].id = a.of[2]
      <4>1. a.via \in Rows /\ row[a.via].id = a.of[2]
        BY <3>2, <3>3, <3>5
      <4>2. row[a.via].id # 0
        BY <3>2, <3>5, <4>1, IdPositive
      <4> QED
        BY <1>9, <4>1, <4>2
    <3> QED
      BY <3>4, <3>5
  <2>2. CASE a \in got[s]
    <3>1. /\ Seen(s, a.of).id = a.id /\ Names(s, a.of, a.via)
          /\ a.of \in Rows /\ a.via \in Rows \cup {<<>>}
      BY <1>1, <1>4, <2>2 DEF Local, Answered
    <3> QED
      BY <1>6, <3>1 DEF Names
  <2> QED
    BY <1>5, <2>1, <2>2
<1>15. ASSUME NEW t \in Connectors \ {s} PROVE Local(t)'
  <2>1. Local(t)
    BY DEF TCInv
  <2>2. /\ mine'[t] = mine[t] /\ held'[t] = held[t] /\ pc'[t] = pc[t]
        /\ want'[t] = want[t] /\ got'[t] = got[t] /\ known'[t] = known[t]
    BY <1>3, <1>5
  <2>3. Later(t)
    BY <1>9, <2>2 DEF Later, Seen, Exists
  <2>4. Grows(t)'
    <3> SUFFICES ASSUME NEW r \in Rows, mine[t][r].id # 0
                 PROVE  /\ r \in held[t]
                        /\ row'[r].types \subseteq mine[t][r].types
                        /\ row'[r].id # 0 => row'[r].id = mine[t][r].id
      BY <2>2 DEF Grows
    <3>1. r \in held[t]
      BY <2>1 DEF Local, Grows
    <3>2. r \notin held[s]
      BY <1>1, <3>1 DEF Apart
    <3>3. mine[s][r].id = 0
      BY <1>1, <3>2 DEF Local, Grows
    <3>4. row'[r] = row[r]
      BY <1>6, <3>3 DEF Seen
    <3> QED
      BY <2>1, <3>1, <3>4 DEF Local, Grows
  <2>5. Holds(t)'
    <3> SUFFICES ASSUME NEW r \in held[t] PROVE Exists(t, r)'
      BY <2>2 DEF Holds
    <3> QED
      BY <1>1, <2>1, <2>3 DEF Local, Holds, Later, Exists, TCTypeOK
  <2>6. Answered(t)'
    BY <1>1, <2>1, <2>2, <2>3, AnsweredLater DEF Local, Answered
  <2>7. Quiet(t)'
    BY <2>1, <2>2 DEF Local, Quiet
  <2>8. CASE pc[t] \notin Calling
    <3>1. Runs(t)'
      BY <2>2, <2>8 DEF Runs, Calling
    <3> QED
      BY <2>4, <2>5, <2>6, <2>7, <3>1 DEF Local
  <2>9. CASE pc[t] \in Calling
    <3>1. want[t] \in CallRecords
      BY <2>9, RunningCall
    <3>2. PICK r \in Rows : r = want[t].of
      BY <2>9, RunningCall
    <3>3. PICK v \in Rows \cup {<<>>} : v = want[t].via
      BY <3>1 DEF CallRecords
    <3>4. Names(t, r, v)
      BY <2>1, <2>9, <3>2, <3>3 DEF Local, Runs
    <3>5. Names(t, r, v)'
      BY <1>1, <2>3, <3>4, NamesLater
    <3>6. pc[t] = "read" \/ pc[t] = "update" => Exists(t, r) /\ Exists(t, r)'
      BY <2>1, <2>3, <3>2 DEF Local, Runs, Later, Exists
    <3>7. pc[t] = "read" => want[t].types \subseteq (Seen(t, r).types)'
      BY <2>1, <2>3, <3>2, <3>6 DEF Local, Runs, Later
    <3>8. want[t].types # {} => \E x \in TagTypes : want[t].types = {x}
      BY <2>1, <2>9 DEF Local, Runs
    <3>9. Runs(t)'
      BY <2>2, <3>2, <3>3, <3>5, <3>6, <3>7, <3>8 DEF Runs, Names, Exists
    <3> QED
      BY <2>4, <2>5, <2>6, <2>7, <3>9 DEF Local
  <2> QED
    BY <2>8, <2>9
<1>16. Local(s)'
  BY <1>3 DEF Local, Quiet
<1> QED
  BY <1>8, <1>10, <1>11, <1>12, <1>13, <1>14, <1>15, <1>16 DEF TCInv

\* The span gets an answer that its connector keeps.
LEMMA IngestSpanStep ==
  ASSUME TCInv, NEW s \in Connectors, IngestSpan(s), UNCHANGED workload
  PROVE  TCInv'
<1>1. TCTypeOK /\ ~deleting
  BY DEF TCInv, IngestSpan
<1>2. PICK a \in known[s] : span' = {a}
  BY DEF IngestSpan
<1>3. UNCHANGED <<workload, row, next, mine, held, pc, want, got, known, deleting, put>>
  BY DEF IngestSpan
<1>4. TCTypeOK'
  BY <1>1, <1>2, <1>3 DEF TCTypeOK
<1>5. ASSUME NEW t \in Connectors PROVE Local(t)'
  BY <1>3, OthersKeep DEF Same
<1>6. Apart' /\ Deletion' /\ NoRowHasNoTypes' /\ TypesKept'
  BY <1>3 DEF TCInv, Apart, Deletion, NoRowHasNoTypes, TypesKept
<1>7. IdsResolve'
  <2>1. a \in UNION {known[t] : t \in Connectors}
    OBVIOUS
  <2> QED
    BY <1>2, <1>3, <2>1 DEF TCInv, IdsResolve
<1> QED
  BY <1>4, <1>5, <1>6, <1>7 DEF TCInv

----------------------------------------------------------------------------
(* delete_all_traces *)

LEMMA DeleteAllTracesStep ==
  ASSUME TCInv, DeleteAllTraces, UNCHANGED workload
  PROVE  TCInv'
<1>1. TCTypeOK /\ \A s \in Connectors : pc[s] = "out"
  BY DEF TCInv, DeleteAllTraces, LockTaken
<1>2. /\ deleting' = TRUE /\ next' = [next EXCEPT !["tag_key"] = 1]
      /\ UNCHANGED <<workload, row, mine, held, pc, want, got, known, span, put>>
  BY DEF DeleteAllTraces
<1>3. TCTypeOK'
  BY <1>1, <1>2 DEF TCTypeOK
<1>4. ASSUME NEW t \in Connectors PROVE Local(t)'
  BY <1>2, OthersKeep DEF Same
<1>5. Apart' /\ Deletion' /\ NoRowHasNoTypes' /\ TypesKept' /\ IdsResolve'
  BY <1>1, <1>2 DEF TCInv, Apart, Deletion, NoRowHasNoTypes, TypesKept, IdsResolve
<1> QED
  BY <1>3, <1>4, <1>5 DEF TCInv

LEMMA RollbackDeleteStep ==
  ASSUME TCInv, RollbackDelete, UNCHANGED workload
  PROVE  TCInv'
<1>1. TCTypeOK
  BY DEF TCInv
<1>2. /\ deleting' = FALSE
      /\ UNCHANGED <<workload, row, next, mine, held, pc, want, got, known, span, put>>
  BY DEF RollbackDelete
<1>3. TCTypeOK'
  BY <1>1, <1>2 DEF TCTypeOK
<1>4. ASSUME NEW t \in Connectors PROVE Local(t)'
  BY <1>2, OthersKeep DEF Same
<1>5. Apart' /\ Deletion' /\ NoRowHasNoTypes' /\ TypesKept' /\ IdsResolve'
  BY <1>2 DEF TCInv, Apart, Deletion, NoRowHasNoTypes, TypesKept, IdsResolve
<1> QED
  BY <1>3, <1>4, <1>5 DEF TCInv

\* Nobody is connected, so nobody has or keeps anything of the rows that go.
LEMMA CommitDeleteStep ==
  ASSUME TCInv, CommitDelete, UNCHANGED workload
  PROVE  TCInv'
<1>1. TCTypeOK /\ \A s \in Connectors : pc[s] = "out"
  BY DEF TCInv, CommitDelete, Deletion
<1>2. /\ deleting' = FALSE
      /\ row' = [r \in Rows |-> IF IsStandard(r) THEN row[r] ELSE NoRow]
      /\ next' = [t \in TableNames |-> IF t = "tag_key" THEN next[t] ELSE 0]
      /\ span' = {} /\ put' = {p \in put : IsStandard(p[1])}
      /\ UNCHANGED <<workload, mine, held, pc, want, got, known>>
  BY DEF CommitDelete
<1>3. \A s \in Connectors : /\ mine[s] = NoRows /\ held[s] = {} /\ got[s] = {}
                            /\ known[s] = {}
  BY <1>1 DEF TCInv, Local, Quiet
<1>4. NoRow \in RowRecords /\ NoRow.types = {}
  BY MaxIdAssumption DEF NoRow, RowRecords
<1>5. /\ row' \in [Rows -> RowRecords]
      /\ \A r \in Rows : row'[r] = IF IsStandard(r) THEN row[r] ELSE NoRow
  BY <1>1, <1>2, <1>4 DEF TCTypeOK
<1>6. next' \in [TableNames -> Nat] /\ put' \subseteq Rows \X SUBSET TagTypes
  BY <1>1, <1>2 DEF TCTypeOK
<1>7. TCTypeOK'
  BY <1>1, <1>2, <1>5, <1>6 DEF TCTypeOK
<1>8. NoRowHasNoTypes'
  BY <1>4, <1>5 DEF TCInv, NoRowHasNoTypes
<1>9. TypesKept'
  <2> SUFFICES ASSUME NEW p \in put, IsStandard(p[1]) PROVE p[2] \subseteq row'[p[1]].types
    BY <1>2 DEF TypesKept
  <2>1. p[1] \in Rows /\ p[2] \subseteq row[p[1]].types
    BY <1>1 DEF TCInv, TypesKept, TCTypeOK
  <2> QED
    BY <1>5, <2>1
<1>10. IdsResolve' /\ Apart' /\ Deletion'
  BY <1>2, <1>3 DEF IdsResolve, Apart, Deletion
<1>11. ASSUME NEW t \in Connectors PROVE Local(t)'
  <2>1. mine'[t] = NoRows /\ held'[t] = {} /\ got'[t] = {} /\ pc'[t] = "out" /\ known'[t] = {}
    BY <1>1, <1>2, <1>3
  <2>2. \A r \in Rows : NoRows[r].id = 0
    BY DEF NoRows, NoRow
  <2> QED
    BY <2>1, <2>2 DEF Local, Grows, Holds, Runs, Answered, Quiet, Calling
<1> QED
  BY <1>7, <1>8, <1>9, <1>10, <1>11 DEF TCInv

----------------------------------------------------------------------------
(* Theorems *)

LEMMA StutterHolds == TCInv /\ UNCHANGED tcVars => TCInv'
<1> SUFFICES ASSUME TCInv, UNCHANGED tcVars PROVE TCInv'
  OBVIOUS
<1>1. UNCHANGED <<workload, row, next, mine, held, pc, want, got, known, span, deleting, put>>
  BY DEF tcVars
<1>2. TCTypeOK'
  BY <1>1 DEF TCInv, TCTypeOK
<1>3. ASSUME NEW t \in Connectors PROVE Local(t)'
  BY <1>1, OthersKeep DEF Same
<1>4. Apart' /\ Deletion' /\ NoRowHasNoTypes' /\ TypesKept' /\ IdsResolve'
  BY <1>1 DEF TCInv, Apart, Deletion, NoRowHasNoTypes, TypesKept, IdsResolve
<1> QED
  BY <1>2, <1>3, <1>4 DEF TCInv

LEMMA StepHolds == TCInv /\ [TCNext]_tcVars => TCInv'
<1> SUFFICES ASSUME TCInv, TCNext PROVE TCInv'
  BY StutterHolds
<1>1. UNCHANGED workload
  BY DEF TCNext
<1>2. ASSUME NEW s \in Connectors,
             PutTyped(s) \/ PutOperation(s) \/ PutSchemaUrl(s) \/ PutInstrumentationLib(s)
      PROVE  TCInv'
  BY <1>1, <1>2, PutTypedStep, PutOperationStep, PutSchemaUrlStep, PutInstrumentationLibStep
<1>3. ASSUME NEW s \in Connectors, Find(s) \/ UpdateTypes(s) \/ Read(s)
      PROVE  TCInv'
  BY <1>1, <1>3, FindStep, UpdateTypesStep, ReadStep
<1>4. ASSUME NEW s \in Connectors, InsertNothing(s) \/ InsertConflict(s) \/ InsertNew(s)
      PROVE  TCInv'
  BY <1>1, <1>4, InsertNothingStep, InsertConflictStep, InsertNewStep
<1>5. ASSUME NEW s \in Connectors, RaiseNoRows(s) \/ RaiseDuplicateKey(s) \/ AbortPuts(s)
      PROVE  TCInv'
  BY <1>1, <1>5, FailedPutStep
<1>6. ASSUME NEW s \in Connectors,
             CommitPuts(s) \/ Connect(s) \/ Disconnect(s) \/ IngestSpan(s)
      PROVE  TCInv'
  BY <1>1, <1>6, CommitPutsStep, ConnectStep, DisconnectStep, IngestSpanStep
<1>7. CASE DeleteAllTraces \/ CommitDelete \/ RollbackDelete
  BY <1>1, <1>7, DeleteAllTracesStep, CommitDeleteStep, RollbackDeleteStep
<1> QED
  BY <1>2, <1>3, <1>4, <1>5, <1>6, <1>7 DEF TCNext

\* The inductive invariant: whatever connectors find, create, commit or roll back, a
\* session's versions grow the rows it alone holds.
THEOREM TCInvariant == TCSpec => []TCInv
<1>1. TCInit => TCInv
  BY InitHolds
<1>2. TCInv /\ [TCNext]_tcVars => TCInv'
  BY StepHolds
<1> QED
  BY <1>1, <1>2, PTL DEF TCSpec

\* No committed put_tag_key or put_tag loses its types to another session's
\* (ON CONFLICT DO UPDATE adds to what was committed meanwhile).
THEOREM TypesKeptHolds == TCSpec => []TypesKept
<1>1. TCInv => TypesKept
  BY DEF TCInv
<1> QED
  BY <1>1, TCInvariant, PTL

\* The ids of put_operation and the others, kept by connectors or in spans, are the
\* ids of what they were given for, over every delete_all_traces.
THEOREM IdsResolveHolds == TCSpec => []IdsResolve
<1>1. TCInv => IdsResolve
  BY DEF TCInv
<1> QED
  BY <1>1, TCInvariant, PTL

\* The SELECT INTO STRICT after the INSERT of put_tag_key and put_tag finds its row.
THEOREM StrictFindsRowHolds == TCSpec => []StrictFindsRow
<1>1. TCInv => StrictFindsRow
  BY DEF TCInv, Local, Runs, StrictFindsRow, SeenNow, Calling
<1> QED
  BY <1>1, TCInvariant, PTL

=============================================================================
