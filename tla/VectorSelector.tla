--------------------------- MODULE VectorSelector ---------------------------
(***************************************************************************)
(* The aggregate vector_selector (src/src/aggregates/vector_selector.rs)   *)
(* as PostgreSQL's executor runs it: rows arrive in any order, in one      *)
(* process or spread over parallel workers whose partial states are        *)
(* serialized, sent to the leader and combined there in any order.  The    *)
(* executor itself (which row is read by whom, and when) is external.      *)
(***************************************************************************)
EXTENDS SqlValues, Integers, FiniteSets

CONSTANTS Workers,        \* processes that scan a part of the table; the
                          \* leader's own scan is one of them
          Leader,         \* process that holds the final state
          Tables,         \* contents of the table: row -> [time, val]
          Queries,        \* [start, end, width, lookback]; ms for the last two
          MaxAlloc        \* 0x3FFFFFFF in type_builder.rs

ASSUME VSAssumption ==
  /\ USECS_PER_MS \in Nat \ {0}
  /\ MaxAlloc \in Nat
  /\ Leader \notin Workers /\ Workers # {}
  /\ \A q \in Queries :
       /\ q \in [start : Int, end : Int, width : Nat, lookback : Nat]
       /\ q.start <= q.end
  /\ \A tb \in Tables : \A r \in DOMAIN tb : tb[r].time \in Int /\ tb[r] # None

VARIABLES rows,      \* the table the statement reads
          query,     \* arguments of the aggregate
          parallel,  \* whether the plan has partial aggregation
          unread,    \* rows no process has read
          trans,     \* process -> [ctx, sel]: the transition state
          partial,   \* worker -> [sent, bytes]: what it sent to the leader
          combined,  \* workers whose bytes the leader has combined
          scan,      \* the loop of results(): [pos, ts, last, vals]
          answer,    \* what the statement returned
          seen       \* history: process -> rows its state stands for

vsVars == <<rows, query, parallel, unread, trans, partial, combined, scan, answer, seen>>

Processes == Workers \cup {Leader}

----------------------------------------------------------------------------
(* struct VectorSelector *)

NumBuckets(q) ==
  IF q.width = 0 THEN 1 ELSE ((q.end - q.start) \div (q.width * USECS_PER_MS)) + 1

LastBucketMaxTime(q) ==
  IF q.width = 0 THEN q.end ELSE q.end - ((q.end - q.start) % (q.width * USECS_PER_MS))

New(q) ==
  [first |-> q.start, last |-> LastBucketMaxTime(q), end |-> q.end,
   width |-> q.width, lookback |-> q.lookback,
   elements |-> [b \in 0..(NumBuckets(q) - 1) |-> None]]

GetBucket(s, t) ==
  LET offset == t - s.first
      width  == s.width * USECS_PER_MS
  IN  IF t <= s.first THEN 0
      ELSE IF offset % width = 0 THEN offset \div width ELSE (offset \div width) + 1

\* error!(), or the panic of a division by a width of 0.
InsertFails(s, t) ==
  \/ t > s.end
  \/ /\ t <= s.last
     /\ \/ t < s.first - s.lookback * USECS_PER_MS
        \/ t > s.first /\ s.width = 0

\* (mutant) whatever comes last stays.
LastCome(mine, other) == IF other # None THEN other ELSE mine

Later(mine, other) ==
  IF other # None /\ (mine = None \/ other.time > mine.time) THEN other ELSE mine

Insert(s, x) ==
  IF x.time > s.last THEN s
  ELSE [s EXCEPT !.elements[GetBucket(s, x.time)] = Later(@, x)]

Incompatible(s1, s2) ==
  \/ s1.first # s2.first \/ s1.last # s2.last \/ s1.end # s2.end
  \/ s1.width # s2.width \/ s1.lookback # s2.lookback
  \/ DOMAIN s1.elements # DOMAIN s2.elements

Combine(s1, s2) ==
  [s1 EXCEPT !.elements =
     [b \in DOMAIN s1.elements |-> Later(s1.elements[b], s2.elements[b])]]

----------------------------------------------------------------------------
(* Memory contexts and the bytes sent between processes.  What is allocated *)
(* while a row is processed is gone when the next one is fetched.           *)

NoState == [ctx |-> "none", sel |-> None]

InTupleContext(s) == [ctx |-> "tuple", sel |-> s]

InAggregateContext(s) == [ctx |-> "aggregate", sel |-> s]

\* Header and version bytes, five integers and a length, then one tag byte
\* for each bucket and sixteen more for each one that holds a sample.
SerializedSize(s) ==
  54 + Cardinality(DOMAIN s.elements)
     + 16 * Cardinality({b \in DOMAIN s.elements : s.elements[b] # None})

NotSent == [sent |-> "no", bytes |-> None]

SentNull == [sent |-> "null", bytes |-> None]

Serialize(s) == [sent |-> "bytes", bytes |-> [version |-> 1, serialization |-> 1, state |-> s]]

Unreadable(bytes) == bytes.version # 1 \/ bytes.serialization # 1

\* Called for each row the leader receives: outside the aggregate's context.
Deserialize(bytes) == InTupleContext(bytes.state)

CombineFails(state1, state2) ==
  state1 # NoState /\ state2 # NoState /\ Incompatible(state1.sel, state2.sel)

\* (mutant) the arms with one state return it as it is.
CombineReusing(state1, state2) ==
  IF state1 = NoState THEN state2
  ELSE IF state2 = NoState THEN state1
  ELSE InAggregateContext(Combine(state1.sel, state2.sel))

CombineInner(state1, state2) ==
  IF state1 = NoState /\ state2 = NoState THEN NoState
  ELSE IF state1 = NoState THEN InAggregateContext(state2.sel)
  ELSE IF state2 = NoState THEN InAggregateContext(state1.sel)
  ELSE InAggregateContext(Combine(state1.sel, state2.sel))

\* The loop of results() has not begun.
NoScan == [pos |-> -1, ts |-> 0, last |-> None, vals |-> <<>>]

----------------------------------------------------------------------------

VSInit ==
  /\ rows = <<>> /\ query = Null /\ parallel = FALSE
  /\ unread = {}
  /\ trans = [p \in Processes |-> NoState]
  /\ partial = [w \in Workers |-> NotSent]
  /\ combined = {}
  /\ scan = NoScan
  /\ answer = [kind |-> "idle"]
  /\ seen = [p \in Processes |-> {}]

\* The planner may choose partial aggregation: the aggregate is parallel safe
\* and has a combine function and a pair of serialization functions.
Start ==
  /\ answer.kind = "idle"
  /\ rows' \in Tables
  /\ query' \in Queries
  /\ parallel' \in BOOLEAN
  /\ unread' = DOMAIN rows'
  /\ answer' = [kind |-> "open"]
  /\ UNCHANGED <<trans, partial, combined, scan, seen>>

Abort ==
  /\ answer' = [kind |-> "error"]
  /\ UNCHANGED <<rows, query, parallel, unread, trans, partial, combined, scan, seen>>

Reads(p) == IF parallel THEN p \in Workers /\ partial[p] = NotSent ELSE p = Leader

StateOf(p) == IF trans[p] = NoState THEN InAggregateContext(New(query)) ELSE trans[p]

Transition(p, r) ==
  /\ answer.kind = "open" /\ Reads(p) /\ r \in unread
  /\ ~InsertFails(StateOf(p).sel, rows[r].time)
  /\ trans' = [trans EXCEPT
       ![p] = [StateOf(p) EXCEPT !.sel = Insert(StateOf(p).sel, rows[r])]]
  /\ unread' = unread \ {r}
  /\ seen' = [seen EXCEPT ![p] = @ \cup {r}]
  /\ UNCHANGED <<rows, query, parallel, partial, combined, scan, answer>>

TransitionError(p, r) ==
  /\ answer.kind = "open" /\ Reads(p) /\ r \in unread
  /\ InsertFails(StateOf(p).sel, rows[r].time)
  /\ Abort

\* A worker is through when there is no row left, or none for it: the rows it has
\* no part of are read by a worker that is not yet through.
Through(w) ==
  /\ partial[w] = NotSent
  /\ unread = {} \/ \E v \in Workers \ {w} : partial[v] = NotSent

\* The functions are strict: a worker that read nothing sends NULL.
SendPartial(w) ==
  /\ answer.kind = "open" /\ parallel /\ Through(w)
  /\ trans[w] # NoState => SerializedSize(trans[w].sel) <= MaxAlloc
  /\ partial' = [partial EXCEPT
       ![w] = IF trans[w] = NoState THEN SentNull ELSE Serialize(trans[w].sel)]
  /\ UNCHANGED <<rows, query, parallel, unread, trans, combined, scan, answer, seen>>

SerializeError(w) ==
  /\ answer.kind = "open" /\ parallel /\ Through(w)
  /\ trans[w] # NoState /\ SerializedSize(trans[w].sel) > MaxAlloc
  /\ Abort

Received(w) == IF partial[w] = SentNull THEN NoState ELSE Deserialize(partial[w].bytes)

ReceiveFails(w) ==
  \/ partial[w] # SentNull /\ Unreadable(partial[w].bytes)
  \/ CombineFails(trans[Leader], Received(w))

CombinePartial(w) ==
  /\ answer.kind = "open" /\ scan = NoScan
  /\ partial[w] # NotSent /\ w \notin combined
  /\ ~ReceiveFails(w)
  /\ trans' = [trans EXCEPT ![Leader] = CombineInner(@, Received(w))]
  /\ combined' = combined \cup {w}
  /\ seen' = [seen EXCEPT ![Leader] = @ \cup seen[w]]
  /\ UNCHANGED <<rows, query, parallel, unread, partial, scan, answer>>

Gathered == IF parallel THEN combined = Workers ELSE unread = {}

FinalNull ==
  /\ answer.kind = "open" /\ scan = NoScan /\ Gathered
  /\ trans[Leader] = NoState
  /\ answer' = [kind |-> "null"]
  /\ UNCHANGED <<rows, query, parallel, unread, trans, partial, combined, scan, seen>>

Final ==
  /\ answer.kind = "open" /\ scan = NoScan /\ Gathered
  /\ trans[Leader] # NoState
  /\ scan' = [pos |-> 0, ts |-> trans[Leader].sel.first, last |-> None, vals |-> <<>>]
  /\ UNCHANGED <<rows, query, parallel, unread, trans, partial, combined, answer, seen>>

\* One turn of the loop of results(): an empty bucket repeats the last value.
Push(s) ==
  LET content == s.elements[scan.pos]
      x       == IF content = None THEN scan.last ELSE content
  IN  IF /\ x # None
         /\ x.time >= scan.ts - s.lookback * USECS_PER_MS
         /\ x.val # STALE_NAN
      THEN x.val ELSE Null

\* (mutant) a staleness marker does not replace the last value.
LastFresh(s) ==
  IF s.elements[scan.pos] = None \/ s.elements[scan.pos].val = STALE_NAN
  THEN scan.last ELSE s.elements[scan.pos]

LastContent(s) ==
  IF s.elements[scan.pos] = None THEN scan.last ELSE s.elements[scan.pos]

Result ==
  LET s == trans[Leader].sel
  IN  /\ answer.kind = "open" /\ scan # NoScan
      /\ scan.pos \in DOMAIN s.elements
      /\ scan' = [pos  |-> scan.pos + 1,
                  ts   |-> scan.ts + s.width * USECS_PER_MS,
                  last |-> LastContent(s),
                  vals |-> [i \in 0..scan.pos |->
                              IF i = scan.pos THEN Push(s) ELSE scan.vals[i]]]
      /\ UNCHANGED <<rows, query, parallel, unread, trans, partial, combined, answer, seen>>

Return ==
  /\ answer.kind = "open" /\ scan # NoScan
  /\ scan.pos \notin DOMAIN trans[Leader].sel.elements
  /\ answer' = [kind |-> "vector", values |-> scan.vals]
  /\ UNCHANGED <<rows, query, parallel, unread, trans, partial, combined, scan, seen>>

VSNext ==
  \/ Start
  \/ \E p \in Processes : \E r \in unread : Transition(p, r) \/ TransitionError(p, r)
  \/ \E w \in Workers : SendPartial(w) \/ SerializeError(w) \/ CombinePartial(w)
  \/ FinalNull \/ Final \/ Result \/ Return

VSSpec == VSInit /\ [][VSNext]_vsVars

----------------------------------------------------------------------------
(* Properties *)

Buckets(q) == 0..(NumBuckets(q) - 1)

\* The rows of the table tb, among those in rs, that fall into a bucket.
InBucket(tb, s, b, rs) ==
  {r \in rs : tb[r].time <= s.last /\ GetBucket(s, tb[r].time) = b}

IsLatest(tb, r, rs) == r \in rs /\ \A o \in rs : tb[o].time <= tb[r].time

\* A bucket holds a latest sample among the rows that fall into it.
HoldsLatest(tb, s, rs) ==
  \A b \in DOMAIN s.elements :
    \/ InBucket(tb, s, b, rs) = {} /\ s.elements[b] = None
    \/ \E r \in rs : s.elements[b] = tb[r] /\ IsLatest(tb, r, InBucket(tb, s, b, rs))

SameQuery(q, s) == s = [New(q) EXCEPT !.elements = [b \in Buckets(q) |-> s.elements[b]]]

Represents(tb, q, s, rs) == SameQuery(q, s) /\ HoldsLatest(tb, s, rs)

\* Whatever the order of rows, of workers and of combinations, the state of
\* each process, and the bytes a worker sent, stand for exactly the rows seen:
\* insert and combine (vector_selector.rs) lose no row and favour none but
\* the latest of its bucket.
StatesRepresentRows ==
  /\ \A p \in Processes :
       IF trans[p] = NoState THEN seen[p] = {}
       ELSE Represents(rows, query, trans[p].sel, seen[p])
  /\ \A w \in Workers : partial[w].sent = "bytes" =>
       Represents(rows, query, partial[w].bytes.state, seen[w])

\* No transition state lives in memory that is released with the current row:
\* the deserialized state is copied by vector_selector_combine_inner.
StateOutlivesTuple ==
  \A p \in Processes : trans[p] # NoState => trans[p].ctx = "aggregate"

Vectors == INSTANCE InstantVectors

\* The aggregate returns an instant vector of the table, NULL for no rows, and
\* fails only for a row out of range or a state too large to be sent.
ReturnsInstantVector == Vectors!IVSpec

=============================================================================
