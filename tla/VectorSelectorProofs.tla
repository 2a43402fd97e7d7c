------------------------ MODULE VectorSelectorProofs ------------------------
(***************************************************************************)
(* The aggregate vector_selector, for every table, query and number of     *)
(* workers: transition states stand for the rows seen, live long enough,   *)
(* and what the statement returns is an instant vector.                    *)
(*                                                                         *)
(* The argument has three layers: lemmas on the buckets of one selector    *)
(* (constant formulas), the invariant VSInv of the executor's steps, and   *)
(* the refinement of InstantVectors.  The last needs arithmetic (the       *)
(* bucket of a time is at most i exactly when the time is at most the      *)
(* instant that bucket i ends at) and the invariant Progress: which rows   *)
(* are seen, that they are in range, what the loop of results() computed.  *)
(***************************************************************************)
EXTENDS VectorSelector, FiniteSetTheorems, TLAPS

----------------------------------------------------------------------------
(* One selector *)

LEMMA Fields ==
  ASSUME NEW q, NEW s, SameQuery(q, s)
  PROVE  /\ s.first = q.start /\ s.last = LastBucketMaxTime(q) /\ s.end = q.end
         /\ s.width = q.width /\ s.lookback = q.lookback
         /\ s.elements = [b \in Buckets(q) |-> s.elements[b]]
         /\ DOMAIN s.elements = Buckets(q)
  BY DEF SameQuery, New

LEMMA SameBuckets ==
  ASSUME NEW q, NEW s, SameQuery(q, s)
  PROVE  \A t : GetBucket(s, t) = GetBucket(New(q), t)
  BY Fields DEF GetBucket, New

LEMMA NewIsEmpty ==
  ASSUME NEW tb, NEW q
  PROVE  Represents(tb, q, New(q), {})
  <1> DEFINE e == [b \in Buckets(q) |-> None]
  <1>1. SameQuery(q, New(q))
    <2>1. New(q).elements = e
      BY DEF New, Buckets
    <2>2. [b \in Buckets(q) |-> New(q).elements[b]] = e
      BY <2>1
    <2>3. New(q) = [New(q) EXCEPT !.elements = e]
      BY <2>1 DEF New
    <2> QED BY <2>2, <2>3 DEF SameQuery
  <1>2. HoldsLatest(tb, New(q), {})
    BY DEF HoldsLatest, New, InBucket
  <1> QED BY <1>1, <1>2 DEF Represents

\* insert keeps, for each bucket, a latest row.
LEMMA InsertRepresents ==
  ASSUME NEW tb, NEW q, NEW s, NEW rs, NEW r,
         Represents(tb, q, s, rs),
         rs \subseteq DOMAIN tb, r \in DOMAIN tb, s.last \in Int,
         \A o \in DOMAIN tb : tb[o].time \in Int /\ tb[o] # None
  PROVE  Represents(tb, q, Insert(s, tb[r]), rs \cup {r})
  <1> DEFINE n == Insert(s, tb[r])
             g == GetBucket(s, tb[r].time)
             all == rs \cup {r}
  <1>1. SameQuery(q, s) /\ HoldsLatest(tb, s, rs)
    BY DEF Represents
  <1>2. CASE tb[r].time > s.last
    <2>1. n = s
      BY <1>2 DEF Insert
    <2>2. \A b : InBucket(tb, s, b, all) = InBucket(tb, s, b, rs)
      BY <1>2 DEF InBucket
    <2> QED BY <1>1, <2>1, <2>2 DEF Represents, HoldsLatest
  <1>3. CASE ~(tb[r].time > s.last)
    <2>1. n = [s EXCEPT !.elements[g] = Later(@, tb[r])]
      BY <1>3 DEF Insert
    <2>2. SameQuery(q, n)
      <3> DEFINE e == [s.elements EXCEPT ![g] = Later(@, tb[r])]
      <3>1. n = [s EXCEPT !.elements = e]
        BY <2>1
      <3>2. s = [New(q) EXCEPT !.elements = s.elements]
        BY <1>1, Fields DEF SameQuery
      <3>3. n = [New(q) EXCEPT !.elements = e]
        <4> HIDE DEF e
        <4> QED BY <3>1, <3>2 DEF New
      <3>4. n.elements = e
        <4> HIDE DEF e
        <4> QED BY <3>3 DEF New
      <3>5. e = [b \in Buckets(q) |-> e[b]]
        BY <1>1, Fields
      <3> HIDE DEF e, n
      <3> QED BY <3>3, <3>4, <3>5 DEF SameQuery
    <2>3. \A t : GetBucket(n, t) = GetBucket(s, t)
      BY <1>1, <2>2, SameBuckets
    <2>4. n.last = s.last /\ DOMAIN n.elements = DOMAIN s.elements
      <3>1. s.last = LastBucketMaxTime(q) /\ DOMAIN s.elements = Buckets(q)
        BY <1>1, Fields
      <3>2. n.last = LastBucketMaxTime(q) /\ DOMAIN n.elements = Buckets(q)
        <4> HIDE DEF n
        <4> QED BY <2>2, Fields
      <3> QED BY <3>1, <3>2
    <2>5. ASSUME NEW b \in DOMAIN s.elements
          PROVE  \/ InBucket(tb, n, b, all) = {} /\ n.elements[b] = None
                 \/ \E o \in all : n.elements[b] = tb[o] /\ IsLatest(tb, o, InBucket(tb, n, b, all))
      <3>1. InBucket(tb, n, b, all) = InBucket(tb, s, b, all)
        BY <2>3, <2>4 DEF InBucket
      <3>2. CASE b # g
        <4>1. InBucket(tb, s, b, all) = InBucket(tb, s, b, rs)
          BY <3>2 DEF InBucket
        <4>2. n.elements[b] = s.elements[b]
          BY <2>1, <3>2
        <4> QED BY <1>1, <3>1, <4>1, <4>2 DEF HoldsLatest
      <3>3. CASE b = g
        <4>1. InBucket(tb, s, b, all) = InBucket(tb, s, b, rs) \cup {r}
          BY <1>3, <3>3 DEF InBucket
        <4>2. n.elements[b] = Later(s.elements[b], tb[r])
          BY <2>1, <3>3
        <4>3. InBucket(tb, s, b, rs) \subseteq rs
          BY DEF InBucket
        <4>4. CASE InBucket(tb, s, b, rs) = {} /\ s.elements[b] = None
          <5>1. n.elements[b] = tb[r]
            BY <4>2, <4>4 DEF Later
          <5>2. InBucket(tb, n, b, all) = {r}
            BY <3>1, <4>1, <4>4
          <5>3. IsLatest(tb, r, {r})
            BY DEF IsLatest
          <5> QED BY <5>1, <5>2, <5>3
        <4>5. ASSUME NEW m \in rs, s.elements[b] = tb[m],
                     IsLatest(tb, m, InBucket(tb, s, b, rs))
              PROVE  \E o \in all : /\ n.elements[b] = tb[o]
                                    /\ IsLatest(tb, o, InBucket(tb, n, b, all))
          <5>1. CASE tb[r].time > tb[m].time
            <6>1. n.elements[b] = tb[r]
              BY <4>2, <4>5, <5>1 DEF Later
            <6>2. IsLatest(tb, r, InBucket(tb, s, b, rs) \cup {r})
              BY <4>3, <4>5, <5>1 DEF IsLatest
            <6>3. IsLatest(tb, r, InBucket(tb, n, b, all))
              BY <3>1, <4>1, <6>2
            <6> QED BY <6>1, <6>3
          <5>2. CASE ~(tb[r].time > tb[m].time)
            <6>1. n.elements[b] = tb[m]
              BY <4>2, <4>5, <5>2 DEF Later
            <6>2. IsLatest(tb, m, InBucket(tb, s, b, rs) \cup {r})
              BY <4>3, <4>5, <5>2 DEF IsLatest
            <6>3. IsLatest(tb, m, InBucket(tb, n, b, all))
              BY <3>1, <4>1, <6>2
            <6> QED BY <6>1, <6>3
          <5> QED BY <5>1, <5>2
        <4> QED BY <1>1, <4>4, <4>5 DEF HoldsLatest
      <3> QED BY <3>2, <3>3
    <2> QED BY <2>2, <2>4, <2>5 DEF Represents, HoldsLatest
  <1> QED BY <1>2, <1>3

\* The latest of two rows that are each the latest of a set.
LEMMA LaterOfTwo ==
  ASSUME NEW tb, NEW A, NEW B, NEW a, NEW b,
         IsLatest(tb, a, A), IsLatest(tb, b, B),
         \A o \in A \cup B : tb[o].time \in Int /\ tb[o] # None
  PROVE  \E c \in {a, b} : Later(tb[a], tb[b]) = tb[c] /\ IsLatest(tb, c, A \cup B)
  <1>1. a \in A /\ b \in B
    BY DEF IsLatest
  <1>2. CASE tb[b].time > tb[a].time
    <2>1. Later(tb[a], tb[b]) = tb[b]
      BY <1>1, <1>2 DEF Later
    <2>2. IsLatest(tb, b, A \cup B)
      BY <1>1, <1>2 DEF IsLatest
    <2> QED BY <2>1, <2>2
  <1>3. CASE ~(tb[b].time > tb[a].time)
    <2>1. Later(tb[a], tb[b]) = tb[a]
      BY <1>1, <1>3 DEF Later
    <2>2. IsLatest(tb, a, A \cup B)
      BY <1>1, <1>3 DEF IsLatest
    <2> QED BY <2>1, <2>2
  <1> QED BY <1>2, <1>3

\* combine: states of two sets of rows give the state of their union.
LEMMA CombineRepresents ==
  ASSUME NEW tb, NEW q, NEW s1, NEW s2, NEW rs1, NEW rs2,
         Represents(tb, q, s1, rs1), Represents(tb, q, s2, rs2),
         rs1 \subseteq DOMAIN tb, rs2 \subseteq DOMAIN tb,
         \A o \in DOMAIN tb : tb[o].time \in Int /\ tb[o] # None
  PROVE  Represents(tb, q, Combine(s1, s2), rs1 \cup rs2)
  <1> DEFINE n == Combine(s1, s2)
             all == rs1 \cup rs2
             e == [b \in Buckets(q) |-> Later(s1.elements[b], s2.elements[b])]
  <1>1. /\ SameQuery(q, s1) /\ HoldsLatest(tb, s1, rs1)
        /\ SameQuery(q, s2) /\ HoldsLatest(tb, s2, rs2)
    BY DEF Represents
  <1>2. DOMAIN s1.elements = Buckets(q) /\ s1.last = LastBucketMaxTime(q)
    BY <1>1, Fields
  <1>3. DOMAIN s2.elements = Buckets(q) /\ s2.last = LastBucketMaxTime(q)
    BY <1>1, Fields
  <1>4. n = [s1 EXCEPT !.elements = e]
    BY <1>2 DEF Combine
  <1>5. SameQuery(q, n)
    <2>1. s1 = [New(q) EXCEPT !.elements = s1.elements]
      BY <1>1, Fields DEF SameQuery
    <2>2. n = [New(q) EXCEPT !.elements = e]
      <3> HIDE DEF e, n
      <3> QED BY <1>4, <2>1 DEF New
    <2>3. n.elements = e
      <3> HIDE DEF e, n
      <3> QED BY <2>2 DEF New
    <2>4. e = [b \in Buckets(q) |-> e[b]]
      OBVIOUS
    <2> HIDE DEF e, n
    <2> QED BY <2>2, <2>3, <2>4 DEF SameQuery
  <1>6. n.last = LastBucketMaxTime(q) /\ DOMAIN n.elements = Buckets(q)
    <2> HIDE DEF n
    <2> QED BY <1>5, Fields
  <1>7. \A b \in Buckets(q) : n.elements[b] = Later(s1.elements[b], s2.elements[b])
    BY <1>4
  <1>8. \A t : GetBucket(n, t) = GetBucket(New(q), t)
    <2> HIDE DEF n
    <2> QED BY <1>5, SameBuckets
  <1>9. \A t : GetBucket(s1, t) = GetBucket(New(q), t) /\ GetBucket(s2, t) = GetBucket(New(q), t)
    BY <1>1, SameBuckets
  <1> HIDE DEF n
  <1>10. ASSUME NEW b \in Buckets(q)
         PROVE  \/ InBucket(tb, n, b, all) = {} /\ n.elements[b] = None
                \/ \E r \in all : n.elements[b] = tb[r] /\ IsLatest(tb, r, InBucket(tb, n, b, all))
    <2> DEFINE A == InBucket(tb, s1, b, rs1)
               B == InBucket(tb, s2, b, rs2)
    <2>1. InBucket(tb, n, b, all) = A \cup B
      BY <1>2, <1>3, <1>6, <1>8, <1>9 DEF InBucket
    <2>2. A \subseteq rs1 /\ B \subseteq rs2
      BY DEF InBucket
    <2>3. \/ A = {} /\ s1.elements[b] = None
          \/ \E r \in rs1 : s1.elements[b] = tb[r] /\ IsLatest(tb, r, A)
      BY <1>1, <1>2 DEF HoldsLatest
    <2>4. \/ B = {} /\ s2.elements[b] = None
          \/ \E r \in rs2 : s2.elements[b] = tb[r] /\ IsLatest(tb, r, B)
      BY <1>1, <1>3 DEF HoldsLatest
    <2> HIDE DEF A, B
    <2>5. CASE B = {} /\ s2.elements[b] = None
      <3>1. n.elements[b] = s1.elements[b]
        BY <1>7, <2>5 DEF Later
      <3> QED BY <2>1, <2>3, <2>5, <3>1
    <2>6. CASE A = {} /\ s1.elements[b] = None
      <3>1. s2.elements[b] # None => n.elements[b] = s2.elements[b]
        BY <1>7, <2>6 DEF Later
      <3>2. n.elements[b] = s2.elements[b]
        BY <1>7, <2>6, <3>1 DEF Later
      <3> QED BY <2>1, <2>4, <2>6, <3>2
    <2>7. ASSUME NEW a \in rs1, s1.elements[b] = tb[a], IsLatest(tb, a, A),
                 NEW c \in rs2, s2.elements[b] = tb[c], IsLatest(tb, c, B)
          PROVE  \E r \in all : n.elements[b] = tb[r] /\ IsLatest(tb, r, A \cup B)
      <3>1. \A o \in A \cup B : tb[o].time \in Int /\ tb[o] # None
        BY <2>2
      <3>2. IsLatest(tb, a, A) /\ IsLatest(tb, c, B)
        BY <2>7
      <3>3. \E r \in {a, c} : Later(tb[a], tb[c]) = tb[r] /\ IsLatest(tb, r, A \cup B)
        BY <3>1, <3>2, LaterOfTwo
      <3>4. n.elements[b] = Later(tb[a], tb[c])
        BY <1>7, <2>7
      <3>5. a \in all /\ c \in all
        OBVIOUS
      <3> QED BY <3>3, <3>4, <3>5
    <2> QED BY <2>1, <2>3, <2>4, <2>5, <2>6, <2>7
  <1>11. Represents(tb, q, n, all)
    BY <1>5, <1>6, <1>10 DEF Represents, HoldsLatest
  <1> QED BY <1>11 DEF n

\* States of one query are never incompatible.
LEMMA NeverIncompatible ==
  ASSUME NEW q, NEW s1, NEW s2, SameQuery(q, s1), SameQuery(q, s2)
  PROVE  ~Incompatible(s1, s2)
  <1>1. /\ s1.first = q.start /\ s1.last = LastBucketMaxTime(q) /\ s1.end = q.end
        /\ s1.width = q.width /\ s1.lookback = q.lookback
        /\ DOMAIN s1.elements = Buckets(q)
    BY Fields
  <1>2. /\ s2.first = q.start /\ s2.last = LastBucketMaxTime(q) /\ s2.end = q.end
        /\ s2.width = q.width /\ s2.lookback = q.lookback
        /\ DOMAIN s2.elements = Buckets(q)
    BY Fields
  <1> QED BY <1>1, <1>2 DEF Incompatible

----------------------------------------------------------------------------
(* The invariant of the executor's steps *)

Begun == answer.kind # "idle" => rows \in Tables /\ query \in Queries

Untouched ==
  answer.kind = "idle" =>
    /\ rows = <<>> /\ query = Null
    /\ unread = {} /\ combined = {} /\ scan = NoScan
    /\ \A p \in Processes : trans[p] = NoState /\ seen[p] = {}
    /\ \A w \in Workers : partial[w] = NotSent

Shape ==
  /\ trans = [p \in Processes |-> trans[p]]
  /\ seen = [p \in Processes |-> seen[p]]
  /\ partial = [w \in Workers |-> partial[w]]
  /\ combined \subseteq Workers
  /\ unread \subseteq DOMAIN rows
  /\ \A p \in Processes :
       /\ seen[p] \subseteq DOMAIN rows
       /\ trans[p] = NoState \/ trans[p] = InAggregateContext(trans[p].sel)
  /\ \A w \in Workers :
       \/ partial[w] = NotSent
       \/ partial[w] = SentNull
       \/ partial[w] = Serialize(partial[w].bytes.state)

\* A worker sends its state once, after its last row; the last one to send leaves
\* no row.
Sending ==
  /\ \A w \in Workers :
       /\ partial[w] # NotSent => parallel
       /\ partial[w] = SentNull => seen[w] = {}
       /\ w \in combined => partial[w] # NotSent
  /\ (\A w \in Workers : partial[w] # NotSent) => unread = {}

VSInv == Begun /\ Untouched /\ Shape /\ Sending /\ StatesRepresentRows

LEMMA DivMod ==
  ASSUME NEW d \in Int, NEW w \in Nat \ {0}
  PROVE  /\ d \div w \in Int /\ d % w \in 0..(w - 1)
         /\ d = w * (d \div w) + (d % w)
  OBVIOUS

LEMMA LastIsInt ==
  ASSUME NEW q \in Queries
  PROVE  LastBucketMaxTime(q) \in Int
  <1>1. /\ q.start \in Int /\ q.end \in Int /\ q.width \in Nat
        /\ USECS_PER_MS \in Nat \ {0}
    BY VSAssumption
  <1>2. CASE q.width = 0
    BY <1>1, <1>2 DEF LastBucketMaxTime
  <1>3. CASE q.width # 0
    <2>1. q.width * USECS_PER_MS \in Nat \ {0} /\ q.end - q.start \in Int
      BY <1>1, <1>3
    <2>2. (q.end - q.start) % (q.width * USECS_PER_MS) \in Int
      BY <2>1, DivMod
    <2> QED BY <1>1, <1>3, <2>2 DEF LastBucketMaxTime
  <1> QED BY <1>2, <1>3

LEMMA TableRows ==
  ASSUME rows \in Tables
  PROVE  \A r \in DOMAIN rows : rows[r].time \in Int /\ rows[r] # None
  BY VSAssumption

LEMMA KindsOfState ==
  /\ \A s : InAggregateContext(s) # NoState /\ InAggregateContext(s).sel = s
            /\ InAggregateContext(s).ctx = "aggregate"
  /\ NotSent # SentNull
  /\ \A s : /\ Serialize(s) # NotSent /\ Serialize(s) # SentNull
            /\ Serialize(s).bytes.state = s /\ Serialize(s).sent = "bytes"
  /\ NotSent.sent # "bytes" /\ SentNull.sent # "bytes"
  BY DEF InAggregateContext, NoState, NotSent, SentNull, Serialize

\* The state before a row is added stands for the rows seen so far.
LEMMA StateOfRepresents ==
  ASSUME VSInv, NEW p \in Processes
  PROVE  /\ Represents(rows, query, StateOf(p).sel, seen[p])
         /\ StateOf(p) = InAggregateContext(StateOf(p).sel)
  <1>1. CASE trans[p] = NoState
    <2>1. StateOf(p) = InAggregateContext(New(query)) /\ seen[p] = {}
      BY <1>1 DEF StateOf, VSInv, StatesRepresentRows
    <2>2. StateOf(p).sel = New(query)
      BY <2>1, KindsOfState
    <2>3. Represents(rows, query, New(query), {})
      BY NewIsEmpty
    <2> QED BY <2>1, <2>2, <2>3
  <1>2. CASE trans[p] # NoState
    <2>1. StateOf(p) = trans[p]
      BY <1>2 DEF StateOf
    <2> QED BY <1>2, <2>1 DEF VSInv, Shape, StatesRepresentRows
  <1> QED BY <1>1, <1>2

LEMMA InitInv == VSInit => VSInv
  BY KindsOfState DEF VSInit, VSInv, Begun, Untouched, Shape, Sending, StatesRepresentRows

LEMMA StartInv ==
  ASSUME VSInv, Start
  PROVE  VSInv'
  <1>1. /\ answer.kind = "idle" /\ rows' \in Tables /\ query' \in Queries
        /\ unread' = DOMAIN rows' /\ answer' = [kind |-> "open"]
        /\ UNCHANGED <<trans, partial, combined, scan, seen>>
    BY DEF Start
  <1>2. /\ \A p \in Processes : trans'[p] = NoState /\ seen'[p] = {}
        /\ \A w \in Workers : partial'[w] = NotSent
        /\ combined' = {}
    BY <1>1 DEF VSInv, Untouched
  <1>3. Begun' /\ Untouched'
    BY <1>1 DEF Begun, Untouched
  <1>4. Shape'
    BY <1>1, <1>2 DEF VSInv, Shape
  <1>5. Sending' /\ StatesRepresentRows'
    BY <1>2, KindsOfState, VSAssumption DEF Sending, StatesRepresentRows
  <1> QED BY <1>3, <1>4, <1>5 DEF VSInv

LEMMA TransitionInv ==
  ASSUME VSInv, NEW p \in Processes, NEW r \in unread, Transition(p, r)
  PROVE  VSInv'
  <1> DEFINE sel == StateOf(p).sel
             new == InAggregateContext(Insert(sel, rows[r]))
  <1>1. /\ answer.kind = "open" /\ Reads(p)
        /\ trans' = [trans EXCEPT ![p] = [StateOf(p) EXCEPT !.sel = Insert(sel, rows[r])]]
        /\ unread' = unread \ {r}
        /\ seen' = [seen EXCEPT ![p] = @ \cup {r}]
        /\ UNCHANGED <<rows, query, parallel, partial, combined, scan, answer>>
    BY DEF Transition
  <1>2. Represents(rows, query, sel, seen[p]) /\ StateOf(p) = InAggregateContext(sel)
    BY StateOfRepresents
  <1>3. trans' = [trans EXCEPT ![p] = new]
    <2>1. [StateOf(p) EXCEPT !.sel = Insert(sel, rows[r])] = new
      <3> HIDE DEF sel
      <3> QED BY <1>2 DEF InAggregateContext
    <2> QED BY <1>1, <2>1
  <1>4. rows \in Tables /\ query \in Queries /\ r \in DOMAIN rows /\ seen[p] \subseteq DOMAIN rows
    BY <1>1 DEF VSInv, Begun, Shape
  <1>5. Represents(rows, query, Insert(sel, rows[r]), seen[p] \cup {r})
    <2>1. SameQuery(query, sel)
      BY <1>2 DEF Represents
    <2> HIDE DEF sel
    <2>2. sel.last \in Int
      <3>1. sel.last = LastBucketMaxTime(query)
        BY <2>1, Fields
      <3> QED BY <1>4, <3>1, LastIsInt
    <2>3. \A o \in DOMAIN rows : rows[o].time \in Int /\ rows[o] # None
      BY <1>4, TableRows
    <2> QED BY <1>2, <1>4, <2>2, <2>3, InsertRepresents
  <1>6. new # NoState /\ new.sel = Insert(sel, rows[r])
    BY KindsOfState
  <1> HIDE DEF new
  <1>7. /\ DOMAIN trans = Processes /\ DOMAIN seen = Processes
        /\ trans'[p] = new /\ seen'[p] = seen[p] \cup {r}
        /\ \A o \in Processes \ {p} : trans'[o] = trans[o] /\ seen'[o] = seen[o]
    BY <1>1, <1>3 DEF VSInv, Shape
  <1>8. \A w \in Workers : partial[w] # NotSent => w # p
    BY <1>1, VSAssumption DEF Reads, VSInv, Sending
  <1>9. Begun' /\ Untouched'
    BY <1>1 DEF VSInv, Begun, Untouched
  <1>10. Shape'
    <2>1. /\ trans' = [o \in Processes |-> trans'[o]]
          /\ seen' = [o \in Processes |-> seen'[o]]
      BY <1>1, <1>3, <1>7
    <2>2. new = InAggregateContext(new.sel)
      BY <1>6 DEF new
    <2>3. unread' \subseteq DOMAIN rows'
      BY <1>1 DEF VSInv, Shape
    <2>4. \A o \in Processes :
            /\ seen'[o] \subseteq DOMAIN rows'
            /\ trans'[o] = NoState \/ trans'[o] = InAggregateContext(trans'[o].sel)
      BY <1>1, <1>4, <1>7, <2>2 DEF VSInv, Shape
    <2> QED BY <1>1, <2>1, <2>3, <2>4 DEF VSInv, Shape
  <1>11. Sending'
    BY <1>1, <1>7, <1>8, KindsOfState DEF VSInv, Sending, Processes
  <1>12. StatesRepresentRows'
    <2>1. \A o \in Processes :
            IF trans'[o] = NoState THEN seen'[o] = {}
            ELSE Represents(rows, query, trans'[o].sel, seen'[o])
      BY <1>5, <1>6, <1>7 DEF VSInv, StatesRepresentRows
    <2>2. \A w \in Workers : partial[w].sent = "bytes" =>
            Represents(rows, query, partial[w].bytes.state, seen'[w])
      BY <1>7, <1>8, KindsOfState DEF VSInv, StatesRepresentRows, Processes
    <2> QED BY <1>1, <2>1, <2>2 DEF StatesRepresentRows
  <1> QED BY <1>9, <1>10, <1>11, <1>12 DEF VSInv

LEMMA SendPartialInv ==
  ASSUME VSInv, NEW w \in Workers, SendPartial(w)
  PROVE  VSInv'
  <1> DEFINE new == IF trans[w] = NoState THEN SentNull ELSE Serialize(trans[w].sel)
  <1>1. /\ answer.kind = "open" /\ parallel
        /\ unread = {} \/ \E v \in Workers \ {w} : partial[v] = NotSent
        /\ partial' = [partial EXCEPT ![w] = new]
        /\ UNCHANGED <<rows, query, parallel, unread, trans, combined, scan, answer, seen>>
    BY DEF SendPartial, Through
  <1>2. /\ new # NotSent
        /\ new = SentNull \/ new = Serialize(new.bytes.state)
        /\ new = SentNull => seen[w] = {}
        /\ new.sent = "bytes" => Represents(rows, query, new.bytes.state, seen[w])
    BY KindsOfState DEF VSInv, StatesRepresentRows, Processes
  <1> HIDE DEF new
  <1>3. /\ DOMAIN partial = Workers /\ partial'[w] = new
        /\ \A o \in Workers \ {w} : partial'[o] = partial[o]
    BY <1>1 DEF VSInv, Shape
  <1>4. Begun' /\ Untouched'
    BY <1>1 DEF VSInv, Begun, Untouched
  <1>5. Shape'
    <2>1. partial' = [o \in Workers |-> partial'[o]]
      BY <1>1, <1>3
    <2> QED BY <1>1, <1>2, <1>3, <2>1 DEF VSInv, Shape
  <1>6. Sending'
    BY <1>1, <1>2, <1>3 DEF VSInv, Sending
  <1>7. StatesRepresentRows'
    BY <1>1, <1>2, <1>3 DEF VSInv, StatesRepresentRows
  <1> QED BY <1>4, <1>5, <1>6, <1>7 DEF VSInv

\* What the leader holds after it combined what it held with what it received.
LEMMA CombineInnerRepresents ==
  ASSUME VSInv, NEW w \in Workers, answer.kind # "idle", partial[w] # NotSent
  PROVE  LET new == CombineInner(trans[Leader], Received(w))
             all == seen[Leader] \cup seen[w]
         IN  \/ new = NoState /\ all = {}
             \/ /\ new # NoState /\ new = InAggregateContext(new.sel)
                /\ Represents(rows, query, new.sel, all)
  <1> DEFINE new == CombineInner(trans[Leader], Received(w))
             all == seen[Leader] \cup seen[w]
  <1> SUFFICES \/ new = NoState /\ all = {}
               \/ /\ new # NoState /\ new = InAggregateContext(new.sel)
                  /\ Represents(rows, query, new.sel, all)
    OBVIOUS
  <1>1. Leader \in Processes /\ w \in Processes
    BY DEF Processes
  <1>2. \/ trans[Leader] = NoState /\ seen[Leader] = {}
        \/ /\ trans[Leader] # NoState /\ trans[Leader] = InAggregateContext(trans[Leader].sel)
           /\ Represents(rows, query, trans[Leader].sel, seen[Leader])
    BY <1>1 DEF VSInv, StatesRepresentRows, Shape
  <1>3. CASE partial[w] = SentNull
    <2>1. Received(w) = NoState /\ seen[w] = {}
      BY <1>3 DEF Received, VSInv, Sending
    <2>2. CASE trans[Leader] = NoState
      BY <1>2, <2>1, <2>2 DEF CombineInner
    <2>3. CASE trans[Leader] # NoState
      <3>1. new = trans[Leader] /\ all = seen[Leader]
        BY <1>2, <2>1, <2>3 DEF CombineInner
      <3> QED BY <1>2, <2>3, <3>1
    <2> QED BY <2>2, <2>3
  <1>4. CASE partial[w] # SentNull
    <2> DEFINE other == partial[w].bytes.state
    <2>1. partial[w] = Serialize(other)
      BY <1>4 DEF VSInv, Shape
    <2>2. Represents(rows, query, other, seen[w])
      BY <2>1, KindsOfState DEF VSInv, StatesRepresentRows
    <2>3. Received(w) # NoState /\ Received(w).sel = other
      BY <1>4 DEF Received, Deserialize, InTupleContext, NoState
    <2> HIDE DEF other
    <2>4. CASE trans[Leader] = NoState
      <3>1. new = InAggregateContext(other) /\ all = seen[w]
        BY <1>2, <2>3, <2>4 DEF CombineInner
      <3> HIDE DEF new, all
      <3>2. new # NoState /\ new.sel = other
        BY <3>1, KindsOfState
      <3> QED BY <2>2, <3>1, <3>2
    <2>5. CASE trans[Leader] # NoState
      <3> DEFINE both == Combine(trans[Leader].sel, other)
      <3>1. new = InAggregateContext(both)
        BY <2>3, <2>5 DEF CombineInner
      <3>2. /\ rows \in Tables
            /\ seen[Leader] \subseteq DOMAIN rows /\ seen[w] \subseteq DOMAIN rows
        BY <1>1 DEF VSInv, Begun, Shape
      <3>3. \A o \in DOMAIN rows : rows[o].time \in Int /\ rows[o] # None
        BY <3>2, TableRows
      <3>4. Represents(rows, query, trans[Leader].sel, seen[Leader])
        BY <1>2, <2>5
      <3>5. Represents(rows, query, both, all)
        BY <2>2, <3>2, <3>3, <3>4, CombineRepresents
      <3> HIDE DEF both, new, all
      <3>6. new # NoState /\ new.sel = both
        BY <3>1, KindsOfState
      <3> QED BY <3>1, <3>5, <3>6
    <2> QED BY <2>4, <2>5
  <1> QED BY <1>3, <1>4

LEMMA CombinePartialInv ==
  ASSUME VSInv, NEW w \in Workers, CombinePartial(w)
  PROVE  VSInv'
  <1> DEFINE new == CombineInner(trans[Leader], Received(w))
             all == seen[Leader] \cup seen[w]
  <1>1. /\ answer.kind = "open" /\ partial[w] # NotSent
        /\ trans' = [trans EXCEPT ![Leader] = new]
        /\ combined' = combined \cup {w}
        /\ seen' = [seen EXCEPT ![Leader] = all]
        /\ UNCHANGED <<rows, query, parallel, unread, partial, scan, answer>>
    BY DEF CombinePartial
  <1>2. \/ new = NoState /\ all = {}
        \/ /\ new # NoState /\ new = InAggregateContext(new.sel)
           /\ Represents(rows, query, new.sel, all)
    BY <1>1, CombineInnerRepresents
  <1>3. all \subseteq DOMAIN rows
    BY DEF VSInv, Shape, Processes
  <1> HIDE DEF new, all
  <1>4. /\ trans'[Leader] = new /\ seen'[Leader] = all
        /\ \A o \in Processes \ {Leader} : trans'[o] = trans[o] /\ seen'[o] = seen[o]
        /\ Leader \in Processes
    BY <1>1 DEF VSInv, Shape, Processes
  <1>5. \A o \in Workers : seen'[o] = seen[o]
    BY <1>4, VSAssumption DEF Processes
  <1>6. Begun' /\ Untouched'
    BY <1>1 DEF VSInv, Begun, Untouched
  <1>7. Shape'
    <2>1. /\ trans' = [o \in Processes |-> trans'[o]]
          /\ seen' = [o \in Processes |-> seen'[o]]
      BY <1>1 DEF VSInv, Shape
    <2>2. \A o \in Processes :
            /\ seen'[o] \subseteq DOMAIN rows'
            /\ trans'[o] = NoState \/ trans'[o] = InAggregateContext(trans'[o].sel)
      BY <1>1, <1>2, <1>3, <1>4 DEF VSInv, Shape
    <2> QED BY <1>1, <2>1, <2>2 DEF VSInv, Shape
  <1>8. Sending'
    BY <1>1, <1>5 DEF VSInv, Sending
  <1>9. StatesRepresentRows'
    <2>1. \A o \in Processes :
            IF trans'[o] = NoState THEN seen'[o] = {}
            ELSE Represents(rows, query, trans'[o].sel, seen'[o])
      BY <1>2, <1>4 DEF VSInv, StatesRepresentRows
    <2>2. \A o \in Workers : partial[o].sent = "bytes" =>
            Represents(rows, query, partial[o].bytes.state, seen'[o])
      BY <1>5 DEF VSInv, StatesRepresentRows
    <2> QED BY <1>1, <2>1, <2>2 DEF StatesRepresentRows
  <1> QED BY <1>6, <1>7, <1>8, <1>9 DEF VSInv

LEMMA NextInv == VSInv /\ [VSNext]_vsVars => VSInv'
  <1> SUFFICES ASSUME VSInv, [VSNext]_vsVars PROVE VSInv'
    OBVIOUS
  <1>1. ASSUME UNCHANGED <<rows, query, parallel, unread, trans, partial, combined, seen>>,
               \/ answer' = answer /\ scan' = scan
               \/ answer.kind # "idle" /\ answer'.kind # "idle"
        PROVE  VSInv'
    BY <1>1 DEF VSInv, Begun, Untouched, Shape, Sending, StatesRepresentRows
  <1>2. CASE UNCHANGED vsVars
    BY <1>1, <1>2 DEF vsVars
  <1>3. CASE Start
    BY <1>3, StartInv
  <1>4. ASSUME NEW p \in Processes, NEW r \in unread, Transition(p, r)
        PROVE  VSInv'
    BY <1>4, TransitionInv
  <1>5. ASSUME NEW p \in Processes, NEW r \in unread, TransitionError(p, r)
        PROVE  VSInv'
    BY <1>1, <1>5 DEF TransitionError, Abort
  <1>6. ASSUME NEW w \in Workers, SendPartial(w)
        PROVE  VSInv'
    BY <1>6, SendPartialInv
  <1>7. ASSUME NEW w \in Workers, SerializeError(w)
        PROVE  VSInv'
    BY <1>1, <1>7 DEF SerializeError, Abort
  <1>8. ASSUME NEW w \in Workers, CombinePartial(w)
        PROVE  VSInv'
    BY <1>8, CombinePartialInv
  <1>9. CASE FinalNull
    BY <1>1, <1>9 DEF FinalNull
  <1>10. CASE Final
    BY <1>1, <1>10 DEF Final
  <1>11. CASE Result
    BY <1>1, <1>11 DEF Result
  <1>12. CASE Return
    BY <1>1, <1>12 DEF Return
  <1> QED BY <1>2, <1>3, <1>4, <1>5, <1>6, <1>7, <1>8, <1>9, <1>10, <1>11, <1>12 DEF VSNext

\* In every reachable state the invariant holds, for every table, query,
\* plan and order in which rows and partial states arrive.
THEOREM VSInvariant == VSSpec => []VSInv
  <1> QED BY InitInv, NextInv, PTL DEF VSSpec

\* Each transition state, and each partial state sent, stands for exactly the
\* rows its process has seen: insert and combine lose none but those that a
\* later row of the same bucket replaces.
THEOREM StatesRepresentRowsHolds == VSSpec => []StatesRepresentRows
  <1>1. VSInv => StatesRepresentRows
    BY DEF VSInv
  <1> QED BY <1>1, VSInvariant, PTL

\* Every transition state is allocated in the aggregate's memory context.
THEOREM StateOutlivesTupleHolds == VSSpec => []StateOutlivesTuple
  <1>1. VSInv => StateOutlivesTuple
    BY KindsOfState DEF VSInv, Shape, StateOutlivesTuple
  <1> QED BY <1>1, VSInvariant, PTL

----------------------------------------------------------------------------
(* Buckets and instants *)

LEMMA MulMono ==
  ASSUME NEW a \in Int, NEW b \in Int, NEW w \in Nat \ {0}
  PROVE  (a <= b) <=> (w * a <= w * b)
  OBVIOUS

LEMMA RoundUp ==
  ASSUME NEW a \in Int, NEW b \in Int, NEW w \in Nat \ {0}, NEW m \in 0..(w - 1)
  PROVE  (w * a + m <= w * b) <=> (IF m = 0 THEN a <= b ELSE a + 1 <= b)
  <1>1. CASE a + 1 <= b
    <2>1. w * (a + 1) <= w * b
      BY <1>1
    <2> QED BY <2>1, <1>1
  <1>2. CASE a = b
    BY <1>2
  <1>3. CASE a >= b + 1
    <2>1. w * a >= w * (b + 1)
      BY <1>3
    <2>2. w * a > w * b
      BY <2>1
    <2> QED BY <2>2, <1>3
  <1> QED BY <1>1, <1>2, <1>3

LEMMA QueryTypes ==
  ASSUME NEW q \in Queries
  PROVE  /\ q.start \in Int /\ q.end \in Int /\ q.start <= q.end
         /\ q.width \in Nat /\ q.lookback \in Nat
         /\ USECS_PER_MS \in Nat \ {0}
         /\ q.width * USECS_PER_MS \in Nat
         /\ q.lookback * USECS_PER_MS \in Nat
         /\ q.width # 0 => q.width * USECS_PER_MS \in Nat \ {0}
  BY VSAssumption

\* The last bucket ends at the last instant.
LEMMA LastBucket ==
  ASSUME NEW q \in Queries
  PROVE  /\ NumBuckets(q) \in Nat \ {0} /\ LastBucketMaxTime(q) \in Int
         /\ q.start <= LastBucketMaxTime(q) /\ LastBucketMaxTime(q) <= q.end
         /\ q.width # 0 =>
              /\ NumBuckets(q) = ((q.end - q.start) \div (q.width * USECS_PER_MS)) + 1
              /\ LastBucketMaxTime(q) =
                   q.start + (NumBuckets(q) - 1) * (q.width * USECS_PER_MS)
         /\ q.width = 0 => NumBuckets(q) = 1 /\ LastBucketMaxTime(q) = q.end
  <1>1. CASE q.width = 0
    BY <1>1, QueryTypes DEF NumBuckets, LastBucketMaxTime
  <1>2. CASE q.width # 0
    <2> DEFINE w == q.width * USECS_PER_MS
               d == q.end - q.start
    <2>1. w \in Nat \ {0} /\ d \in Nat /\ q.start \in Int /\ q.end = q.start + d
      BY <1>2, QueryTypes
    <2>2. NumBuckets(q) = (d \div w) + 1 /\ LastBucketMaxTime(q) = q.end - (d % w)
      BY <1>2 DEF NumBuckets, LastBucketMaxTime
    <2> HIDE DEF w, d
    <2>3. d \div w \in Int /\ d % w \in 0..(w - 1) /\ d = w * (d \div w) + (d % w)
      BY <2>1, DivMod
    <2>4. d \div w \in Nat
      <3>1. w * 0 <= w * (d \div w) + (d % w)
        BY <2>1, <2>3
      <3>2. w * (d \div w) > w * (0 - 1)
        BY <2>1, <2>3
      <3>3. ~(d \div w <= 0 - 1)
        BY <2>1, <2>3, <3>2, MulMono
      <3> QED BY <2>3, <3>3
    <2>5. w * (d \div w) \in Nat /\ w * (d \div w) = (d \div w) * w
      BY <2>1, <2>4
    <2>6. LastBucketMaxTime(q) = q.start + (d \div w) * w
      BY <2>1, <2>2, <2>3, <2>5
    <2>7. q.start <= LastBucketMaxTime(q) /\ LastBucketMaxTime(q) <= q.end
          /\ LastBucketMaxTime(q) \in Int
      BY <2>1, <2>2, <2>3, <2>5, <2>6
    <2>8. NumBuckets(q) \in Nat \ {0} /\ NumBuckets(q) - 1 = d \div w
      BY <2>2, <2>4
    <2>9. /\ NumBuckets(q) = ((q.end - q.start) \div (q.width * USECS_PER_MS)) + 1
          /\ LastBucketMaxTime(q) = q.start + (d \div w) * (q.width * USECS_PER_MS)
      BY <2>2, <2>6 DEF w, d
    <2> QED BY <1>2, <2>7, <2>8, <2>9
  <1> QED BY <1>1, <1>2

\* What get_bucket does to a time that insert accepts: it rounds up.
LEMMA BucketTime ==
  ASSUME NEW q \in Queries, NEW t \in Int, t <= LastBucketMaxTime(q),
         ~InsertFails(New(q), t)
  PROVE  /\ GetBucket(New(q), t) \in Buckets(q)
         /\ \A i \in Buckets(q) :
              GetBucket(New(q), t) <= i <=> t <= q.start + i * (q.width * USECS_PER_MS)
  <1> DEFINE w == q.width * USECS_PER_MS
             g == GetBucket(New(q), t)
             n == NumBuckets(q)
  <1>1. /\ New(q).first = q.start /\ New(q).last = LastBucketMaxTime(q)
        /\ New(q).width = q.width
    BY DEF New
  <1>2. n \in Nat \ {0} /\ q.start \in Int /\ w \in Nat /\ LastBucketMaxTime(q) \in Int
    BY LastBucket, QueryTypes
  <1>3. Buckets(q) = 0..(n - 1)
    BY DEF Buckets
  <1>4. CASE t <= q.start
    <2>1. g = 0
      BY <1>1, <1>4 DEF GetBucket
    <2> HIDE DEF g, w, n
    <2>2. \A i \in 0..(n - 1) : i * w \in Nat
      BY <1>2
    <2>3. 0 \in 0..(n - 1)
      BY <1>2
    <2>4. \A i \in 0..(n - 1) : g <= i <=> t <= q.start + i * w
      BY <1>2, <1>4, <2>1, <2>2
    <2> QED BY <1>3, <2>1, <2>3, <2>4 DEF g, w
  <1>5. CASE ~(t <= q.start)
    <2> DEFINE d == t - q.start
    <2>1. q.width # 0
      BY <1>1, <1>2, <1>5 DEF InsertFails
    <2>2. w \in Nat \ {0} /\ d \in Nat \ {0} /\ t = q.start + d
      BY <1>2, <1>5, <2>1, QueryTypes
    <2>3. g = IF d % w = 0 THEN d \div w ELSE (d \div w) + 1
      BY <1>1, <1>5 DEF GetBucket
    <2>4. LastBucketMaxTime(q) = q.start + (n - 1) * w
      BY <2>1, LastBucket
    <2> HIDE DEF d, g, w, n
    <2>5. d \div w \in Int /\ d % w \in 0..(w - 1) /\ d = w * (d \div w) + (d % w)
      BY <2>2, DivMod
    <2>6. ASSUME NEW i \in Int
          PROVE  g <= i <=> t <= q.start + i * w
      <3>1. (d <= w * i) <=> (IF d % w = 0 THEN d \div w <= i ELSE (d \div w) + 1 <= i)
        BY <2>2, <2>5, RoundUp
      <3>2. (d <= w * i) <=> g <= i
        BY <2>3, <2>5, <3>1
      <3>3. w * i = i * w /\ i * w \in Int
        BY <2>2
      <3> QED BY <1>2, <2>2, <3>2, <3>3
    <2>7. g \in Int
      BY <2>3, <2>5
    <2>8. g <= n - 1
      BY <1>2, <2>4, <2>6
    <2>9. ~(g <= 0 - 1)
      <3>1. q.start + (0 - 1) * w < t
        BY <1>2, <1>5, <2>2
      <3> QED BY <1>2, <2>2, <2>6, <3>1
    <2>10. g \in 0..(n - 1)
      BY <1>2, <2>7, <2>8, <2>9
    <2> QED BY <1>3, <2>6, <2>10 DEF g, w
  <1> QED BY <1>4, <1>5

\* A time no later than the instant of a bucket is no later than the last.
LEMMA InstantInReach ==
  ASSUME NEW q \in Queries, NEW t \in Int, NEW i \in Buckets(q),
         ~InsertFails(New(q), t),
         t <= q.start + i * (q.width * USECS_PER_MS)
  PROVE  t <= LastBucketMaxTime(q)
  <1> DEFINE w == q.width * USECS_PER_MS
             n == NumBuckets(q)
  <1>1. n \in Nat \ {0} /\ q.start \in Int /\ LastBucketMaxTime(q) \in Int
    BY LastBucket, QueryTypes
  <1>2. i \in 0..(n - 1)
    BY DEF Buckets
  <1>3. CASE q.width = 0
    <2>1. n = 1 /\ i = 0
      BY <1>2, <1>3, LastBucket
    <2>2. i * w = 0
      BY <1>3, <2>1, QueryTypes
    <2> QED BY <1>1, <2>2, LastBucket, QueryTypes
  <1>4. CASE q.width # 0
    <2>1. w \in Nat \ {0} /\ LastBucketMaxTime(q) = q.start + (n - 1) * w
      BY <1>4, LastBucket, QueryTypes
    <2>2. t <= q.start + i * w
      OBVIOUS
    <2> HIDE DEF w, n
    <2>3. w * i <= w * (n - 1)
      BY <1>1, <1>2, <2>1, MulMono
    <2>4. i * w <= (n - 1) * w /\ i * w \in Int /\ (n - 1) * w \in Int
      BY <1>1, <1>2, <2>1, <2>3
    <2> QED BY <1>1, <2>1, <2>2, <2>4
  <1> QED BY <1>3, <1>4

\* There is one bucket for each instant.
LEMMA BucketsAreInstants ==
  ASSUME query \in Queries
  PROVE  Buckets(query) = Vectors!Instants
  <1> DEFINE w == query.width * USECS_PER_MS
             n == NumBuckets(query)
             d == query.end - query.start
  <1>1. CASE query.width = 0
    <2>1. n = 1
      BY <1>1, LastBucket
    <2> QED BY <1>1, <2>1 DEF Buckets, Vectors!Instants
  <1>2. CASE query.width # 0
    <2>1. /\ w \in Nat \ {0} /\ d \in Nat /\ query.start \in Int
          /\ query.end = query.start + d /\ n = (d \div w) + 1 /\ n \in Nat \ {0}
      BY <1>2, LastBucket, QueryTypes
    <2>2. Vectors!Instants = {i \in 0..d : query.start + i * w <= query.end}
      BY <1>2 DEF Vectors!Instants, Vectors!Width
    <2>3. Buckets(query) = 0..(n - 1)
      BY DEF Buckets
    <2> HIDE DEF w, n, d
    <2>4. d \div w \in Int /\ d % w \in 0..(w - 1) /\ d = w * (d \div w) + (d % w)
      BY <2>1, DivMod
    <2>5. ASSUME NEW i \in Nat
          PROVE  i <= n - 1 <=> query.start + i * w <= query.end
      <3>1. w * i <= w * (d \div w) <=> i <= d \div w
        BY <2>1, <2>4, MulMono
      <3>2. w * i <= d => i <= d \div w
        <4> SUFFICES ASSUME w * i <= d, ~(i <= d \div w) PROVE FALSE
          OBVIOUS
        <4>1. w * ((d \div w) + 1) <= w * i
          BY <2>1, <2>4, MulMono
        <4>2. w * ((d \div w) + 1) = w * (d \div w) + w
          BY <2>1, <2>4
        <4>3. w * (d \div w) \in Int /\ w * i \in Int
          BY <2>1, <2>4
        <4> QED BY <2>1, <2>4, <4>1, <4>2, <4>3
      <3>3. w * i = i * w /\ i * w \in Nat /\ w * (d \div w) \in Int
        BY <2>1, <2>4
      <3>4. w * (d \div w) <= d
        BY <2>1, <2>4, <3>3
      <3> QED BY <2>1, <2>4, <3>1, <3>2, <3>3, <3>4
    <2>6. ASSUME NEW i \in Nat
          PROVE  query.start + i * w <= query.end => i <= d
      <3>1. i * w >= i /\ i * w \in Nat
        BY <2>1
      <3>2. query.start + i * w <= query.start + d => i * w <= d
        BY <2>1, <3>1
      <3> HIDE DEF w
      <3> QED BY <2>1, <3>1, <3>2
    <2>7. ASSUME NEW i \in 0..(n - 1)
          PROVE  i \in 0..d /\ query.start + i * w <= query.end
      <3>1. i \in Nat /\ i <= n - 1
        BY <2>1
      <3>2. query.start + i * w <= query.end
        BY <2>5, <3>1
      <3>3. i <= d
        BY <2>6, <3>1, <3>2
      <3> QED BY <2>1, <3>1, <3>2, <3>3
    <2>8. ASSUME NEW i \in 0..d, query.start + i * w <= query.end
          PROVE  i \in 0..(n - 1)
      <3>1. i \in Nat
        BY <2>1
      <3>2. i <= n - 1
        BY <2>5, <2>8, <3>1
      <3> QED BY <2>1, <3>1, <3>2
    <2> QED BY <2>2, <2>3, <2>7, <2>8
  <1> QED BY <1>1, <1>2

\* Rows that insert rejects are the rows out of range.
LEMMA RangeOfRows ==
  ASSUME query \in Queries, rows \in Tables, NEW r \in DOMAIN rows
  PROVE  Vectors!OutOfRange(r) <=> InsertFails(New(query), rows[r].time)
  <1>1. /\ New(query).first = query.start /\ New(query).last = LastBucketMaxTime(query)
        /\ New(query).width = query.width /\ New(query).end = query.end
        /\ New(query).lookback = query.lookback
    BY DEF New
  <1>2. rows[r].time \in Int
    BY TableRows
  <1> QED BY <1>1, <1>2, LastBucket, QueryTypes
          DEF InsertFails, Vectors!OutOfRange, Vectors!Lookback

----------------------------------------------------------------------------
(* What the executor has done *)

NonEmpty ==
  /\ \A p \in Processes : trans[p] # NoState => seen[p] # {}
  /\ \A w \in Workers : partial[w].sent = "bytes" => seen[w] # {}

\* A row that is not in the leader's state is on its way to it.
Conserved ==
  /\ ~parallel => \A w \in Workers : seen[w] = {}
  /\ \A r \in DOMAIN rows :
       \/ r \in unread
       \/ r \in seen[Leader]
       \/ \E w \in Workers \ combined : r \in seen[w]

AllInRange == \A p \in Processes : \A r \in seen[p] : ~InsertFails(New(query), rows[r].time)

\* The rows in the buckets before the i-th.
Prior(i) ==
  {r \in DOMAIN rows : /\ rows[r].time <= LastBucketMaxTime(query)
                       /\ GetBucket(New(query), rows[r].time) < i}

IsLast(x, i) ==
  \/ Prior(i) = {} /\ x = None
  \/ \E r \in DOMAIN rows : x = rows[r] /\ IsLatest(rows, r, Prior(i))

IsValueAt(i, v) ==
  \/ Vectors!InWindow(i) = {} /\ v = Null
  \/ \E r \in Vectors!InWindow(i) : v = Vectors!Shown(rows[r].val)

\* What the loop of results() has computed after scan.pos turns.
Scanned ==
  scan # NoScan =>
    /\ Gathered /\ trans[Leader] # NoState
    /\ scan.pos \in 0..NumBuckets(query)
    /\ scan.ts = Vectors!TimeOf(scan.pos)
    /\ IsLast(scan.last, scan.pos)
    /\ DOMAIN scan.vals = 0..(scan.pos - 1)
    /\ \A i \in 0..(scan.pos - 1) : IsValueAt(i, scan.vals[i])

Progress == NonEmpty /\ Conserved /\ AllInRange /\ Scanned

LEMMA SameFailures ==
  ASSUME NEW q, NEW s, SameQuery(q, s)
  PROVE  \A t : InsertFails(s, t) <=> InsertFails(New(q), t)
  <1>1. /\ s.first = q.start /\ s.last = LastBucketMaxTime(q) /\ s.end = q.end
        /\ s.width = q.width /\ s.lookback = q.lookback
    BY Fields
  <1>2. /\ New(q).first = q.start /\ New(q).last = LastBucketMaxTime(q)
        /\ New(q).end = q.end /\ New(q).width = q.width /\ New(q).lookback = q.lookback
    BY DEF New
  <1> QED BY <1>1, <1>2 DEF InsertFails

\* When the final function runs, the leader's state stands for the table.
LEMMA WhenGathered ==
  ASSUME VSInv, Conserved, AllInRange, Gathered, answer.kind # "idle"
  PROVE  /\ rows \in Tables /\ query \in Queries
         /\ unread = {} /\ seen[Leader] = DOMAIN rows
         /\ \A r \in DOMAIN rows : ~InsertFails(New(query), rows[r].time)
  <1>1. rows \in Tables /\ query \in Queries
    BY DEF VSInv, Begun
  <1>2. unread = {}
    <2>1. CASE ~parallel
      BY <2>1 DEF Gathered
    <2>2. CASE parallel
      <3>1. \A w \in Workers : w \in combined
        BY <2>2 DEF Gathered
      <3> QED BY <3>1 DEF VSInv, Sending
    <2> QED BY <2>1, <2>2
  <1>3. \A r \in DOMAIN rows : r \in seen[Leader]
    <2>1. ASSUME NEW w \in Workers \ combined PROVE seen[w] = {}
      BY <2>1 DEF Gathered, Conserved
    <2> QED BY <1>2, <2>1 DEF Conserved
  <1>4. Leader \in Processes
    BY DEF Processes
  <1>5. seen[Leader] = DOMAIN rows
    BY <1>3, <1>4 DEF VSInv, Shape
  <1> QED BY <1>1, <1>2, <1>4, <1>5 DEF AllInRange

LEMMA ScannedUnread ==
  ASSUME VSInv, Progress, scan # NoScan
  PROVE  answer.kind # "idle" /\ unread = {} /\ Gathered
  <1>1. answer.kind # "idle" /\ Gathered
    BY DEF VSInv, Untouched, Progress, Scanned
  <1> QED BY <1>1, WhenGathered DEF Progress

LEMMA InitProgress == VSInit => Progress
  BY KindsOfState DEF VSInit, Progress, NonEmpty, Conserved, AllInRange, Scanned, Processes

LEMMA StartProgress ==
  ASSUME VSInv, Start
  PROVE  Progress'
  <1>1. /\ unread' = DOMAIN rows' /\ scan' = NoScan
        /\ \A p \in Processes : trans'[p] = NoState /\ seen'[p] = {}
        /\ \A w \in Workers : partial'[w] = NotSent
    BY DEF Start, VSInv, Untouched
  <1> QED BY <1>1, KindsOfState
          DEF Progress, NonEmpty, Conserved, AllInRange, Scanned, Processes

LEMMA TransitionProgress ==
  ASSUME VSInv, Progress, NEW p \in Processes, NEW r \in unread, Transition(p, r)
  PROVE  Progress'
  <1>1. /\ Reads(p) /\ ~InsertFails(StateOf(p).sel, rows[r].time)
        /\ unread' = unread \ {r}
        /\ seen' = [seen EXCEPT ![p] = @ \cup {r}]
        /\ UNCHANGED <<rows, query, parallel, partial, combined, scan, answer>>
    BY DEF Transition
  <1>2. /\ seen'[p] = seen[p] \cup {r}
        /\ \A o \in Processes \ {p} : seen'[o] = seen[o] /\ trans'[o] = trans[o]
        /\ \A w \in Workers : w \in Processes /\ w # Leader
        /\ Leader \in Processes
    BY <1>1, VSAssumption DEF VSInv, Shape, Transition, Processes
  <1>3. NonEmpty'
    BY <1>1, <1>2 DEF Progress, NonEmpty
  <1>4. Conserved'
    <2>1. ~parallel => \A w \in Workers : seen'[w] = {}
      BY <1>1, <1>2 DEF Progress, Conserved, Reads
    <2>2. p = Leader \/ p \in Workers \ combined
      BY <1>1, <1>2 DEF Reads, VSInv, Sending
    <2>3. \A o \in DOMAIN rows :
            \/ o \in unread'
            \/ o \in seen'[Leader]
            \/ \E w \in Workers \ combined : o \in seen'[w]
      BY <1>1, <1>2, <2>2 DEF Progress, Conserved
    <2> QED BY <1>1, <2>1, <2>3 DEF Conserved
  <1>5. AllInRange'
    <2>1. SameQuery(query, StateOf(p).sel)
      BY StateOfRepresents DEF Represents
    <2>2. ~InsertFails(New(query), rows[r].time)
      BY <1>1, <2>1, SameFailures
    <2> QED BY <1>1, <1>2, <2>2 DEF Progress, AllInRange
  <1>6. Scanned'
    <2>1. scan = NoScan
      BY ScannedUnread
    <2> QED BY <1>1, <2>1 DEF Scanned
  <1> QED BY <1>3, <1>4, <1>5, <1>6 DEF Progress

\* What the loop has computed depends on the table and the query alone.
LEMMA ScanFrame ==
  ASSUME UNCHANGED <<rows, query, parallel, unread, trans, combined, scan>>, Scanned
  PROVE  Scanned'
  <1>1. Gathered' = Gathered
    BY DEF Gathered
  <1>2. \A i : Vectors!InWindow(i)' = Vectors!InWindow(i)
    BY DEF Vectors!InWindow, Vectors!LatestUpTo, Vectors!TimeOf, Vectors!Lookback, Vectors!Width
  <1>3. \A i : Vectors!TimeOf(i)' = Vectors!TimeOf(i)
    BY DEF Vectors!TimeOf, Vectors!Width
  <1>4. \A i : Prior(i)' = Prior(i)
    BY DEF Prior
  <1>5. \A i : \A x : IsLast(x, i)' <=> IsLast(x, i)
    BY <1>4 DEF IsLast
  <1>6. \A i : \A v : IsValueAt(i, v)' <=> IsValueAt(i, v)
    BY <1>2 DEF IsValueAt
  <1> QED BY <1>1, <1>3, <1>5, <1>6 DEF Scanned

LEMMA SendPartialProgress ==
  ASSUME VSInv, Progress, NEW w \in Workers, SendPartial(w)
  PROVE  Progress'
  <1>1. /\ partial' = [partial EXCEPT
             ![w] = IF trans[w] = NoState THEN SentNull ELSE Serialize(trans[w].sel)]
        /\ UNCHANGED <<rows, query, parallel, unread, trans, combined, scan, answer, seen>>
    BY DEF SendPartial
  <1>2. NonEmpty'
    <2>1. partial'[w].sent = "bytes" => trans[w] # NoState
      BY <1>1, KindsOfState DEF VSInv, Shape
    <2>2. \A o \in Workers \ {w} : partial'[o] = partial[o]
      BY <1>1 DEF VSInv, Shape
    <2> QED BY <1>1, <2>1, <2>2 DEF Progress, NonEmpty, Processes
  <1>3. Conserved' /\ AllInRange'
    BY <1>1 DEF Progress, Conserved, AllInRange
  <1>4. Scanned'
    BY <1>1, ScanFrame DEF Progress
  <1> QED BY <1>2, <1>3, <1>4 DEF Progress

LEMMA CombinePartialProgress ==
  ASSUME VSInv, Progress, NEW w \in Workers, CombinePartial(w)
  PROVE  Progress'
  <1>1. /\ scan = NoScan /\ partial[w] # NotSent /\ answer.kind = "open"
        /\ trans' = [trans EXCEPT ![Leader] = CombineInner(@, Received(w))]
        /\ combined' = combined \cup {w}
        /\ seen' = [seen EXCEPT ![Leader] = @ \cup seen[w]]
        /\ UNCHANGED <<rows, query, parallel, unread, partial, scan, answer>>
    BY DEF CombinePartial
  <1>2. /\ seen'[Leader] = seen[Leader] \cup seen[w]
        /\ \A o \in Processes \ {Leader} : seen'[o] = seen[o] /\ trans'[o] = trans[o]
        /\ \A o \in Workers : o \in Processes \ {Leader}
        /\ Leader \in Processes
        /\ trans'[Leader] = CombineInner(trans[Leader], Received(w))
    BY <1>1, VSAssumption DEF VSInv, Shape, Processes
  <1>3. NonEmpty'
    <2>1. ASSUME trans'[Leader] # NoState PROVE seen'[Leader] # {}
      <3>1. trans[Leader] # NoState \/ Received(w) # NoState
        BY <1>2, <2>1 DEF CombineInner
      <3>2. Received(w) # NoState => partial[w].sent = "bytes"
        BY <1>1, KindsOfState DEF Received, VSInv, Shape
      <3> QED BY <1>2, <3>1, <3>2 DEF Progress, NonEmpty
    <2> QED BY <1>1, <1>2, <2>1 DEF Progress, NonEmpty
  <1>4. Conserved'
    BY <1>1, <1>2 DEF Progress, Conserved
  <1>5. AllInRange'
    BY <1>1, <1>2 DEF Progress, AllInRange
  <1>6. Scanned'
    BY <1>1 DEF Scanned
  <1> QED BY <1>3, <1>4, <1>5, <1>6 DEF Progress

LEMMA FinalProgress ==
  ASSUME VSInv, Progress, Final
  PROVE  Progress'
  <1>1. /\ answer.kind = "open" /\ Gathered /\ trans[Leader] # NoState
        /\ scan' = [pos |-> 0, ts |-> trans[Leader].sel.first, last |-> None, vals |-> <<>>]
        /\ UNCHANGED <<rows, query, parallel, unread, trans, partial, combined, answer, seen>>
    BY DEF Final
  <1>2. /\ rows \in Tables /\ query \in Queries
        /\ \A r \in DOMAIN rows : ~InsertFails(New(query), rows[r].time)
    BY <1>1, WhenGathered DEF Progress
  <1>3. trans[Leader].sel.first = query.start
    <2>1. SameQuery(query, trans[Leader].sel)
      BY <1>1 DEF VSInv, StatesRepresentRows, Represents, Processes
    <2> QED BY <2>1, Fields
  <1>4. Prior(0) = {}
    <2>1. ASSUME NEW r \in DOMAIN rows, rows[r].time <= LastBucketMaxTime(query)
          PROVE  ~(GetBucket(New(query), rows[r].time) < 0)
      <3>1. rows[r].time \in Int /\ ~InsertFails(New(query), rows[r].time)
        BY <1>2, TableRows
      <3>2. GetBucket(New(query), rows[r].time) \in Buckets(query)
        BY <1>2, <2>1, <3>1, BucketTime
      <3> QED BY <1>2, <3>2, LastBucket DEF Buckets
    <2> QED BY <2>1 DEF Prior
  <1>5. Vectors!TimeOf(0) = query.start
    <2>1. query.start \in Int /\ query.width * USECS_PER_MS \in Nat
      BY <1>2, QueryTypes
    <2>2. 0 * (query.width * USECS_PER_MS) = 0
      BY <2>1
    <2> QED BY <2>1, <2>2 DEF Vectors!TimeOf, Vectors!Width
  <1>6. Scanned'
    <2>1. IsLast(None, 0)
      BY <1>4 DEF IsLast
    <2>2. 0 \in 0..NumBuckets(query)
      BY <1>2, LastBucket
    <2>3. DOMAIN scan'.vals = 0..(0 - 1) /\ scan'.pos = 0 /\ scan'.last = None
          /\ scan'.ts = query.start
      BY <1>1, <1>3
    <2>4. Gathered' /\ Vectors!TimeOf(0)' = query.start /\ IsLast(None, 0)'
      BY <1>1, <1>5, <2>1
         DEF Gathered, Vectors!TimeOf, Vectors!Width, IsLast, Prior
    <2>5. \A i \in 0..(scan'.pos - 1) : FALSE
      BY <2>3
    <2> QED BY <1>1, <2>2, <2>3, <2>4, <2>5 DEF Scanned
  <1> QED BY <1>1, <1>6 DEF Progress, NonEmpty, Conserved, AllInRange

\* The rows in the buckets up to the i-th are the rows up to its instant, and
\* a bucket holds later rows than the buckets before it.
LEMMA PriorRows ==
  ASSUME rows \in Tables, query \in Queries,
         \A r \in DOMAIN rows : ~InsertFails(New(query), rows[r].time),
         NEW i \in Buckets(query)
  PROVE  /\ Prior(i + 1) = {r \in DOMAIN rows : rows[r].time <= Vectors!TimeOf(i)}
         /\ \A s : SameQuery(query, s) =>
              Prior(i + 1) = Prior(i) \cup InBucket(rows, s, i, DOMAIN rows)
         /\ \A s : SameQuery(query, s) =>
              \A o \in Prior(i) : \A r \in InBucket(rows, s, i, DOMAIN rows) :
                rows[o].time < rows[r].time
  <1> DEFINE w == query.width * USECS_PER_MS
             g(r) == GetBucket(New(query), rows[r].time)
             In(r) == rows[r].time <= LastBucketMaxTime(query)
  <1>1. i \in Int /\ Buckets(query) \subseteq Int
    BY LastBucket DEF Buckets
  <1>2. \A r \in DOMAIN rows : rows[r].time \in Int
    BY TableRows
  <1>3. ASSUME NEW r \in DOMAIN rows, In(r)
        PROVE  /\ g(r) \in Buckets(query)
               /\ \A j \in Buckets(query) : g(r) <= j <=> rows[r].time <= query.start + j * w
    BY <1>2, <1>3, BucketTime
  <1>4. \A r \in DOMAIN rows : rows[r].time <= query.start + i * w => In(r)
    BY <1>2, InstantInReach
  <1>5. Vectors!TimeOf(i) = query.start + i * w
    BY DEF Vectors!TimeOf, Vectors!Width
  <1>6. \A j : Prior(j) = {r \in DOMAIN rows : In(r) /\ g(r) < j}
    BY DEF Prior
  <1>7. \A s : SameQuery(query, s) =>
          InBucket(rows, s, i, DOMAIN rows) = {r \in DOMAIN rows : In(r) /\ g(r) = i}
    <2> SUFFICES ASSUME NEW s, SameQuery(query, s)
                 PROVE  InBucket(rows, s, i, DOMAIN rows) = {r \in DOMAIN rows : In(r) /\ g(r) = i}
      OBVIOUS
    <2>1. s.last = LastBucketMaxTime(query)
      BY Fields
    <2>2. \A t : GetBucket(s, t) = GetBucket(New(query), t)
      BY SameBuckets
    <2> QED BY <2>1, <2>2 DEF InBucket
  <1> HIDE DEF g, In, w
  <1>8. Prior(i + 1) = {r \in DOMAIN rows : rows[r].time <= Vectors!TimeOf(i)}
    <2>1. ASSUME NEW r \in DOMAIN rows
          PROVE  In(r) /\ g(r) < i + 1 <=> rows[r].time <= query.start + i * w
      <3>1. CASE In(r)
        <4>1. g(r) \in Int /\ (g(r) <= i <=> rows[r].time <= query.start + i * w)
          BY <1>1, <1>3, <3>1
        <4> QED BY <1>1, <3>1, <4>1
      <3>2. CASE ~In(r)
        BY <1>4, <3>2
      <3> QED BY <3>1, <3>2
    <2> QED BY <1>5, <1>6, <2>1
  <1>9. \A s : SameQuery(query, s) =>
          Prior(i + 1) = Prior(i) \cup InBucket(rows, s, i, DOMAIN rows)
    <2>1. \A r \in DOMAIN rows : In(r) => (g(r) < i + 1 <=> g(r) < i \/ g(r) = i)
      BY <1>1, <1>3
    <2>2. Prior(i + 1) = Prior(i) \cup {r \in DOMAIN rows : In(r) /\ g(r) = i}
      BY <1>6, <2>1
    <2> QED BY <1>7, <2>2
  <1>10. ASSUME NEW o \in DOMAIN rows, NEW r \in DOMAIN rows,
                In(o), In(r), g(o) < i, g(r) = i
         PROVE  rows[o].time < rows[r].time
    <2> DEFINE at == query.start + g(o) * w
    <2>1. g(o) \in Buckets(query) /\ g(o) \in Int
      BY <1>1, <1>3, <1>10
    <2>2. rows[o].time <= at /\ ~(rows[r].time <= at)
      BY <1>1, <1>3, <1>10, <2>1
    <2>3. at \in Int
      BY <2>1, QueryTypes DEF w
    <2> HIDE DEF at
    <2> QED BY <1>2, <2>2, <2>3
  <1> QED BY <1>6, <1>7, <1>8, <1>9, <1>10

\* One turn of the loop: the value it pushes is the value at its instant.
LEMMA ResultProgress ==
  ASSUME VSInv, Progress, Result
  PROVE  Progress'
  <1> DEFINE s == trans[Leader].sel
             i == scan.pos
             x == LastContent(s)
  <1>1. /\ answer.kind = "open" /\ scan # NoScan /\ i \in DOMAIN s.elements
        /\ scan' = [pos |-> i + 1, ts |-> scan.ts + s.width * USECS_PER_MS, last |-> x,
                    vals |-> [j \in 0..i |-> IF j = i THEN Push(s) ELSE scan.vals[j]]]
        /\ UNCHANGED <<rows, query, parallel, unread, trans, partial, combined, answer, seen>>
    BY DEF Result
  <1>2. /\ Gathered /\ trans[Leader] # NoState
        /\ scan.ts = Vectors!TimeOf(i) /\ IsLast(scan.last, i)
        /\ DOMAIN scan.vals = 0..(i - 1)
        /\ \A j \in 0..(i - 1) : IsValueAt(j, scan.vals[j])
    BY <1>1 DEF Progress, Scanned
  <1>3. /\ rows \in Tables /\ query \in Queries /\ seen[Leader] = DOMAIN rows
        /\ \A r \in DOMAIN rows : ~InsertFails(New(query), rows[r].time)
    BY <1>1, <1>2, WhenGathered DEF Progress
  <1>4. SameQuery(query, s) /\ HoldsLatest(rows, s, DOMAIN rows)
    BY <1>2, <1>3 DEF VSInv, StatesRepresentRows, Represents, Processes
  <1>5. /\ s.width = query.width /\ s.lookback = query.lookback
        /\ DOMAIN s.elements = Buckets(query)
    BY <1>4, Fields
  <1>6. i \in Buckets(query) /\ i \in Nat /\ i + 1 \in 0..NumBuckets(query)
    BY <1>1, <1>3, <1>5, LastBucket DEF Buckets
  <1>7. \A r \in DOMAIN rows : rows[r].time \in Int /\ rows[r] # None
    BY <1>3, TableRows
  <1> DEFINE here == InBucket(rows, s, i, DOMAIN rows)
  <1>8. /\ Prior(i + 1) = {r \in DOMAIN rows : rows[r].time <= Vectors!TimeOf(i)}
        /\ Prior(i + 1) = Prior(i) \cup here
        /\ \A o \in Prior(i) : \A r \in here : rows[o].time < rows[r].time
    BY <1>3, <1>4, <1>6, PriorRows
  <1>9. /\ Prior(i) \subseteq DOMAIN rows
        /\ Prior(i + 1) \subseteq DOMAIN rows /\ here \subseteq DOMAIN rows
    BY DEF Prior, InBucket
  <1> HIDE DEF s, here
  <1>10. IsLast(x, i + 1)
    <2>1. \/ here = {} /\ s.elements[i] = None
          \/ \E r \in DOMAIN rows : s.elements[i] = rows[r] /\ IsLatest(rows, r, here)
      BY <1>1, <1>4 DEF HoldsLatest, here
    <2>2. CASE here = {} /\ s.elements[i] = None
      <3>1. x = scan.last /\ Prior(i + 1) = Prior(i)
        BY <1>8, <2>2 DEF LastContent
      <3> QED BY <1>2, <3>1 DEF IsLast
    <2>3. ASSUME NEW r \in DOMAIN rows, s.elements[i] = rows[r], IsLatest(rows, r, here)
          PROVE  IsLast(x, i + 1)
      <3>1. x = rows[r]
        BY <1>7, <2>3 DEF LastContent
      <3>2. r \in here /\ r \in Prior(i + 1)
        BY <1>8, <2>3 DEF IsLatest
      <3>3. \A o \in Prior(i + 1) : rows[o].time <= rows[r].time
        <4>1. \A o \in here : rows[o].time <= rows[r].time
          BY <2>3 DEF IsLatest
        <4>2. \A o \in Prior(i) : rows[o].time <= rows[r].time
          BY <1>7, <1>8, <1>9, <3>2
        <4> QED BY <1>8, <4>1, <4>2
      <3> QED BY <3>1, <3>2, <3>3 DEF IsLast, IsLatest
    <2> QED BY <2>1, <2>2, <2>3
  <1>11. IsValueAt(i, Push(s))
    <2> DEFINE from == Vectors!TimeOf(i) - query.lookback * USECS_PER_MS
    <2>1. Vectors!LatestUpTo(i) =
            {r \in Prior(i + 1) : \A o \in Prior(i + 1) : rows[o].time <= rows[r].time}
      BY <1>8 DEF Vectors!LatestUpTo
    <2>2. Vectors!InWindow(i) = {r \in Vectors!LatestUpTo(i) : rows[r].time >= from}
      BY DEF Vectors!InWindow, Vectors!Lookback
    <2>3. Push(s) = IF x # None /\ x.time >= from /\ x.val # STALE_NAN THEN x.val ELSE Null
      BY <1>2, <1>5 DEF Push, LastContent
    <2> HIDE DEF from, x
    <2>4. CASE Prior(i + 1) = {} /\ x = None
      BY <2>1, <2>2, <2>3, <2>4 DEF IsValueAt
    <2>5. ASSUME NEW r \in DOMAIN rows, x = rows[r], IsLatest(rows, r, Prior(i + 1))
          PROVE  IsValueAt(i, Push(s))
      <3>1. x # None /\ r \in Vectors!LatestUpTo(i)
        BY <1>7, <2>1, <2>5 DEF IsLatest
      <3>2. CASE rows[r].time >= from
        <4>1. r \in Vectors!InWindow(i)
          BY <2>2, <3>1, <3>2
        <4>2. Push(s) = Vectors!Shown(rows[r].val)
          BY <2>3, <2>5, <3>1, <3>2 DEF Vectors!Shown
        <4> QED BY <4>1, <4>2 DEF IsValueAt
      <3>3. CASE ~(rows[r].time >= from)
        <4>1. \A o \in Vectors!LatestUpTo(i) : rows[o].time = rows[r].time
          BY <1>7, <1>9, <2>1, <3>1
        <4>2. Vectors!InWindow(i) = {}
          BY <2>2, <3>3, <4>1
        <4>3. Push(s) = Null
          BY <2>3, <2>5, <3>3
        <4> QED BY <4>2, <4>3 DEF IsValueAt
      <3> QED BY <3>2, <3>3
    <2> QED BY <1>10, <2>4, <2>5 DEF IsLast
  <1>12. scan.ts + s.width * USECS_PER_MS = Vectors!TimeOf(i + 1)
    <2> DEFINE w == query.width * USECS_PER_MS
    <2>1. w \in Nat /\ query.start \in Int
      BY <1>3, QueryTypes
    <2>2. scan.ts = query.start + i * w /\ Vectors!TimeOf(i + 1) = query.start + (i + 1) * w
      BY <1>2 DEF Vectors!TimeOf, Vectors!Width
    <2>3. s.width * USECS_PER_MS = w
      BY <1>5
    <2> HIDE DEF w, i
    <2>4. i * w \in Nat /\ (i + 1) * w = i * w + w
      BY <1>6, <2>1
    <2> QED BY <2>1, <2>2, <2>3, <2>4
  <1> HIDE DEF x, i
  <1>13. Scanned'
    <2>1. /\ scan'.pos = i + 1 /\ scan'.ts = Vectors!TimeOf(i + 1) /\ scan'.last = x
          /\ DOMAIN scan'.vals = 0..i
          /\ \A j \in 0..i : scan'.vals[j] = IF j = i THEN Push(s) ELSE scan.vals[j]
      BY <1>1, <1>12
    <2>2. \A j \in 0..i : IsValueAt(j, scan'.vals[j])
      BY <1>2, <1>6, <1>11, <2>1 DEF i
    <2>3. /\ Gathered' = Gathered /\ trans' = trans
          /\ \A j : Vectors!InWindow(j)' = Vectors!InWindow(j)
          /\ \A j : Vectors!TimeOf(j)' = Vectors!TimeOf(j)
          /\ \A j : Prior(j)' = Prior(j)
          /\ NumBuckets(query)' = NumBuckets(query)
      BY <1>1 DEF Gathered, Prior, Vectors!InWindow, Vectors!LatestUpTo, Vectors!TimeOf,
                  Vectors!Lookback, Vectors!Width, NumBuckets
    <2>4. (i + 1) - 1 = i
      BY <1>6
    <2>5. (scan.ts = Vectors!TimeOf(scan.pos))'
      BY <1>1, <2>1 DEF Vectors!TimeOf, Vectors!Width
    <2>6. IsLast(scan.last, scan.pos)'
      BY <1>1, <1>10, <2>1 DEF IsLast, Prior
    <2>7. (\A j \in 0..(scan.pos - 1) : IsValueAt(j, scan.vals[j]))'
      BY <1>1, <2>1, <2>2, <2>3, <2>4 DEF IsValueAt, Vectors!Shown
    <2> QED BY <1>1, <1>2, <1>6, <2>1, <2>3, <2>4, <2>5, <2>6, <2>7 DEF Scanned
  <1> QED BY <1>1, <1>13 DEF Progress, NonEmpty, Conserved, AllInRange

LEMMA NextProgress == VSInv /\ Progress /\ [VSNext]_vsVars => Progress'
  <1> SUFFICES ASSUME VSInv, Progress, [VSNext]_vsVars PROVE Progress'
    OBVIOUS
  <1>1. ASSUME UNCHANGED <<rows, query, parallel, unread, trans, partial, combined, scan, seen>>
        PROVE  Progress'
    BY <1>1, ScanFrame DEF Progress, NonEmpty, Conserved, AllInRange
  <1>2. CASE UNCHANGED vsVars
    BY <1>1, <1>2 DEF vsVars
  <1>3. CASE Start
    BY <1>3, StartProgress
  <1>4. ASSUME NEW p \in Processes, NEW r \in unread, Transition(p, r)
        PROVE  Progress'
    BY <1>4, TransitionProgress
  <1>5. ASSUME NEW p \in Processes, NEW r \in unread, TransitionError(p, r)
        PROVE  Progress'
    BY <1>1, <1>5 DEF TransitionError, Abort
  <1>6. ASSUME NEW w \in Workers, SendPartial(w)
        PROVE  Progress'
    BY <1>6, SendPartialProgress
  <1>7. ASSUME NEW w \in Workers, SerializeError(w)
        PROVE  Progress'
    BY <1>1, <1>7 DEF SerializeError, Abort
  <1>8. ASSUME NEW w \in Workers, CombinePartial(w)
        PROVE  Progress'
    BY <1>8, CombinePartialProgress
  <1>9. CASE FinalNull
    BY <1>1, <1>9 DEF FinalNull
  <1>10. CASE Final
    BY <1>10, FinalProgress
  <1>11. CASE Result
    BY <1>11, ResultProgress
  <1>12. CASE Return
    BY <1>1, <1>12 DEF Return
  <1> QED BY <1>2, <1>3, <1>4, <1>5, <1>6, <1>7, <1>8, <1>9, <1>10, <1>11, <1>12 DEF VSNext

\* While the statement runs, no row is lost, all rows read are in range, and
\* each turn of results() leaves a prefix of the instant vector.
THEOREM ProgressHolds == VSSpec => []Progress
  <1> QED BY InitProgress, NextProgress, VSInvariant, PTL DEF VSSpec

----------------------------------------------------------------------------
(* The steps, seen by the caller *)

\* A state that is too large to be sent has more instants than fit.
LEMMA TooLargeState ==
  ASSUME query \in Queries, NEW s, SameQuery(query, s), SerializedSize(s) > MaxAlloc
  PROVE  Vectors!TooLarge
  <1> DEFINE all  == DOMAIN s.elements
             full == {b \in all : s.elements[b] # None}
             n == NumBuckets(query)
  <1>1. all = 0..(n - 1) /\ all = Vectors!Instants /\ n \in Nat \ {0}
    BY Fields, BucketsAreInstants, LastBucket DEF Buckets
  <1>2. IsFiniteSet(all) /\ Cardinality(all) = n
    BY <1>1, FS_Interval
  <1>3. IsFiniteSet(full) /\ Cardinality(full) <= Cardinality(all)
    <2>1. full \in SUBSET all
      OBVIOUS
    <2> HIDE DEF full, all
    <2> QED BY <1>2, <2>1, FS_Subset
  <1>4. Cardinality(full) \in Nat
    <2> HIDE DEF full
    <2> QED BY <1>3, FS_CardinalityType
  <1>5. 54 + Cardinality(all) + 16 * Cardinality(full) > MaxAlloc
    BY DEF SerializedSize
  <1>6. Vectors!TooLarge <=> 54 + 17 * Cardinality(all) > MaxAlloc
    <2> HIDE DEF all, n
    <2>1. Cardinality(all) = Cardinality(Vectors!Instants)
      BY <1>1
    <2>2. Vectors!Cardinality(Vectors!Instants) = Cardinality(Vectors!Instants)
      BY DEF Vectors!Cardinality, Cardinality
    <2> QED BY <1>1, <1>2, <2>1, <2>2, VSAssumption DEF Vectors!TooLarge
  <1> HIDE DEF all, full, n
  <1> QED BY <1>1, <1>2, <1>3, <1>4, <1>5, <1>6, VSAssumption

LEMMA ReturnReplies ==
  ASSUME VSInv, Progress, Return
  PROVE  Vectors!Reply
  <1>1. /\ answer.kind = "open" /\ scan # NoScan
        /\ scan.pos \notin DOMAIN trans[Leader].sel.elements
        /\ answer' = [kind |-> "vector", values |-> scan.vals]
        /\ UNCHANGED <<rows, query>>
    BY DEF Return
  <1>2. /\ Gathered /\ trans[Leader] # NoState
        /\ scan.pos \in 0..NumBuckets(query)
        /\ DOMAIN scan.vals = 0..(scan.pos - 1)
        /\ \A i \in 0..(scan.pos - 1) : IsValueAt(i, scan.vals[i])
    BY <1>1 DEF Progress, Scanned
  <1>3. /\ rows \in Tables /\ query \in Queries /\ seen[Leader] = DOMAIN rows
        /\ \A r \in DOMAIN rows : ~InsertFails(New(query), rows[r].time)
    BY <1>1, <1>2, WhenGathered DEF Progress
  <1>4. SameQuery(query, trans[Leader].sel) /\ seen[Leader] # {}
    BY <1>2 DEF VSInv, StatesRepresentRows, Represents, Progress, NonEmpty, Processes
  <1>5. scan.pos = NumBuckets(query)
    <2>1. scan.pos \notin 0..(NumBuckets(query) - 1)
      BY <1>1, <1>4, Fields DEF Buckets
    <2> QED BY <1>2, <1>3, <2>1, LastBucket
  <1>6. 0..(scan.pos - 1) = Vectors!Instants
    BY <1>3, <1>5, BucketsAreInstants DEF Buckets
  <1>7. Vectors!IsInstantVector(scan.vals)
    BY <1>2, <1>6 DEF Vectors!IsInstantVector, IsValueAt
  <1>8. \A r \in DOMAIN rows : ~Vectors!OutOfRange(r)
    BY <1>3, RangeOfRows
  <1>9. answer'.kind = "vector" /\ answer'.values = scan.vals
    BY <1>1
  <1>10. Vectors!IsInstantVector(answer'.values)
    BY <1>7, <1>9
  <1>11. DOMAIN rows # {}
    BY <1>3, <1>4
  <1> QED BY <1>1, <1>8, <1>9, <1>10, <1>11 DEF Vectors!Reply

\* Each step of the executor is a step of the caller's view, or none.
LEMMA StepRefines ==
  ASSUME VSInv, Progress, [VSNext]_vsVars
  PROVE  [Vectors!IVNext]_<<rows, query, answer>>
  <1>1. ASSUME UNCHANGED <<rows, query, answer>>
        PROVE  [Vectors!IVNext]_<<rows, query, answer>>
    BY <1>1
  <1>2. CASE UNCHANGED vsVars
    BY <1>1, <1>2 DEF vsVars
  <1>3. CASE Start
    BY <1>3 DEF Start, Vectors!IVNext, Vectors!Ask
  <1>4. ASSUME NEW p \in Processes, NEW r \in unread, Transition(p, r)
        PROVE  [Vectors!IVNext]_<<rows, query, answer>>
    BY <1>1, <1>4 DEF Transition
  <1>5. ASSUME NEW p \in Processes, NEW r \in unread, TransitionError(p, r)
        PROVE  [Vectors!IVNext]_<<rows, query, answer>>
    <2>1. /\ answer.kind = "open" /\ answer' = [kind |-> "error"]
          /\ InsertFails(StateOf(p).sel, rows[r].time)
          /\ UNCHANGED <<rows, query>>
      BY <1>5 DEF TransitionError, Abort
    <2>2. rows \in Tables /\ query \in Queries /\ r \in DOMAIN rows
      BY <2>1 DEF VSInv, Begun, Shape
    <2>3. SameQuery(query, StateOf(p).sel)
      BY StateOfRepresents DEF Represents
    <2>4. Vectors!OutOfRange(r)
      BY <2>1, <2>2, <2>3, SameFailures, RangeOfRows
    <2> QED BY <2>1, <2>2, <2>4 DEF Vectors!IVNext, Vectors!Fail
  <1>6. ASSUME NEW w \in Workers, SendPartial(w)
        PROVE  [Vectors!IVNext]_<<rows, query, answer>>
    BY <1>1, <1>6 DEF SendPartial
  <1>7. ASSUME NEW w \in Workers, SerializeError(w)
        PROVE  [Vectors!IVNext]_<<rows, query, answer>>
    <2>1. /\ answer.kind = "open" /\ answer' = [kind |-> "error"]
          /\ trans[w] # NoState /\ SerializedSize(trans[w].sel) > MaxAlloc
          /\ UNCHANGED <<rows, query>>
      BY <1>7 DEF SerializeError, Abort
    <2>2. query \in Queries /\ SameQuery(query, trans[w].sel)
      BY <2>1 DEF VSInv, Begun, StatesRepresentRows, Represents, Processes
    <2>3. Vectors!TooLarge
      BY <2>1, <2>2, TooLargeState
    <2> QED BY <2>1, <2>3 DEF Vectors!IVNext, Vectors!Fail
  <1>8. ASSUME NEW w \in Workers, CombinePartial(w)
        PROVE  [Vectors!IVNext]_<<rows, query, answer>>
    BY <1>1, <1>8 DEF CombinePartial
  <1>9. CASE FinalNull
    <2>1. /\ answer.kind = "open" /\ Gathered /\ trans[Leader] = NoState
          /\ answer' = [kind |-> "null"] /\ UNCHANGED <<rows, query>>
      BY <1>9 DEF FinalNull
    <2>2. seen[Leader] = {} /\ seen[Leader] = DOMAIN rows
      BY <2>1, WhenGathered DEF VSInv, StatesRepresentRows, Progress, Processes
    <2> QED BY <2>1, <2>2 DEF Vectors!IVNext, Vectors!ReplyNull
  <1>10. CASE Final
    BY <1>1, <1>10 DEF Final
  <1>11. CASE Result
    BY <1>1, <1>11 DEF Result
  <1>12. CASE Return
    BY <1>12, ReturnReplies DEF Vectors!IVNext
  <1> QED BY <1>2, <1>3, <1>4, <1>5, <1>6, <1>7, <1>8, <1>9, <1>10, <1>11, <1>12 DEF VSNext

\* The aggregate returns an instant vector of the table, NULL for no rows, and
\* fails only for a row out of range or a state too large to be sent: for every
\* table, query, number of workers and order of rows and partial states.
THEOREM ReturnsInstantVectorHolds == VSSpec => ReturnsInstantVector
  <1>1. VSInit => Vectors!IVInit
    BY DEF VSInit, Vectors!IVInit
  <1>2. VSInv /\ Progress /\ [VSNext]_vsVars => [Vectors!IVNext]_<<rows, query, answer>>
    BY StepRefines
  <1> QED BY <1>1, <1>2, VSInvariant, ProgressHolds, PTL
          DEF VSSpec, ReturnsInstantVector, Vectors!IVSpec

=============================================================================
