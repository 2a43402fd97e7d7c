------------------------- MODULE GapfillDeltaProofs -------------------------
(***************************************************************************)
(* prom_delta, prom_increase and prom_rate, for every sequence of rows and *)
(* every step and range: each delta is computed from exactly the rows of   *)
(* its window that came before any row past it, which are all of them if   *)
(* rows are in order or windows leave no gap; there is one for each window.*)
(*                                                                         *)
(* The invariant says that the deque is the set of the rows consumed that  *)
(* lie in the current window, in ascending time, that no row consumed is   *)
(* past the window, and that once a window was flushed, some row past it   *)
(* was consumed or is about to be (Passed): the row that flushed it.       *)
(*                                                                         *)
(* No increase or rate is below zero: the correction for resets is at      *)
(* least the oldest value less the newest, by induction over the rows of   *)
(* the window, and what extrapolation adds at the start is at most what    *)
(* brings the counter down to zero, in each of its cases.                  *)
(***************************************************************************)
EXTENDS GapfillDelta, FiniteSetTheorems, WellFoundedInduction, TLAPS

DeltaValues == 
  {Delta(call, Samples(W), lo, hi) : W \in SUBSET (DOMAIN input), lo \in Int, hi \in Int}

Phases ==
  /\ phase # "idle" => call \in Calls /\ input \in Inputs
  /\ phase = "idle" => acc = NoTransition /\ taken = 0
  /\ taken \in Nat
  /\ phase # "idle" => taken <= Len(input)
  /\ phase = "add" =>
       acc # NoTransition /\ taken < Len(input) /\ Fresh(Row) /\ InBounds(Row)
  /\ phase \in {"final", "done"} => acc # NoTransition
  /\ acc # NoTransition => Step # 0
  /\ acc = NoTransition => taken = 0 /\ phase # "add"

\* The window that is open is the one after those flushed.
CurrentWindow ==
  acc # NoTransition =>
    /\ acc = [kind |-> "some", window |-> acc.window, deltas |-> acc.deltas,
              min |-> acc.min, max |-> acc.max]
    /\ acc.deltas \in Seq(DeltaValues)
    /\ acc.min = WindowMin(Len(acc.deltas) + 1)
    /\ acc.max = WindowMax(Len(acc.deltas) + 1)

NonePast == acc # NoTransition => \A p \in 1..taken : Fresh(p) => Time(p) <= acc.max

WindowHolds == acc # NoTransition => acc.window = RowsIn(Len(acc.deltas) + 1)

\* Time does not go back within a set of rows.
Ordered(W) == \A p, o \in W : o <= p => Time(o) <= Time(p)

WindowSorted == acc # NoTransition => Ordered(acc.window)

HasLatest ==
  acc # NoTransition /\ acc.window # {} =>
    \E p \in acc.window : \A o \in acc.window : o <= p

\* Past the last window flushed there is a row.
Passed ==
  acc # NoTransition /\ Len(acc.deltas) > 0 /\ phase \in {"rows", "add"} =>
    \/ phase = "add" /\ Time(Row) > acc.max - Step
    \/ \E p \in 1..taken : Fresh(p) /\ Time(p) > acc.max - Step

Exact ==
  acc # NoTransition => \A k \in 1..Len(acc.deltas) :
    /\ acc.deltas[k] = Delta(call, Samples(InTime(k)), WindowMin(k), WindowMax(k))
    /\ Ordered(InTime(k))

Complete ==
  acc # NoTransition => \A k \in 1..Len(acc.deltas) : InTime(k) = RowsIn(k)

InReach ==
  /\ acc # NoTransition => \A k \in 1..Len(acc.deltas) : WindowMax(k) <= call.greatest
  /\ phase = "done" => acc.max > call.greatest

Window == CurrentWindow /\ NonePast /\ WindowHolds /\ WindowSorted /\ HasLatest

\* No row of a window comes late when rows come in order or windows leave no
\* gap between them.
Sane == Ascending \/ Step <= RangeSize

GDInv == Phases /\ Window /\ Passed /\ InReach /\ Exact /\ (Sane => Complete)

----------------------------------------------------------------------------
(* Windows *)

LEMMA CallTypes ==
  ASSUME call \in Calls
  PROVE  /\ call.lowest \in Int /\ call.greatest \in Int
         /\ Step \in Nat /\ RangeSize \in Nat
  BY GDAssumption DEF Step, RangeSize

LEMMA InputTypes ==
  ASSUME input \in Inputs
  PROVE  /\ DOMAIN input = 1..Len(input) /\ Len(input) \in Nat
         /\ \A p \in 1..Len(input) : Time(p) \in Int
  BY GDAssumption DEF Time

LEMMA InDeltaValues ==
  ASSUME NEW W \in SUBSET (DOMAIN input), NEW lo \in Int, NEW hi \in Int
  PROVE  Delta(call, Samples(W), lo, hi) \in DeltaValues
  BY DEF DeltaValues

LEMMA WindowStep ==
  ASSUME call \in Calls, NEW k \in Nat
  PROVE  /\ WindowMin(k) \in Int /\ WindowMax(k) \in Int
         /\ WindowMin(k + 1) = WindowMin(k) + Step
         /\ WindowMax(k + 1) = WindowMax(k) + Step
         /\ WindowMax(k) = WindowMin(k) + RangeSize
  <1> DEFINE w == Step
  <1>1. w \in Nat /\ RangeSize \in Nat /\ call.lowest \in Int
    BY CallTypes
  <1>2. /\ WindowMin(k) = call.lowest + (k - 1) * w
        /\ WindowMin(k + 1) = call.lowest + ((k + 1) - 1) * w
        /\ WindowMax(k) = WindowMin(k) + RangeSize
        /\ WindowMax(k + 1) = WindowMin(k + 1) + RangeSize
    BY DEF WindowMin, WindowMax
  <1> HIDE DEF w
  <1>3. (k - 1) * w \in Int /\ ((k + 1) - 1) * w = (k - 1) * w + w
    BY <1>1
  <1>4. /\ WindowMin(k) \in Int /\ WindowMax(k) \in Int
        /\ WindowMin(k + 1) = WindowMin(k) + w
        /\ WindowMax(k + 1) = WindowMax(k) + w
    BY <1>1, <1>2, <1>3
  <1> QED BY <1>2, <1>4 DEF w

LEMMA WindowOrder ==
  ASSUME call \in Calls, NEW j \in Nat, NEW k \in Nat, j <= k
  PROVE  WindowMax(j) <= WindowMax(k)
  <1> DEFINE w == Step
  <1>1. w \in Nat /\ RangeSize \in Nat /\ call.lowest \in Int
    BY CallTypes
  <1>2. /\ WindowMax(j) = call.lowest + (j - 1) * w + RangeSize
        /\ WindowMax(k) = call.lowest + (k - 1) * w + RangeSize
    BY DEF WindowMin, WindowMax
  <1> HIDE DEF w
  <1>3. (j - 1) * w \in Int /\ (k - 1) * w \in Int /\ (j - 1) * w <= (k - 1) * w
    BY <1>1
  <1> QED BY <1>1, <1>2, <1>3

----------------------------------------------------------------------------
(* Flushing a window, for a row or at the end *)

LEMMA FlushKeeps ==
  ASSUME GDInv, acc # NoTransition, acc' = Flushed, UNCHANGED <<call, input, taken>>,
         phase # "idle", acc.max <= call.greatest
  PROVE  /\ acc' # NoTransition /\ acc'.max = acc.max + Step
         /\ Window' /\ Exact' /\ (Sane => Complete)'
         /\ \A k \in 1..Len(acc'.deltas) : WindowMax(k) <= call.greatest
  <1> DEFINE n == Len(acc.deltas)
             d == Delta(call, Samples(acc.window), acc.min, acc.max)
             kept == DropOld(acc.window, acc.min + Step)
  <1>1. /\ call \in Calls /\ input \in Inputs /\ taken \in Nat /\ taken <= Len(input)
    BY DEF GDInv, Phases
  <1>2. /\ acc.deltas \in Seq(DeltaValues) /\ n \in Nat
        /\ acc.min = WindowMin(n + 1) /\ acc.max = WindowMax(n + 1)
    BY DEF GDInv, Window, CurrentWindow
  <1>3. acc' = [kind |-> "some", window |-> kept, deltas |-> Append(acc.deltas, d),
                min |-> acc.min + Step, max |-> acc.max + Step]
    BY DEF Flushed
  <1>4. /\ acc' # NoTransition /\ acc'.max = acc.max + Step /\ acc'.min = acc.min + Step
        /\ acc'.window = kept /\ acc'.deltas = Append(acc.deltas, d)
    BY <1>3 DEF NoTransition
  <1>5. /\ acc.min \in Int /\ acc.max \in Int /\ Step \in Nat /\ RangeSize \in Nat
        /\ WindowMin(n + 2) = acc.min + Step /\ WindowMax(n + 2) = acc.max + Step
        /\ acc.max = acc.min + RangeSize
    <2>1. n + 1 \in Nat /\ (n + 1) + 1 = n + 2
      BY <1>2
    <2> QED BY <1>1, <1>2, <2>1, CallTypes, WindowStep
  <1>6. acc.window = RowsIn(n + 1)
    BY DEF GDInv, Window, WindowHolds
  <1>7. \A p \in 1..taken : Time(p) \in Int /\ p \in DOMAIN input /\ p \in Int
    BY <1>1, InputTypes
  <1>8. d \in DeltaValues
    <2>1. acc.window \in SUBSET (DOMAIN input)
      BY <1>6, <1>7 DEF RowsIn
    <2>2. acc.min \in Int /\ acc.max \in Int
      BY <1>5
    <2> QED BY <2>1, <2>2, InDeltaValues
  <1> HIDE DEF n, d, kept
  <1>9. /\ Append(acc.deltas, d) \in Seq(DeltaValues)
        /\ Len(Append(acc.deltas, d)) = n + 1
        /\ \A k \in 1..n : Append(acc.deltas, d)[k] = acc.deltas[k]
        /\ Append(acc.deltas, d)[n + 1] = d
    BY <1>2, <1>8 DEF n
  <1>10. (n + 1) + 1 = n + 2 /\ 1..(n + 1) = (1..n) \cup {n + 1}
    BY <1>2
  <1>11. kept = RowsIn(n + 2)
    <2>1. ASSUME NEW p \in kept PROVE p \in RowsIn(n + 2)
      <3>1. p \in acc.window /\ \E o \in acc.window : o <= p /\ Time(o) >= acc.min + Step
        BY <2>1 DEF kept, DropOld
      <3>2. PICK o \in acc.window : o <= p /\ Time(o) >= acc.min + Step
        BY <3>1
      <3>3. Time(o) <= Time(p)
        BY <3>1, <3>2 DEF GDInv, Window, WindowSorted, Ordered
      <3>4. /\ p \in 1..taken /\ o \in 1..taken /\ Fresh(p) /\ Time(p) <= WindowMax(n + 1)
        BY <1>6, <3>1 DEF RowsIn
      <3>5. Time(p) \in Int /\ Time(o) \in Int
        BY <1>7, <3>4
      <3>6. acc.min + Step <= Time(p) /\ Time(p) <= acc.max + Step
        BY <1>2, <1>5, <3>2, <3>3, <3>4, <3>5
      <3> QED BY <1>5, <3>4, <3>6 DEF RowsIn
    <2>2. ASSUME NEW p \in RowsIn(n + 2) PROVE p \in kept
      <3>1. p \in 1..taken /\ Fresh(p) /\ acc.min + Step <= Time(p)
        BY <1>5 DEF RowsIn
      <3>2. Time(p) <= acc.max /\ Time(p) \in Int /\ p \in Int
        BY <1>7, <3>1 DEF GDInv, Window, NonePast
      <3>3. acc.min <= Time(p)
        BY <1>5, <3>1, <3>2
      <3>4. p \in acc.window
        BY <1>2, <1>6, <3>1, <3>2, <3>3 DEF RowsIn
      <3>5. p <= p /\ Time(p) >= acc.min + Step
        BY <1>5, <3>1, <3>2
      <3> QED BY <3>4, <3>5 DEF kept, DropOld
    <2> QED BY <2>1, <2>2
  <1>12. CurrentWindow'
    <2>1. (acc.min = WindowMin(Len(acc.deltas) + 1))'
      BY <1>4, <1>5, <1>9, <1>10 DEF WindowMin, Step
    <2>2. (acc.max = WindowMax(Len(acc.deltas) + 1))'
      BY <1>4, <1>5, <1>9, <1>10 DEF WindowMax, WindowMin, Step, RangeSize
    <2>3. DeltaValues' = DeltaValues
      BY DEF DeltaValues, Samples
    <2> QED BY <1>3, <1>4, <1>9, <2>1, <2>2, <2>3 DEF CurrentWindow
  <1>13. NonePast'
    <2>1. \A p \in 1..taken : Fresh(p) => Time(p) <= acc.max + Step
      BY <1>5, <1>7 DEF GDInv, Window, NonePast
    <2> QED BY <1>4, <2>1 DEF NonePast, Fresh, Time
  <1>14. WindowHolds'
    BY <1>4, <1>9, <1>10, <1>11
       DEF WindowHolds, RowsIn, WindowMin, WindowMax, Fresh, Time, Step, RangeSize
  <1>15. WindowSorted'
    <2>1. kept \subseteq acc.window
      BY DEF kept, DropOld
    <2> QED BY <1>4, <2>1 DEF GDInv, Window, WindowSorted, Ordered, Time
  <1>16. \A k : /\ RowsIn(k)' = RowsIn(k) /\ InTime(k)' = InTime(k)
                /\ WindowMin(k)' = WindowMin(k) /\ WindowMax(k)' = WindowMax(k)
    BY DEF RowsIn, InTime, WindowMin, WindowMax, Fresh, Time, Step, RangeSize
  <1>17. InTime(n + 1) = RowsIn(n + 1)
    BY <1>1, <1>2, <1>7 DEF InTime, RowsIn, GDInv, Window, NonePast
  <1>18. Exact'
    <2>1. \A k \in 1..n :
            /\ acc.deltas[k] = Delta(call, Samples(InTime(k)), WindowMin(k), WindowMax(k))
            /\ Ordered(InTime(k))
      BY DEF GDInv, Exact, n
    <2>2. /\ d = Delta(call, Samples(InTime(n + 1)), WindowMin(n + 1), WindowMax(n + 1))
          /\ Ordered(InTime(n + 1))
      BY <1>2, <1>6, <1>17 DEF d, GDInv, Window, WindowSorted
    <2>3. \A k \in 1..(n + 1) :
            /\ Append(acc.deltas, d)[k] = Delta(call, Samples(InTime(k)), WindowMin(k), WindowMax(k))
            /\ Ordered(InTime(k))
      BY <1>9, <1>10, <2>1, <2>2
    <2>4. \A k : Delta(call, Samples(InTime(k)), WindowMin(k), WindowMax(k))'
                   = Delta(call, Samples(InTime(k)), WindowMin(k), WindowMax(k))
      BY <1>16 DEF Samples
    <2>5. \A k : Ordered(InTime(k))' = Ordered(InTime(k))
      BY <1>16 DEF Ordered, Time
    <2> QED BY <1>4, <1>9, <2>3, <2>4, <2>5 DEF Exact
  <1>19. (Sane => Complete)'
    <2>1. Sane' = Sane
      BY DEF Sane, Ascending, Fresh, Time, Step, RangeSize
    <2>2. ASSUME Sane PROVE \A k \in 1..(n + 1) : InTime(k) = RowsIn(k)
      BY <1>10, <1>17, <2>2 DEF GDInv, Complete, n
    <2> QED BY <1>4, <1>9, <1>16, <2>1, <2>2 DEF Complete
  <1>20. \A k \in 1..Len(acc'.deltas) : WindowMax(k) <= call.greatest
    <2>1. \A k \in 1..n : WindowMax(k) <= call.greatest
      BY DEF GDInv, InReach, n
    <2> QED BY <1>2, <1>4, <1>9, <1>10, <2>1
  <1>21. HasLatest'
    <2>1. ASSUME kept # {} PROVE \E p \in kept : \A o \in kept : o <= p
      <3>1. kept \subseteq acc.window /\ acc.window # {} /\ acc.window \subseteq Int
        BY <1>6, <1>7, <2>1 DEF kept, DropOld, RowsIn
      <3>2. PICK p \in acc.window : \A o \in acc.window : o <= p
        BY <3>1 DEF GDInv, Window, HasLatest
      <3>3. PICK o \in acc.window : Time(o) >= acc.min + Step
        BY <2>1 DEF kept, DropOld
      <3>4. p \in kept
        BY <3>2, <3>3 DEF kept, DropOld
      <3> QED BY <3>1, <3>2, <3>4
    <2> QED BY <1>4, <2>1 DEF HasLatest
  <1> QED BY <1>4, <1>12, <1>13, <1>14, <1>15, <1>18, <1>19, <1>20, <1>21 DEF Window

----------------------------------------------------------------------------
(* The samples of a window: its ends, and the correction for counters.     *)

LEMMA LeastExists ==
  ASSUME NEW D \in SUBSET Nat, D # {}
  PROVE  \E d \in D : \A e \in D : d <= e
  <1>1. IsWellFoundedOn({p \in Nat \X Nat : p[1] < p[2]}, Nat)
    BY NatLessThanWellFounded, Zenon DEF OpToRel
  <1>2. PICK d \in D : \A e \in D : ~(<<e, d>> \in {p \in Nat \X Nat : p[1] < p[2]})
    BY <1>1, WFMin, Zenon
  <1>3. \A e \in D : ~(e < d)
    BY <1>2
  <1> QED BY <1>3

LEMMA Ends ==
  ASSUME NEW n \in Nat, NEW s, DOMAIN s # {}, DOMAIN s \subseteq 1..n
  PROVE  /\ Earliest(s) \in DOMAIN s /\ Latest(s) \in DOMAIN s
         /\ \A o \in DOMAIN s : Earliest(s) <= o /\ o <= Latest(s)
  <1> DEFINE W == DOMAIN s
             D == {n - p : p \in W}
  <1>1. \E p \in W : \A o \in W : p <= o
    <2>1. W \in SUBSET Nat /\ W # {}
      OBVIOUS
    <2> HIDE DEF W
    <2> QED BY <2>1, LeastExists
  <1>2. PICK d \in D : \A e \in D : d <= e
    <2>1. \A p \in W : n - p \in Nat
      OBVIOUS
    <2>2. D \in SUBSET Nat /\ D # {}
      BY <2>1
    <2> HIDE DEF D
    <2> QED BY <2>2, LeastExists
  <1>3. PICK p \in W : d = n - p
    OBVIOUS
  <1>4. \A o \in W : p >= o
    <2> SUFFICES ASSUME NEW o \in W PROVE p >= o
      OBVIOUS
    <2>1. d <= n - o
      BY <1>2
    <2> QED BY <1>3, <2>1
  <1>5. \E q \in W : \A o \in W : q >= o
    BY <1>4
  <1> HIDE DEF W
  <1>6. Earliest(s) \in W /\ \A o \in W : Earliest(s) <= o
    BY <1>1, Zenon DEF Earliest, W
  <1>7. Latest(s) \in W /\ \A o \in W : Latest(s) >= o
    BY <1>5, Zenon DEF Latest, W
  <1>8. \A o \in W : o \in Int
    BY DEF W
  <1> QED BY <1>6, <1>7, <1>8 DEF W

\* The recursive function of CounterCorrection exists.
LEMMA SumsExist ==
  ASSUME NEW s, NEW l \in Nat
  PROVE  \E f : f = [p \in 0..l |-> IF p = 0 THEN 0 ELSE f[p - 1] + Reset(s, p)]
  <1> DEFINE Sums(f, m) == f = [p \in 0..m |-> IF p = 0 THEN 0 ELSE f[p - 1] + Reset(s, p)]
             D == {m \in Nat : ~ \E f : Sums(f, m)}
  <1> SUFFICES ASSUME D # {} PROVE FALSE
    OBVIOUS
  <1>1. PICK m \in D : \A e \in D : m <= e
    BY LeastExists
  <1>2. CASE m = 0
    <2> DEFINE z == [p \in 0..0 |-> 0]
    <2>1. Sums(z, 0)
      OBVIOUS
    <2> QED BY <1>2, <2>1
  <1>3. CASE m # 0
    <2>1. m - 1 \in Nat /\ m - 1 \notin D
      <3> HIDE DEF Sums
      <3> QED BY <1>1, <1>3
    <2>2. PICK g : Sums(g, m - 1)
      BY <2>1
    <2> DEFINE f == [p \in 0..m |-> IF p = 0 THEN 0 ELSE g[p - 1] + Reset(s, p)]
    <2>3. \A p \in 0..(m - 1) : f[p] = g[p]
      <3>1. \A p \in 0..(m - 1) : g[p] = IF p = 0 THEN 0 ELSE g[p - 1] + Reset(s, p)
        BY <2>2, Zenon
      <3> QED BY <1>1, <1>3, <3>1
    <2>4. \A p \in 0..m : p # 0 => f[p - 1] = g[p - 1]
      <3> HIDE DEF f
      <3>1. \A p \in 0..m : p # 0 => p - 1 \in 0..(m - 1)
        BY <1>1
      <3> QED BY <2>3, <3>1
    <2>5. Sums(f, m)
      <3>1. f = [p \in 0..m |-> IF p = 0 THEN 0 ELSE f[p - 1] + Reset(s, p)]
        BY <2>4, Zenon
      <3> QED BY <3>1
    <2> QED BY <2>5
  <1> QED BY <1>2, <1>3

\* Of the samples up to p, the last one.
LEMMA PreviousIsBefore ==
  ASSUME NEW n \in Nat, NEW s, DOMAIN s \subseteq 1..n,
         NEW p \in DOMAIN s, NEW q \in DOMAIN s, q < p
  PROVE  \E o \in DOMAIN s : /\ o < p /\ Previous(s, p) = s[o]
                             /\ \A r \in DOMAIN s : r < p => r <= o
  <1> DEFINE B == {r \in DOMAIN s : r < p}
             b == [o \in B |-> s[o]]
  <1>1. DOMAIN b = B /\ B # {} /\ B \subseteq 1..n
    OBVIOUS
  <1>2. Previous(s, p) = b[Latest(b)]
    BY DEF Previous, Newest
  <1>3. Latest(b) \in B /\ \A r \in B : r <= Latest(b)
    BY <1>1, Ends
  <1> QED BY <1>2, <1>3

\* The correction makes up for every fall of a counter: what it adds and the
\* last value together are no less than the first value.
LEMMA CorrectionSuffices ==
  ASSUME NEW n \in Nat, NEW s, DOMAIN s # {}, DOMAIN s \subseteq 1..n,
         \A p \in DOMAIN s : s[p].val \in Nat
  PROVE  /\ CounterCorrection(s) \in Nat
         /\ Newest(s).val + CounterCorrection(s) >= Oldest(s).val
  <1> DEFINE l == Latest(s)
             first == Earliest(s)
             Sums(f) == f = [p \in 0..l |-> IF p = 0 THEN 0 ELSE f[p - 1] + Reset(s, p)]
             upTo == CHOOSE f : Sums(f)
  <1>1. /\ l \in DOMAIN s /\ first \in DOMAIN s /\ l \in Nat /\ first \in Nat /\ first > 0
        /\ \A o \in DOMAIN s : first <= o /\ o <= l
    BY Ends
  <1>2. Sums(upTo)
    BY <1>1, SumsExist
  <1>3. CounterCorrection(s) = upTo[l]
    BY DEF CounterCorrection
  <1> HIDE DEF upTo, l, first
  <1>4. upTo[0] = 0 /\ \A p \in 1..l : upTo[p] = upTo[p - 1] + Reset(s, p)
    BY <1>1, <1>2
  <1> DEFINE IsLast(o, p) == o <= p /\ \A r \in DOMAIN s : r <= p => r <= o
             Good(p) == /\ upTo[p] \in Nat
                        /\ \A o \in DOMAIN s : IsLast(o, p) => s[o].val + upTo[p] >= s[first].val
             D == {p \in 0..l : ~Good(p)}
  <1>5. D = {}
    <2> SUFFICES ASSUME D # {} PROVE FALSE
      OBVIOUS
    <2>1. PICK p \in D : \A e \in D : p <= e
      <3>1. D \in SUBSET Nat
        BY <1>1
      <3> HIDE DEF D
      <3> QED BY <3>1, LeastExists
    <2>2. CASE p = 0
      BY <1>4, <2>1, <2>2
    <2>3. CASE p # 0
      <3>1. p \in 1..l /\ p - 1 \in 0..l /\ p - 1 \notin D
        BY <1>1, <2>1, <2>3
      <3>2. Good(p - 1) /\ upTo[p] = upTo[p - 1] + Reset(s, p)
        BY <1>4, <3>1
      <3>3. CASE p \notin DOMAIN s
        <4>1. Reset(s, p) = 0
          BY <3>3 DEF Reset
        <4>2. \A o \in DOMAIN s : IsLast(o, p) => IsLast(o, p - 1)
          BY <3>1, <3>3
        <4> QED BY <2>1, <3>2, <4>1, <4>2
      <3>4. CASE p = first
        <4>1. Reset(s, p) = 0
          BY <3>4 DEF Reset, first
        <4>2. \A o \in DOMAIN s : IsLast(o, p) => o = first
          BY <1>1, <3>1, <3>4
        <4> QED BY <1>1, <2>1, <3>2, <4>1, <4>2
      <3>5. CASE p \in DOMAIN s /\ p # first
        <4>1. PICK q \in DOMAIN s : /\ q < p /\ Previous(s, p) = s[q]
                                    /\ \A r \in DOMAIN s : r < p => r <= q
          <5>1. first < p
            BY <1>1, <3>1, <3>5
          <5> QED BY <1>1, <3>5, <5>1, PreviousIsBefore
        <4>2. IsLast(q, p - 1)
          BY <3>1, <4>1
        <4>3. s[q].val + upTo[p - 1] >= s[first].val
          BY <3>2, <4>2
        <4>4. Reset(s, p) = IF s[p].val < s[q].val THEN s[q].val ELSE 0
          BY <3>5, <4>1 DEF Reset, first
        <4>5. s[p].val \in Nat /\ s[q].val \in Nat /\ s[first].val \in Nat /\ upTo[p - 1] \in Nat
          BY <1>1, <3>2, <3>5, <4>1
        <4>6. upTo[p] \in Nat /\ s[p].val + upTo[p] >= s[first].val
          BY <3>2, <4>3, <4>4, <4>5
        <4>7. \A o \in DOMAIN s : IsLast(o, p) => o = p
          BY <3>1, <3>5
        <4> QED BY <2>1, <4>6, <4>7
      <3> QED BY <3>3, <3>4, <3>5
    <2> QED BY <2>2, <2>3
  <1>6. Good(l)
    BY <1>1, <1>5
  <1>7. IsLast(l, l)
    BY <1>1
  <1>8. upTo[l] \in Nat /\ s[l].val + upTo[l] >= s[first].val
    BY <1>1, <1>6, <1>7
  <1> QED BY <1>3, <1>8 DEF Newest, Oldest, l, first

----------------------------------------------------------------------------
(* Extrapolation *)

LEMMA MulNat ==
  ASSUME NEW a \in Nat, NEW b \in Nat
  PROVE  a * b \in Nat
  OBVIOUS

LEMMA MulMono ==
  ASSUME NEW a \in Int, NEW b \in Int, NEW k \in Nat, a <= b
  PROVE  a * k <= b * k
  OBVIOUS

\* With n intervals over a time i, an increase r from the value v at a
\* distance d from the start: what is added before the first sample.
AddedBefore(n, i, r, v, d, counter) ==
  LET toZero == counter /\ r > 0 /\ v >= 0 /\ i * v < d * r
      isNear == IF toZero THEN 10 * n * i * v < 11 * i * r ELSE 10 * n * d < 11 * i
  IN  IF ~isNear THEN i * r ELSE IF toZero THEN 2 * n * i * v ELSE 2 * n * d * r

LEMMA StopsAtZero ==
  ASSUME NEW n \in Nat, NEW i \in Nat, NEW r \in Nat, NEW v \in Nat, NEW d \in Nat
  PROVE  /\ AddedBefore(n, i, r, v, d, TRUE) \in Nat
         /\ AddedBefore(n, i, r, v, d, TRUE) <= 2 * n * i * v
  <1> DEFINE iv == i * v   dr == d * r   ir == i * r
             niv == n * (i * v)   ndr == n * (d * r)
             toZero == r > 0 /\ iv < dr
  <1>1. iv \in Nat /\ dr \in Nat /\ ir \in Nat /\ niv \in Nat /\ ndr \in Nat
    BY MulNat
  <1>2. /\ 10 * n * i * v = 10 * niv /\ 2 * n * i * v = 2 * niv
        /\ 11 * i * r = 11 * ir /\ 2 * n * d * r = 2 * ndr
    OBVIOUS
  <1>3. AddedBefore(n, i, r, v, d, TRUE) =
          IF toZero THEN (IF 10 * niv < 11 * ir THEN 2 * niv ELSE ir)
                    ELSE (IF 10 * n * d < 11 * i THEN 2 * ndr ELSE ir)
    <2>1. v >= 0
      OBVIOUS
    <2> HIDE DEF niv, ndr
    <2> QED BY <1>2, <2>1 DEF AddedBefore
  <1>4. r = 0 => ndr = 0 /\ ir = 0
    OBVIOUS
  <1>5. dr <= iv => ndr <= niv
    <2>1. dr <= iv => dr * n <= iv * n
      <3> HIDE DEF dr, iv
      <3> QED BY <1>1, MulMono
    <2>2. dr * n = ndr /\ iv * n = niv
      OBVIOUS
    <2> QED BY <2>1, <2>2
  <1>6. ~(10 * n * d < 11 * i) => 11 * ir <= 10 * ndr
    <2>1. 11 * i <= 10 * n * d => (11 * i) * r <= (10 * n * d) * r
      <3> DEFINE a == 11 * i   b == 10 * n * d
      <3>1. a \in Int /\ b \in Int
        OBVIOUS
      <3> HIDE DEF a, b
      <3>2. a <= b => a * r <= b * r
        BY <3>1, MulMono
      <3> QED BY <3>2 DEF a, b
    <2>2. (11 * i) * r = 11 * ir /\ (10 * n * d) * r = 10 * ndr
      OBVIOUS
    <2>3. ~(10 * n * d < 11 * i) => 11 * i <= 10 * n * d
      OBVIOUS
    <2> QED BY <2>1, <2>2, <2>3
  <1> DEFINE added == AddedBefore(n, i, r, v, d, TRUE)
             bound == 2 * n * i * v
             isNear == 10 * n * d < 11 * i
  <1>7. /\ bound = 2 * niv
        /\ added = IF toZero THEN (IF 10 * niv < 11 * ir THEN 2 * niv ELSE ir)
                             ELSE (IF isNear THEN 2 * ndr ELSE ir)
        /\ ~isNear => 11 * ir <= 10 * ndr
    BY <1>2, <1>3, <1>6
  <1> HIDE DEF iv, dr, ir, niv, ndr, added, bound, isNear
  <1>8. ASSUME toZero PROVE added \in Nat /\ added <= bound
    <2> HIDE DEF toZero
    <2>1. added = IF 10 * niv < 11 * ir THEN 2 * niv ELSE ir
      BY <1>7, <1>8
    <2> QED BY <1>1, <1>7, <2>1
  <1>9. ASSUME ~toZero PROVE added \in Nat /\ added <= bound
    <2>1. ndr <= niv
      BY <1>1, <1>4, <1>5, <1>9
    <2> HIDE DEF toZero
    <2>2. added = IF isNear THEN 2 * ndr ELSE ir
      BY <1>7, <1>9
    <2> QED BY <1>1, <1>7, <2>1, <2>2
  <1> QED BY <1>8, <1>9 DEF added, bound

----------------------------------------------------------------------------
(* The steps *)

LEMMA InitInv == GDInit => GDInv
  BY DEF GDInit, GDInv, Phases, Window, CurrentWindow, NonePast, WindowHolds, WindowSorted, Ordered,
         HasLatest, Passed, InReach, Exact, Complete

LEMMA StartInv ==
  ASSUME GDInv, GDStart
  PROVE  GDInv'
  <1>1. /\ acc' = NoTransition /\ taken' = 0 /\ call' \in Calls /\ input' \in Inputs
        /\ phase' = "rows"
    BY DEF GDStart, GDInv, Phases
  <1>2. Len(input') \in Nat
    BY <1>1, GDAssumption
  <1> QED BY <1>1, <1>2
          DEF GDInv, Phases, Window, CurrentWindow, NonePast, WindowHolds, WindowSorted, Ordered,
              HasLatest, Passed, InReach, Exact, Complete

\* Steps that leave the rows and the transition state alone.
LEMMA Frame ==
  ASSUME GDInv, UNCHANGED <<call, input, taken, acc>>
  PROVE  /\ Window' /\ Exact' /\ (Sane => Complete)'
         /\ (acc # NoTransition => \A k \in 1..Len(acc.deltas) : WindowMax(k) <= call.greatest)'
  <1>1. DeltaValues' = DeltaValues
    BY DEF DeltaValues, Samples
  <1>2. /\ \A k : RowsIn(k)' = RowsIn(k) /\ WindowMin(k)' = WindowMin(k)
        /\ \A k : WindowMax(k)' = WindowMax(k)
        /\ \A k : InTime(k)' = InTime(k) /\ Samples(InTime(k))' = Samples(InTime(k))
    BY DEF RowsIn, InTime, WindowMin, WindowMax, Samples, Fresh, Time, Step, RangeSize
  <1>3. CurrentWindow'
    BY <1>1 DEF GDInv, Window, CurrentWindow, WindowMin, WindowMax, Step, RangeSize
  <1>4. NonePast' /\ WindowSorted' /\ HasLatest'
    BY DEF GDInv, Window, NonePast, WindowSorted, Ordered, HasLatest, Fresh, Time
  <1>5. WindowHolds'
    BY DEF GDInv, Window, WindowHolds, RowsIn, WindowMin, WindowMax, Fresh, Time, Step, RangeSize
  <1>6. Exact' /\ (Sane => Complete)'
    BY <1>2 DEF GDInv, Exact, Complete, Ordered, Sane, Ascending, Fresh, Time, Step, RangeSize
  <1>7. (acc # NoTransition => \A k \in 1..Len(acc.deltas) : WindowMax(k) <= call.greatest)'
    BY DEF GDInv, InReach, WindowMin, WindowMax, Step, RangeSize
  <1> QED BY <1>3, <1>4, <1>5, <1>6, <1>7 DEF Window

LEMMA FlushInv ==
  ASSUME GDInv, FlushForRow \/ FlushRest
  PROVE  GDInv'
  <1>1. /\ acc # NoTransition /\ acc' = Flushed /\ phase # "idle" /\ phase' = phase
        /\ phase \in {"add", "final"}
        /\ UNCHANGED <<call, input, taken>>
    BY DEF FlushForRow, FlushRest, GDInv, Phases
  <1>2. /\ call \in Calls /\ input \in Inputs /\ taken \in Nat /\ taken <= Len(input)
        /\ phase = "add" => taken < Len(input) /\ InBounds(Row)
    BY <1>1 DEF GDInv, Phases
  <1>3. acc.max \in Int /\ call.greatest \in Int /\ Step \in Nat
    <2>1. Len(acc.deltas) + 1 \in Nat /\ acc.max = WindowMax(Len(acc.deltas) + 1)
      BY <1>1 DEF GDInv, Window, CurrentWindow
    <2> QED BY <1>2, <2>1, WindowStep, CallTypes
  <1>4. phase = "add" => Row \in 1..Len(input) /\ Time(Row) \in Int
    BY <1>2, InputTypes DEF Row
  <1>5. phase = "add" => Time(Row) > acc.max
    BY DEF FlushForRow, FlushRest
  <1>6. acc.max <= call.greatest
    BY <1>2, <1>3, <1>4, <1>5 DEF FlushForRow, FlushRest, MoreWindows, InBounds
  <1>7. /\ acc' # NoTransition /\ acc'.max = acc.max + Step
        /\ Window' /\ Exact' /\ (Sane => Complete)'
        /\ \A k \in 1..Len(acc'.deltas) : WindowMax(k) <= call.greatest
    BY <1>1, <1>6, FlushKeeps
  <1>8. Phases'
    BY <1>1, <1>7 DEF GDInv, Phases, Fresh, Row, InBounds, Time, Step
  <1>9. Passed'
    <2>1. phase = "add" => Time(Row) > (acc.max + Step) - Step
      BY <1>3, <1>4, <1>5
    <2> QED BY <1>1, <1>7, <2>1 DEF Passed, Row, Time, Step
  <1>10. InReach'
    <2>1. (\A k \in 1..Len(acc.deltas) : WindowMax(k) <= call.greatest)'
      BY <1>1, <1>7 DEF WindowMax, WindowMin, Step, RangeSize
    <2> QED BY <1>1, <2>1 DEF InReach
  <1> QED BY <1>7, <1>8, <1>9, <1>10 DEF GDInv

LEMMA NewWindow ==
  ASSUME call \in Calls
  PROVE  /\ NewTransition # NoTransition
         /\ WindowMin(1) = call.lowest /\ WindowMax(1) = call.lowest + RangeSize
         /\ <<>> \in Seq(DeltaValues) /\ Len(<<>>) = 0
  <1> DEFINE w == Step
  <1>1. WindowMin(1) = call.lowest + (1 - 1) * w /\ WindowMax(1) = WindowMin(1) + RangeSize
    BY DEF WindowMin, WindowMax
  <1>2. w \in Nat /\ call.lowest \in Int
    BY CallTypes
  <1> HIDE DEF w
  <1>3. (1 - 1) * w = 0
    BY <1>2
  <1>4. NewTransition # NoTransition
    BY DEF NewTransition, NoTransition
  <1> QED BY <1>1, <1>2, <1>3, <1>4

\* A stale row is consumed: no window changes.
LEMMA TakeStale ==
  ASSUME GDInv, acc # NoTransition, phase # "idle", taken < Len(input), ~Fresh(Row),
         taken' = Row, phase' = phase, phase = "rows", UNCHANGED <<call, input, acc>>
  PROVE  GDInv'
  <1>1. call \in Calls /\ input \in Inputs /\ taken \in Nat
    BY DEF GDInv, Phases
  <1>2. Len(input) \in Nat /\ 1..taken' = 1..taken \cup {Row} /\ taken' \in Nat
        /\ taken' <= Len(input)
    BY <1>1, InputTypes DEF Row
  <1>3. \A p : Fresh(p)' = Fresh(p) /\ Time(p)' = Time(p)
    BY DEF Fresh, Time
  <1>4. /\ \A k : WindowMin(k)' = WindowMin(k) /\ WindowMax(k)' = WindowMax(k)
        /\ Step' = Step /\ RangeSize' = RangeSize
    BY DEF WindowMin, WindowMax, Step, RangeSize
  <1>5. \A k : RowsIn(k)' = RowsIn(k)
    BY <1>2, <1>3, <1>4 DEF RowsIn
  <1>6. \A k : InTime(k)' = InTime(k)
    BY <1>3, <1>4, <1>5 DEF InTime
  <1>7. \A k : Samples(InTime(k))' = Samples(InTime(k))
    BY <1>6 DEF Samples
  <1>8. DeltaValues' = DeltaValues
    BY DEF DeltaValues, Samples
  <1>9. Phases'
    BY <1>2, <1>4 DEF GDInv, Phases
  <1>10. CurrentWindow'
    BY <1>8 DEF GDInv, Window, CurrentWindow, WindowMin, WindowMax, Step, RangeSize
  <1>11. NonePast' /\ WindowSorted' /\ HasLatest'
    BY <1>2 DEF GDInv, Window, NonePast, WindowSorted, Ordered, HasLatest, Fresh, Time
  <1>12. WindowHolds'
    <2>1. RowsIn(Len(acc.deltas) + 1)' = RowsIn(Len(acc.deltas) + 1)
      BY <1>2 DEF RowsIn, WindowMin, WindowMax, Fresh, Time, Step, RangeSize
    <2> QED BY <2>1 DEF GDInv, Window, WindowHolds
  <1>13. Exact' /\ (Sane => Complete)'
    <2>1. \A k : Ordered(InTime(k))' = Ordered(InTime(k))
      BY <1>3, <1>6 DEF Ordered
    <2>2. Sane' = Sane
      BY DEF Sane, Ascending, Fresh, Time, Step, RangeSize
    <2> QED BY <1>4, <1>5, <1>6, <1>7, <2>1, <2>2 DEF GDInv, Exact, Complete
  <1>14. Passed'
    BY <1>2 DEF GDInv, Passed, Fresh, Time, Step
  <1>15. InReach'
    BY DEF GDInv, InReach, WindowMin, WindowMax, Step, RangeSize
  <1> QED BY <1>9, <1>10, <1>11, <1>12, <1>13, <1>14, <1>15 DEF GDInv, Window

\* The first row makes the state; if it is stale, nothing else happens.
LEMMA TakeFirst ==
  ASSUME GDInv, TakeRow, acc = NoTransition
  PROVE  GDInv'
  <1>1. /\ phase = "rows" /\ taken = 0 /\ taken < Len(input) /\ Step # 0
        /\ call \in Calls /\ input \in Inputs
        /\ acc' = NewTransition /\ InBounds(Row)
        /\ UNCHANGED <<call, input>>
        /\ IF Fresh(Row) THEN phase' = "add" /\ taken' = taken
                         ELSE phase' = "rows" /\ taken' = Row
    BY DEF TakeRow, HasRow, GDInv, Phases
  <1>2. /\ Len(input) \in Nat /\ Row = 1 /\ taken' \in Nat /\ taken' <= Len(input)
        /\ \A p \in 1..taken' : p = 1 /\ ~Fresh(Row)
    BY <1>1, InputTypes DEF Row
  <1>3. \A p \in 1..taken' : ~Fresh(p)'
    BY <1>1, <1>2 DEF Fresh
  <1>4. /\ acc'.window = {} /\ acc'.deltas = <<>> /\ acc' # NoTransition
        /\ acc'.min = call.lowest /\ acc'.max = call.lowest + RangeSize
        /\ Len(acc'.deltas) = 0
    BY <1>1, NewWindow DEF NewTransition
  <1>5. Phases'
    BY <1>1, <1>2, <1>4 DEF Phases, Fresh, Row, InBounds, Time, Step
  <1>6. CurrentWindow'
    <2>1. acc' = [kind |-> "some", window |-> acc'.window, deltas |-> acc'.deltas,
                  min |-> acc'.min, max |-> acc'.max]
      BY <1>1 DEF NewTransition
    <2>2. acc'.deltas \in Seq(DeltaValues')
      BY <1>4
    <2>3. (acc.min = WindowMin(1))' /\ (acc.max = WindowMax(1))' /\ Len(acc'.deltas) + 1 = 1
      BY <1>1, <1>4, NewWindow DEF WindowMin, WindowMax, Step, RangeSize
    <2> QED BY <2>1, <2>2, <2>3 DEF CurrentWindow
  <1>7. NonePast' /\ WindowSorted' /\ HasLatest'
    BY <1>3, <1>4 DEF NonePast, WindowSorted, Ordered, HasLatest
  <1>8. WindowHolds'
    BY <1>3, <1>4 DEF WindowHolds, RowsIn
  <1>9. Passed' /\ Exact' /\ Complete'
    BY <1>4 DEF Passed, Exact, Complete
  <1>10. InReach'
    BY <1>1, <1>4 DEF InReach
  <1> QED BY <1>5, <1>6, <1>7, <1>8, <1>9, <1>10 DEF GDInv, Window

LEMMA TakeRowInv ==
  ASSUME GDInv, TakeRow
  PROVE  GDInv'
  <1>1. CASE acc = NoTransition
    BY <1>1, TakeFirst
  <1>2. CASE acc # NoTransition /\ Fresh(Row)
    <2>1. /\ phase = "rows" /\ phase' = "add" /\ taken < Len(input) /\ InBounds(Row)
          /\ UNCHANGED <<call, input, taken, acc>>
      BY <1>2 DEF TakeRow, HasRow
    <2>2. Phases'
      BY <1>2, <2>1 DEF GDInv, Phases, Fresh, Row, InBounds, Time, Step
    <2>3. Passed'
      BY <2>1 DEF GDInv, Passed, Fresh, Row, Time, Step
    <2>4. InReach'
      BY <2>1, Frame DEF InReach
    <2> QED BY <2>1, <2>2, <2>3, <2>4, Frame DEF GDInv
  <1>3. CASE acc # NoTransition /\ ~Fresh(Row)
    BY <1>3, TakeStale DEF TakeRow, HasRow
  <1> QED BY <1>1, <1>2, <1>3

\* The sample that a row is compared with is the latest of the window.
LEMMA NewestRow ==
  ASSUME GDInv, acc # NoTransition, acc.window # {}
  PROVE  \E p \in acc.window : /\ \A o \in acc.window : o <= p
                               /\ Newest(Samples(acc.window)).time = Time(p)
  <1> DEFINE W == acc.window
             m == CHOOSE p \in W : \A o \in W : p >= o
  <1>1. W \subseteq Int
    BY DEF GDInv, Window, WindowHolds, RowsIn, Phases
  <1>2. \E p \in W : \A o \in W : p >= o
    BY <1>1 DEF GDInv, Window, HasLatest
  <1>3. m \in W /\ \A o \in W : m >= o
    BY <1>2
  <1>4. DOMAIN Samples(W) = W /\ Samples(W)[m] = input[m]
    BY <1>3 DEF Samples
  <1>5. Latest(Samples(W)) = m
    BY <1>4 DEF Latest
  <1>6. Newest(Samples(W)).time = Time(m)
    BY <1>4, <1>5 DEF Newest, Time
  <1> HIDE DEF m
  <1> QED BY <1>1, <1>3, <1>6

\* A row that AddRow accepts is no earlier than the rows of the window, and is past
\* every window flushed or comes after a row that is; always the former, with rows
\* in order or windows without gaps.
LEMMA RowIsLast ==
  ASSUME GDInv, AddRow
  PROVE  /\ \A o \in acc.window : Time(o) <= Time(Row)
         /\ \A k \in 1..Len(acc.deltas) :
              \/ Time(Row) > WindowMax(k)
              \/ ~Sane /\ \E p \in 1..taken : Fresh(p) /\ Time(p) > WindowMax(k)
  <1> DEFINE n == Len(acc.deltas)
             t == Time(Row)
  <1>1. /\ phase = "add" /\ acc # NoTransition /\ t <= acc.max /\ ~OutOfOrder
        /\ call \in Calls /\ input \in Inputs /\ taken \in Nat /\ taken < Len(input)
        /\ Fresh(Row)
    BY DEF AddRow, GDInv, Phases
  <1>2. /\ Len(input) \in Nat /\ Row \in 1..Len(input) /\ t \in Int
        /\ \A p \in 1..taken : p \in 1..Len(input) /\ Time(p) \in Int /\ p <= Row
    BY <1>1, InputTypes DEF Row
  <1>3. acc.window = RowsIn(n + 1)
    BY <1>1 DEF GDInv, Window, WindowHolds
  <1>4. \A o \in acc.window : Time(o) <= t
    <2> SUFFICES ASSUME NEW o \in acc.window PROVE Time(o) <= t
      OBVIOUS
    <2>1. PICK p \in acc.window : /\ \A q \in acc.window : q <= p
                                  /\ Newest(Samples(acc.window)).time = Time(p)
      BY <1>1, NewestRow
    <2>2. Time(o) <= Time(p)
      BY <1>1, <2>1 DEF GDInv, Window, WindowSorted, Ordered
    <2>3. ~(Time(p) > t)
      BY <1>1, <2>1 DEF OutOfOrder
    <2>4. Time(p) \in Int /\ Time(o) \in Int
      BY <1>2, <1>3 DEF RowsIn
    <2> HIDE DEF t
    <2> QED BY <1>2, <2>2, <2>3, <2>4
  <1>5. ASSUME NEW k \in 1..n
        PROVE  \/ t > WindowMax(k)
               \/ ~Sane /\ \E p \in 1..taken : Fresh(p) /\ Time(p) > WindowMax(k)
    <2>1. n \in Nat /\ acc.min = WindowMin(n + 1) /\ acc.max = WindowMax(n + 1)
      BY <1>1 DEF GDInv, Window, CurrentWindow
    <2>2. /\ acc.max \in Int /\ acc.min \in Int /\ WindowMax(n) \in Int /\ Step \in Nat
          /\ RangeSize \in Nat
          /\ acc.max = acc.min + RangeSize /\ acc.max = WindowMax(n) + Step
      <3>1. n + 1 \in Nat
        BY <2>1
      <3> QED BY <1>1, <2>1, <3>1, WindowStep, CallTypes
    <2>3. WindowMax(k) <= WindowMax(n) /\ WindowMax(k) \in Int
      <3>1. k \in Nat /\ k <= n
        BY <2>1
      <3> QED BY <1>1, <2>1, <3>1, WindowOrder, WindowStep
    <2>4. \/ t > acc.max - Step
          \/ \E p \in 1..taken : Fresh(p) /\ Time(p) > acc.max - Step
      <3>1. n > 0
        BY <2>1
      <3> QED BY <1>1, <3>1 DEF GDInv, Passed
    <2>5. ASSUME Sane, NEW p \in 1..taken, Fresh(p), Time(p) > acc.max - Step
          PROVE  Time(p) <= t
      <3>1. CASE Ascending
        BY <1>1, <1>2, <2>5, <3>1 DEF Ascending
      <3>2. CASE Step <= RangeSize
        <4>1. Time(p) >= acc.min /\ Time(p) <= acc.max
          <5>1. Time(p) <= acc.max
            BY <1>1, <2>5 DEF GDInv, Window, NonePast
          <5>2. Time(p) \in Int /\ Time(p) > acc.max - Step
            BY <1>2, <2>5
          <5> QED BY <2>2, <3>2, <5>1, <5>2
        <4>2. p \in acc.window
          BY <1>3, <2>1, <2>5, <4>1 DEF RowsIn
        <4> QED BY <1>4, <4>2
      <3> QED BY <2>5, <3>1, <3>2 DEF Sane
    <2>6. Sane => t > acc.max - Step
      BY <1>2, <2>2, <2>4, <2>5
    <2>7. CASE t > acc.max - Step
      <3> HIDE DEF t
      <3> QED BY <1>2, <2>2, <2>3, <2>7
    <2>8. CASE ~(t > acc.max - Step)
      <3>1. PICK p \in 1..taken : Fresh(p) /\ Time(p) > acc.max - Step
        BY <2>4, <2>8
      <3>2. Time(p) \in Int
        BY <1>2
      <3>3. Time(p) > WindowMax(k)
        BY <2>2, <2>3, <3>1, <3>2
      <3> QED BY <2>6, <2>8, <3>1, <3>3
    <2> QED BY <2>7, <2>8
  <1> QED BY <1>4, <1>5

LEMMA AddRowInv ==
  ASSUME GDInv, AddRow
  PROVE  GDInv'
  <1> DEFINE n == Len(acc.deltas)
             t == Time(Row)
  <1>1. /\ phase = "add" /\ acc # NoTransition /\ t <= acc.max
        /\ acc' = IF t >= acc.min THEN [acc EXCEPT !.window = @ \cup {Row}] ELSE acc
        /\ taken' = Row /\ phase' = "rows" /\ UNCHANGED <<call, input>>
        /\ call \in Calls /\ input \in Inputs /\ taken \in Nat /\ taken < Len(input)
        /\ Fresh(Row) /\ Step # 0
    BY DEF AddRow, GDInv, Phases
  <1>2. /\ Len(input) \in Nat /\ Row \in 1..Len(input) /\ t \in Int
        /\ 1..taken' = 1..taken \cup {Row} /\ Row \notin 1..taken
        /\ taken' \in Nat /\ taken' <= Len(input)
        /\ \A p \in 1..taken : Time(p) \in Int /\ p \in Int /\ p <= Row /\ ~(Row <= p)
    BY <1>1, InputTypes DEF Row
  <1>3. /\ acc = [kind |-> "some", window |-> acc.window, deltas |-> acc.deltas,
                  min |-> acc.min, max |-> acc.max]
        /\ acc.deltas \in Seq(DeltaValues) /\ n \in Nat
        /\ acc.min = WindowMin(n + 1) /\ acc.max = WindowMax(n + 1)
        /\ acc.window = RowsIn(n + 1)
    BY <1>1 DEF GDInv, Window, CurrentWindow, WindowHolds
  <1>4. /\ acc.min \in Int /\ acc.max \in Int
    <2>1. n + 1 \in Nat
      BY <1>3
    <2> QED BY <1>1, <1>3, <2>1, WindowStep
  <1> DEFINE held == IF t >= acc.min THEN acc.window \cup {Row} ELSE acc.window
  <1>5. acc' = [kind |-> "some", window |-> held, deltas |-> acc.deltas,
                min |-> acc.min, max |-> acc.max]
    <2>1. acc = [kind |-> "some", window |-> acc.window, deltas |-> acc.deltas,
                 min |-> acc.min, max |-> acc.max]
      BY <1>3
    <2>2. CASE t >= acc.min
      <3>1. acc' = [acc EXCEPT !.window = @ \cup {Row}] /\ held = acc.window \cup {Row}
        BY <1>1, <2>2
      <3> HIDE DEF held
      <3> QED BY <2>1, <3>1
    <2>3. CASE ~(t >= acc.min)
      <3>1. acc' = acc /\ held = acc.window
        BY <1>1, <2>3
      <3> HIDE DEF held
      <3> QED BY <2>1, <3>1
    <2> QED BY <2>2, <2>3
  <1>6. /\ acc'.window = held /\ acc'.deltas = acc.deltas
        /\ acc'.min = acc.min /\ acc'.max = acc.max /\ acc' # NoTransition
    BY <1>5 DEF NoTransition
  <1>7. /\ \A p : Fresh(p)' = Fresh(p) /\ Time(p)' = Time(p)
        /\ \A k : WindowMin(k)' = WindowMin(k) /\ WindowMax(k)' = WindowMax(k)
        /\ Step' = Step /\ RangeSize' = RangeSize
    BY <1>1 DEF Fresh, Time, WindowMin, WindowMax, Step, RangeSize
  <1>8. \A o \in acc.window : Time(o) <= t
    BY RowIsLast
  <1> HIDE DEF held
  <1>9. Phases'
    BY <1>1, <1>2, <1>6, <1>7 DEF Phases
  <1>10. CurrentWindow'
    <2>1. DeltaValues' = DeltaValues
      BY <1>1 DEF DeltaValues, Samples
    <2> QED BY <1>1, <1>3, <1>5, <1>6, <2>1
            DEF CurrentWindow, WindowMin, WindowMax, Step, RangeSize
  <1>11. NonePast'
    BY <1>1, <1>2, <1>6 DEF GDInv, Window, NonePast, Fresh, Time
  <1>12. WindowHolds'
    <2>1. held = {p \in 1..taken' : /\ Fresh(p) /\ WindowMin(n + 1) <= Time(p)
                                    /\ Time(p) <= WindowMax(n + 1)}
      BY <1>1, <1>2, <1>3, <1>4 DEF held, RowsIn
    <2>2. RowsIn(n + 1)' = {p \in 1..taken' : /\ Fresh(p) /\ WindowMin(n + 1) <= Time(p)
                                             /\ Time(p) <= WindowMax(n + 1)}
      BY <1>1, <1>6 DEF RowsIn, Fresh, Time, WindowMin, WindowMax, Step, RangeSize
    <2> QED BY <1>6, <2>1, <2>2 DEF WindowHolds
  <1>13. acc.window \subseteq 1..taken
    BY <1>3 DEF RowsIn
  <1>14. WindowSorted'
    <2>1. \A p, o \in held : o <= p => Time(o) <= Time(p)
      <3>1. \A p, o \in acc.window : o <= p => Time(o) <= Time(p)
        BY <1>1 DEF GDInv, Window, WindowSorted, Ordered
      <3> QED BY <1>2, <1>8, <1>13, <3>1 DEF held
    <2> QED BY <1>6, <1>7, <2>1 DEF WindowSorted, Ordered
  <1>15. HasLatest'
    <2>1. held # {} => \E p \in held : \A o \in held : o <= p
      BY <1>1, <1>2, <1>13 DEF held, GDInv, Window, HasLatest
    <2> QED BY <1>6, <2>1 DEF HasLatest
  <1>16. Passed'
    <2>1. n > 0 => \E p \in 1..taken' : Fresh(p) /\ Time(p) > acc.max - Step
      BY <1>1, <1>2 DEF GDInv, Passed
    <2> QED BY <1>1, <1>6, <2>1 DEF Passed, Fresh, Time, Step
  <1>17. InReach'
    BY <1>1, <1>6, <1>7 DEF GDInv, InReach
  <1>18. \A k \in 1..n : WindowMax(k) \in Int
    BY <1>1, <1>3, WindowStep
  <1>19. \A k : RowsIn(k)' = {p \in 1..taken' : /\ Fresh(p) /\ WindowMin(k) <= Time(p)
                                               /\ Time(p) <= WindowMax(k)}
    BY <1>7 DEF RowsIn
  <1>20. \A k \in 1..n : InTime(k)' = InTime(k)
    <2> SUFFICES ASSUME NEW k \in 1..n PROVE InTime(k)' = InTime(k)
      OBVIOUS
    <2>1. InTime(k)' = {p \in RowsIn(k)' : \A q \in 1..p : Fresh(q) => Time(q) <= WindowMax(k)}
      BY <1>7 DEF InTime
    <2>2. ASSUME Row \in InTime(k)' PROVE FALSE
      <3>1. /\ t <= WindowMax(k)
            /\ \A q \in 1..Row : Fresh(q) => Time(q) <= WindowMax(k)
        BY <1>19, <2>1, <2>2
      <3>2. ~(t > WindowMax(k))
        BY <1>2, <1>18, <3>1
      <3>3. PICK p \in 1..taken : Fresh(p) /\ Time(p) > WindowMax(k)
        BY <3>2, RowIsLast
      <3>4. p \in 1..Row /\ Time(p) \in Int
        BY <1>2
      <3> QED BY <1>18, <3>1, <3>3, <3>4
    <2>3. \A p \in 1..taken : p \in RowsIn(k)' <=> p \in RowsIn(k)
      BY <1>2, <1>19 DEF RowsIn
    <2>4. RowsIn(k) \subseteq 1..taken /\ RowsIn(k)' \subseteq 1..taken \cup {Row}
      BY <1>2, <1>19 DEF RowsIn
    <2> QED BY <2>1, <2>2, <2>3, <2>4 DEF InTime
  <1>21. Exact'
    <2>1. \A k \in 1..n : Samples(InTime(k))' = Samples(InTime(k))
      BY <1>1, <1>20 DEF Samples
    <2>2. \A k \in 1..n : Ordered(InTime(k))' = Ordered(InTime(k))
      BY <1>7, <1>20 DEF Ordered
    <2> QED BY <1>1, <1>6, <1>7, <2>1, <2>2 DEF GDInv, Exact
  <1>22. (Sane => Complete)'
    <2>1. Sane' = Sane
      BY <1>1 DEF Sane, Ascending, Fresh, Time, Step, RangeSize
    <2>2. SUFFICES ASSUME Sane PROVE Complete'
      BY <2>1
    <2>3. \A k \in 1..n : RowsIn(k)' = RowsIn(k)
      <3> SUFFICES ASSUME NEW k \in 1..n PROVE RowsIn(k)' = RowsIn(k)
        OBVIOUS
      <3>1. ~(t <= WindowMax(k))
        BY <1>2, <1>18, <2>2, RowIsLast
      <3> QED BY <1>2, <1>19, <3>1 DEF RowsIn
    <2> QED BY <1>1, <1>6, <1>20, <2>2, <2>3 DEF GDInv, Complete
  <1> QED BY <1>9, <1>10, <1>11, <1>12, <1>14, <1>15, <1>16, <1>17, <1>21, <1>22
          DEF GDInv, Window

LEMMA NextInv == GDInv /\ [GDNext]_gdVars => GDInv'
  <1> SUFFICES ASSUME GDInv, [GDNext]_gdVars PROVE GDInv'
    OBVIOUS
  <1>1. ASSUME UNCHANGED <<call, input, taken, acc>>, Phases', phase' # "add",
               phase' = "rows" => phase = "rows",
               phase' = "done" => acc.max > call.greatest
        PROVE  GDInv'
    <2>1. Passed'
      BY <1>1 DEF GDInv, Passed, Fresh, Time, Step
    <2>2. InReach'
      BY <1>1, Frame DEF InReach
    <2> QED BY <1>1, <2>1, <2>2, Frame DEF GDInv
  <1>2. CASE UNCHANGED gdVars
    <2>1. Phases' /\ Passed'
      BY <1>2 DEF gdVars, GDInv, Phases, Passed, Fresh, Row, InBounds, Time, Step
    <2>2. InReach'
      BY <1>2, Frame DEF gdVars, GDInv, InReach
    <2> QED BY <1>2, <2>1, <2>2, Frame DEF gdVars, GDInv
  <1>3. CASE GDStart
    BY <1>3, StartInv
  <1>4. CASE RejectRow \/ RejectOrder
    <2>1. UNCHANGED <<call, input, taken, acc>> /\ phase' = "error" /\ phase # "idle"
      BY <1>4 DEF RejectRow, RejectOrder, HasRow
    <2>2. Phases'
      BY <2>1 DEF GDInv, Phases, Step
    <2> QED BY <1>1, <2>1, <2>2
  <1>5. CASE TakeRow
    BY <1>5, TakeRowInv
  <1>6. CASE FlushForRow \/ FlushRest
    BY <1>6, FlushInv
  <1>7. CASE AddRow
    BY <1>7, AddRowInv
  <1>8. CASE FinalState
    <2>1. /\ UNCHANGED <<call, input, taken, acc>> /\ phase = "rows"
          /\ phase' = IF acc = NoTransition THEN "null" ELSE "final"
      BY <1>8 DEF FinalState
    <2>2. Phases'
      BY <2>1 DEF GDInv, Phases, Step
    <2> QED BY <1>1, <2>1, <2>2
  <1>9. CASE ReturnDeltas
    <2>1. /\ UNCHANGED <<call, input, taken, acc>> /\ phase = "final" /\ phase' = "done"
          /\ ~(acc.max <= call.greatest)
      BY <1>9 DEF ReturnDeltas, MoreWindows
    <2>2. Phases'
      BY <2>1 DEF GDInv, Phases, Step
    <2>3. acc.max \in Int /\ call.greatest \in Int
      <3>1. /\ call \in Calls /\ Len(acc.deltas) + 1 \in Nat
            /\ acc.max = WindowMax(Len(acc.deltas) + 1)
        BY <2>1 DEF GDInv, Phases, Window, CurrentWindow
      <3> QED BY <3>1, WindowStep, CallTypes
    <2> QED BY <1>1, <2>1, <2>2, <2>3
  <1> QED BY <1>2, <1>3, <1>4, <1>5, <1>6, <1>7, <1>8, <1>9 DEF GDNext

\* In every reachable state the window holds exactly the rows consumed that
\* lie in it, in order, whatever rows arrive.
THEOREM GDInvariant == GDSpec => []GDInv
  <1> QED BY InitInv, NextInv, PTL DEF GDSpec

\* Each delta is computed from exactly the rows of its window that came before
\* any row past it, for every step, range and sequence of rows; those are all rows
\* of the window if rows are in order or windows leave no gap.
THEOREM DeltasExactHolds == GDSpec => []DeltasExact
  <1>1. GDInv => DeltasExact
    BY DEF GDInv, Exact, Complete, Sane, DeltasExact, Window, CurrentWindow
  <1> QED BY <1>1, GDInvariant, PTL

\* There is one element for each window that ends by the greatest time.
THEOREM OneDeltaPerWindowHolds == GDSpec => []OneDeltaPerWindow
  <1>1. GDInv => OneDeltaPerWindow
    <2> SUFFICES ASSUME GDInv PROVE OneDeltaPerWindow
      OBVIOUS
    <2>1. acc # NoTransition => \A k \in DOMAIN acc.deltas : WindowMax(k) <= call.greatest
      BY DEF GDInv, InReach, Window, CurrentWindow
    <2>2. phase = "done" => WindowMax(Len(acc.deltas) + 1) > call.greatest
      BY DEF GDInv, Phases, InReach, Window, CurrentWindow
    <2> QED BY <2>1, <2>2 DEF OneDeltaPerWindow
  <1> QED BY <1>1, GDInvariant, PTL

----------------------------------------------------------------------------
(* Deltas of counters *)

LEMMA CounterAboveZero ==
  ASSUME NEW n \in Nat, NEW s, NEW c, NEW lo \in Int, NEW hi \in Int,
         IsCounter(c), Delta(c, s, lo, hi) # Null,
         DOMAIN s \subseteq 1..n,
         \A p \in DOMAIN s :
           s[p].val \in Nat /\ s[p].time \in Int /\ lo <= s[p].time /\ s[p].time <= hi,
         \A p, o \in DOMAIN s : o <= p => s[o].time <= s[p].time
  PROVE  /\ AddedAtStart(c, s, lo) <= Scale(s) * Oldest(s).val
         /\ Delta(c, s, lo, hi).num >= 0
  <1> DEFINE m == Intervals(s)
             i == SampledInterval(s)
             r == Increase(c, s)
             v == Oldest(s).val
             d == Oldest(s).time - lo
             e == hi - Newest(s).time
  <1>1. /\ ~(Cardinality(DOMAIN s) < 2)
        /\ Delta(c, s, lo, hi).num =
             Scale(s) * Increase(c, s) + AddedAtStart(c, s, lo) + AddedAtEnd(c, s, hi)
    BY DEF Delta
  <1>2. Cardinality(DOMAIN s) \in Nat /\ DOMAIN s # {} /\ m \in Nat
    <2>1. IsFiniteSet(DOMAIN s)
      <3>1. IsFiniteSet(1..n)
        BY FS_Interval
      <3> QED BY <3>1, FS_Subset
    <2>2. Cardinality(DOMAIN s) \in Nat
      BY <2>1, FS_CardinalityType
    <2>3. DOMAIN s # {}
      BY <1>1, FS_EmptySet
    <2> QED BY <1>1, <2>2, <2>3 DEF Intervals
  <1>3. /\ Earliest(s) \in DOMAIN s /\ Latest(s) \in DOMAIN s
        /\ Earliest(s) <= Latest(s)
    BY <1>2, Ends
  <1>4. v \in Nat /\ Newest(s).val \in Nat /\ i \in Nat /\ d \in Nat /\ e \in Nat
    BY <1>3 DEF Oldest, Newest, SampledInterval
  <1>5. r \in Nat
    <2>1. CounterCorrection(s) \in Nat /\ Newest(s).val + CounterCorrection(s) >= Oldest(s).val
      BY <1>2, CorrectionSuffices
    <2> QED BY <1>4, <2>1 DEF Increase
  <1>6. AddedAtStart(c, s, lo) = AddedBefore(m, i, r, v, d, TRUE)
    BY DEF AddedAtStart, AddedBefore, ZeroFirst, Near
  <1>7. Scale(s) = 2 * m * i
    BY DEF Scale
  <1>8. AddedAtEnd(c, s, hi) = IF 10 * m * e < 11 * i THEN 2 * m * e * r ELSE i * r
    BY DEF AddedAtEnd, Near
  <1> HIDE DEF m, i, r, v, d, e
  <1>9. /\ AddedAtStart(c, s, lo) \in Nat
        /\ AddedAtStart(c, s, lo) <= Scale(s) * v
    <2>1. /\ AddedBefore(m, i, r, v, d, TRUE) \in Nat
          /\ AddedBefore(m, i, r, v, d, TRUE) <= 2 * m * i * v
      BY <1>2, <1>4, <1>5, StopsAtZero, Zenon
    <2> QED BY <1>6, <1>7, <2>1, Zenon
  <1>10. AddedAtEnd(c, s, hi) \in Nat /\ Scale(s) * r \in Nat
    <2>1. 2 * m * e * r \in Nat /\ i * r \in Nat /\ 2 * m * i * r \in Nat
      BY <1>2, <1>4, <1>5, MulNat
    <2> QED BY <1>7, <1>8, <2>1
  <1>11. Delta(c, s, lo, hi).num >= 0
    <2>1. Delta(c, s, lo, hi).num = Scale(s) * r + AddedAtStart(c, s, lo) + AddedAtEnd(c, s, hi)
      BY <1>1 DEF r
    <2> QED BY <1>9, <1>10, <2>1
  <1> QED BY <1>9, <1>11 DEF v

\* No increase or rate is extrapolated below zero, whatever the counter's
\* resets, for every step, range and sequence of rows.
THEOREM NeverBelowZeroHolds == GDSpec => []NeverBelowZero
  <1>1. GDInv => NeverBelowZero
    <2> SUFFICES ASSUME GDInv, acc # NoTransition, IsCounter(call),
                        \A p \in DOMAIN input : Fresh(p) => input[p].val >= 0,
                        NEW k \in DOMAIN acc.deltas, acc.deltas[k] # Null
                 PROVE  /\ AddedAtStart(call, Samples(InTime(k)), WindowMin(k))
                             <= Scale(Samples(InTime(k))) * Oldest(Samples(InTime(k))).val
                        /\ acc.deltas[k].num >= 0
      BY DEF NeverBelowZero
    <2> DEFINE s == Samples(InTime(k))
    <2>1. call \in Calls /\ input \in Inputs /\ taken \in Nat /\ taken <= Len(input)
      BY DEF GDInv, Phases
    <2>2. k \in 1..Len(acc.deltas) /\ k \in Nat
      BY DEF GDInv, Window, CurrentWindow
    <2>3. /\ acc.deltas[k] = Delta(call, s, WindowMin(k), WindowMax(k))
          /\ Ordered(InTime(k))
      BY <2>2 DEF GDInv, Exact
    <2>4. DOMAIN s = InTime(k) /\ \A p \in InTime(k) : s[p] = input[p]
      BY DEF Samples
    <2>5. InTime(k) \subseteq 1..taken
      BY DEF InTime, RowsIn
    <2>6. \A p \in InTime(k) : /\ input[p].val \in Nat /\ input[p].time \in Int
                               /\ WindowMin(k) <= input[p].time /\ input[p].time <= WindowMax(k)
      <3> SUFFICES ASSUME NEW p \in InTime(k)
                   PROVE  /\ input[p].val \in Nat /\ input[p].time \in Int
                          /\ WindowMin(k) <= input[p].time /\ input[p].time <= WindowMax(k)
        OBVIOUS
      <3>1. p \in DOMAIN input
        BY <2>1, <2>5, InputTypes
      <3> QED BY <2>1, <3>1, GDAssumption DEF InTime, RowsIn, Fresh, Time
    <2>7. \A p, o \in InTime(k) : o <= p => input[o].time <= input[p].time
      BY <2>3 DEF Ordered, Time
    <2>8. WindowMin(k) \in Int /\ WindowMax(k) \in Int
      BY <2>1, <2>2, WindowStep
    <2> HIDE DEF s
    <2>9. /\ AddedAtStart(call, s, WindowMin(k)) <= Scale(s) * Oldest(s).val
          /\ Delta(call, s, WindowMin(k), WindowMax(k)).num >= 0
      BY <2>1, <2>3, <2>4, <2>5, <2>6, <2>7, <2>8, CounterAboveZero
    <2> QED BY <2>3, <2>9 DEF s
  <1> QED BY <1>1, GDInvariant, PTL

=============================================================================
