---------------------------- MODULE GapfillDelta ----------------------------
(***************************************************************************)
(* The aggregates prom_delta, prom_increase and prom_rate                  *)
(* (src/src/aggregates/gapfill_delta.rs and prom_*.rs).  Windows of `range'*)
(* microseconds slide by `step' from the lowest time; rows are meant to    *)
(* come in ascending time.  A window is flushed when a row past it arrives,*)
(* or by the final function.                                               *)
(*                                                                         *)
(* A row is its position in the input; the deque `window' is the set of    *)
(* the positions it holds.  A delta is the fraction [num, den] in place of *)
(* the double the code computes; den = 0 stands for NaN or an infinity.    *)
(***************************************************************************)
EXTENDS SqlValues, Integers, Sequences, FiniteSets

CONSTANTS Inputs,        \* sequences of [time, val] rows
          Calls,         \* [lowest, greatest, step, range, aggregate]
          USECS_PER_SEC  \* 1000000 in the code

Aggregates == {"prom_delta", "prom_increase", "prom_rate"}

ASSUME GDAssumption ==
  /\ USECS_PER_MS \in Nat \ {0} /\ USECS_PER_SEC \in Nat \ {0}
  /\ \A c \in Calls : c \in [lowest : Int, greatest : Int, step : Nat,
                             range : Nat, aggregate : Aggregates]
  /\ \A in \in Inputs :
       /\ DOMAIN in = 1..Len(in) /\ Len(in) \in Nat
       /\ \A p \in DOMAIN in : in[p].time \in Int /\ in[p].val \in Int \cup {STALE_NAN}

VARIABLES call,    \* arguments of the aggregate
          input,   \* rows in the order they arrive
          taken,   \* number of rows consumed
          acc,     \* the GapfillDeltaTransition, if there is one
          phase    \* idle, rows, add (a row is being added), final, null, done, error

gdVars == <<call, input, taken, acc, phase>>

Time(p) == input[p].time

Step      == call.step * USECS_PER_MS
RangeSize == call.range * USECS_PER_MS

IsCounter(c) == c.aggregate \in {"prom_increase", "prom_rate"}
IsRate(c)    == c.aggregate = "prom_rate"

Fresh(p) == input[p].val # STALE_NAN

----------------------------------------------------------------------------
(* add_delta_for_current_window: extrapolatedRate of Prometheus, for a call *)
(* c and the samples s of a window, a function of positions.                *)

Samples(W) == [p \in W |-> input[p]]

Earliest(s) == CHOOSE p \in DOMAIN s : \A o \in DOMAIN s : p <= o
Latest(s)   == CHOOSE p \in DOMAIN s : \A o \in DOMAIN s : p >= o

Oldest(s) == s[Earliest(s)]
Newest(s) == s[Latest(s)]

Previous(s, p) == Newest([o \in {q \in DOMAIN s : q < p} |-> s[o]])

\* What the sample p adds to the correction: the value before it, if it fell.
Reset(s, p) ==
  IF p \in DOMAIN s \ {Earliest(s)} /\ s[p].val < Previous(s, p).val
  THEN Previous(s, p).val ELSE 0

CounterCorrection(s) ==
  LET upTo[p \in 0..Latest(s)] == IF p = 0 THEN 0 ELSE upTo[p - 1] + Reset(s, p)
  IN  upTo[Latest(s)]

Increase(c, s) ==
  Newest(s).val - Oldest(s).val + (IF IsCounter(c) THEN CounterCorrection(s) ELSE 0)

SampledInterval(s) == Newest(s).time - Oldest(s).time

Intervals(s) == Cardinality(DOMAIN s) - 1

\* (mutant) a counter that starts at 0 has no zero point.
ZeroAbove(c, s, lo) ==
  /\ IsCounter(c) /\ Increase(c, s) > 0 /\ Oldest(s).val > 0
  /\ SampledInterval(s) * Oldest(s).val < (Oldest(s).time - lo) * Increase(c, s)

\* The zero point of the counter is nearer than the start of the window.
\* (duration_to_zero < duration_to_start, multiplied out.)
ZeroFirst(c, s, lo) ==
  /\ IsCounter(c) /\ Increase(c, s) > 0 /\ Oldest(s).val >= 0
  /\ SampledInterval(s) * Oldest(s).val < (Oldest(s).time - lo) * Increase(c, s)

\* Whether a distance d is below 1.1 average intervals.
Near(s, d) == 10 * Intervals(s) * d < 11 * SampledInterval(s)

\* What extrapolation adds before the first and after the last sample, each
\* over the denominator 2 * Intervals * SampledInterval.
AddedAtStart(c, s, lo) ==
  LET n == Intervals(s)
      i == SampledInterval(s)
      r == Increase(c, s)
      toZero == ZeroFirst(c, s, lo)
      isNear == IF toZero THEN 10 * n * i * Oldest(s).val < 11 * i * r
                ELSE Near(s, Oldest(s).time - lo)
  IN  IF ~isNear THEN i * r
      ELSE IF toZero THEN 2 * n * i * Oldest(s).val
      ELSE 2 * n * (Oldest(s).time - lo) * r

AddedAtEnd(c, s, hi) ==
  IF Near(s, hi - Newest(s).time)
  THEN 2 * Intervals(s) * (hi - Newest(s).time) * Increase(c, s)
  ELSE SampledInterval(s) * Increase(c, s)

Scale(s) == 2 * Intervals(s) * SampledInterval(s)

Delta(c, s, lo, hi) ==
  IF Cardinality(DOMAIN s) < 2 THEN Null
  ELSE [num |-> Scale(s) * Increase(c, s) + AddedAtStart(c, s, lo) + AddedAtEnd(c, s, hi),
        den |-> Scale(s) * (IF IsRate(c) THEN (c.range * USECS_PER_MS) \div USECS_PER_SEC ELSE 1)]

----------------------------------------------------------------------------

NoTransition == [kind |-> "none"]

NewTransition ==
  [kind |-> "some", window |-> {}, deltas |-> <<>>,
   min |-> call.lowest, max |-> call.lowest + RangeSize]

\* (mutant) a row at the start of the window goes, too.
DropBoundary(W, lo) == {p \in W : \E o \in W : o <= p /\ Time(o) > lo}

\* The rows that pop_front leaves: from the first that is not too old.
DropOld(W, lo) == {p \in W : \E o \in W : o <= p /\ Time(o) >= lo}

Flushed ==
  [kind   |-> "some",
   window |-> DropOld(acc.window, acc.min + Step),
   deltas |-> Append(acc.deltas, Delta(call, Samples(acc.window), acc.min, acc.max)),
   min |-> acc.min + Step, max |-> acc.max + Step]

GDInit == /\ call = None /\ input = <<>> /\ taken = 0
          /\ acc = NoTransition /\ phase = "idle"

GDStart == /\ phase = "idle"
           /\ call' \in Calls /\ input' \in Inputs
           /\ phase' = "rows"
           /\ UNCHANGED <<taken, acc>>

HasRow == phase = "rows" /\ taken < Len(input)

Row == taken + 1

InBounds(p) == call.lowest <= Time(p) /\ Time(p) <= call.greatest

\* A step of 0 is a division by zero in GapfillDeltaTransition::new.
RejectRow == /\ HasRow
             /\ ~InBounds(Row) \/ (acc = NoTransition /\ Step = 0)
             /\ phase' = "error"
             /\ UNCHANGED <<call, input, taken, acc>>

\* The transition function; a stale row only makes sure there is a state.
TakeRow == /\ HasRow /\ InBounds(Row) /\ ~(acc = NoTransition /\ Step = 0)
           /\ acc' = IF acc = NoTransition THEN NewTransition ELSE acc
           /\ IF Fresh(Row) THEN phase' = "add" /\ taken' = taken
                            ELSE phase' = "rows" /\ taken' = Row
           /\ UNCHANGED <<call, input>>

FlushForRow == /\ phase = "add" /\ Time(Row) > acc.max
               /\ acc' = Flushed
               /\ UNCHANGED <<call, input, taken, phase>>

OutOfOrder == acc.window # {} /\ Newest(Samples(acc.window)).time > Time(Row)

RejectOrder == /\ phase = "add" /\ Time(Row) <= acc.max /\ OutOfOrder
               /\ phase' = "error"
               /\ UNCHANGED <<call, input, taken, acc>>

AddRow == /\ phase = "add" /\ Time(Row) <= acc.max /\ ~OutOfOrder
          /\ acc' = IF Time(Row) >= acc.min
                    THEN [acc EXCEPT !.window = @ \cup {Row}] ELSE acc
          /\ taken' = Row /\ phase' = "rows"
          /\ UNCHANGED <<call, input>>

\* prom_extrapolate_final and as_vec
FinalState == /\ phase = "rows" /\ taken = Len(input)
              /\ phase' = IF acc = NoTransition THEN "null" ELSE "final"
              /\ UNCHANGED <<call, input, taken, acc>>

\* (mutant) the window that ends at greatest is left out.
WindowsBelow == acc.max < call.greatest

MoreWindows == acc.max <= call.greatest

FlushRest == /\ phase = "final" /\ MoreWindows
             /\ acc' = Flushed
             /\ UNCHANGED <<call, input, taken, phase>>

ReturnDeltas == /\ phase = "final" /\ ~MoreWindows
                /\ phase' = "done"
                /\ UNCHANGED <<call, input, taken, acc>>

GDNext == \/ GDStart \/ RejectRow \/ TakeRow \/ FlushForRow \/ RejectOrder \/ AddRow
          \/ FinalState \/ FlushRest \/ ReturnDeltas

GDSpec == GDInit /\ [][GDNext]_gdVars

----------------------------------------------------------------------------
(* Properties *)

WindowMin(k) == call.lowest + (k - 1) * Step
WindowMax(k) == WindowMin(k) + RangeSize

\* The rows consumed that lie in the k-th window, both ends included.
RowsIn(k) == {p \in 1..taken : Fresh(p) /\ WindowMin(k) <= Time(p) /\ Time(p) <= WindowMax(k)}

Ascending == \A p, o \in DOMAIN input : p <= o /\ Fresh(p) /\ Fresh(o) => Time(p) <= Time(o)

\* and those of them that came before any row past the window.
InTime(k) == {p \in RowsIn(k) : \A q \in 1..p : Fresh(q) => Time(q) <= WindowMax(k)}

\* Each delta is computed from exactly the rows of its window that came in time:
\* none is dropped too early, none gets into a window of others.  When rows are
\* in order, or windows leave no gap between them, those are all rows of the
\* window; with gaps, rows out of order are lost and nothing refuses them, since
\* a window that was emptied forgets the time it had come to.
DeltasExact ==
  acc # NoTransition =>
    \A k \in DOMAIN acc.deltas :
      /\ acc.deltas[k] = Delta(call, Samples(InTime(k)), WindowMin(k), WindowMax(k))
      /\ Ascending \/ Step <= RangeSize => InTime(k) = RowsIn(k)

\* The array has one element for each window that ends by the greatest time,
\* whatever rows there are; the connector reads it by position.
OneDeltaPerWindow ==
  /\ acc # NoTransition => \A k \in DOMAIN acc.deltas : WindowMax(k) <= call.greatest
  /\ phase = "done" => WindowMax(Len(acc.deltas) + 1) > call.greatest

\* A counter is never extrapolated to a negative value at the start of a
\* window (gapfill_delta.rs:148-154), so no increase or rate is negative,
\* whatever the order of the rows.
NeverBelowZero ==
  /\ acc # NoTransition /\ IsCounter(call)
  /\ \A p \in DOMAIN input : Fresh(p) => input[p].val >= 0
  => \A k \in DOMAIN acc.deltas : acc.deltas[k] # Null =>
       LET s == Samples(InTime(k))
       IN  /\ AddedAtStart(call, s, WindowMin(k)) <= Scale(s) * Oldest(s).val
           /\ acc.deltas[k].num >= 0

=============================================================================
