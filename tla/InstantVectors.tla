--------------------------- MODULE InstantVectors ---------------------------
(***************************************************************************)
(* What the aggregate vector_selector promises the query that calls it: an *)
(* instant vector.  One value for every instant start, start + width, ...  *)
(* up to end: the value of a latest row in the window that looks back from *)
(* the instant, both ends included; NULL when the window is empty or its   *)
(* latest row is the staleness marker.  Nothing is said of the order in    *)
(* which rows are read, of workers, or of partial states.                  *)
(***************************************************************************)
EXTENDS Integers, FiniteSets

CONSTANTS USECS_PER_MS,   \* microseconds in a millisecond
          STALE_NAN,      \* the NaN that marks the end of a series
          MaxAlloc,       \* size of the largest value PostgreSQL can store
          Null

VARIABLES rows, query, answer

Width == query.width * USECS_PER_MS

Lookback == query.lookback * USECS_PER_MS

Instants ==
  IF query.width = 0 THEN {0}
  ELSE {i \in 0..(query.end - query.start) : query.start + i * Width <= query.end}

TimeOf(i) == query.start + i * Width

\* The rows that no other row up to the instant follows.
LatestUpTo(i) ==
  {r \in DOMAIN rows :
     /\ rows[r].time <= TimeOf(i)
     /\ \A o \in DOMAIN rows :
          rows[o].time <= TimeOf(i) => rows[o].time <= rows[r].time}

InWindow(i) == {r \in LatestUpTo(i) : rows[r].time >= TimeOf(i) - Lookback}

Shown(v) == IF v = STALE_NAN THEN Null ELSE v

IsInstantVector(f) ==
  /\ DOMAIN f = Instants
  /\ \A i \in Instants :
       \/ InWindow(i) = {} /\ f[i] = Null
       \/ \E r \in InWindow(i) : f[i] = Shown(rows[r].val)

\* A row outside [start - lookback, end]; and, with a width of 0, a row
\* after the only instant, for which the code divides by the width.
OutOfRange(r) ==
  \/ rows[r].time > query.end
  \/ rows[r].time < query.start - Lookback
  \/ query.width = 0 /\ query.start < rows[r].time /\ rows[r].time <= query.end

TooLarge == 54 + 17 * Cardinality(Instants) > MaxAlloc

----------------------------------------------------------------------------

IVInit == /\ answer = [kind |-> "idle"]
          /\ rows = <<>>
          /\ query = Null

Ask == /\ answer.kind = "idle"
       /\ answer' = [kind |-> "open"]

Reply == /\ answer.kind = "open"
         /\ DOMAIN rows # {}
         /\ \A r \in DOMAIN rows : ~OutOfRange(r)
         /\ answer'.kind = "vector"
         /\ IsInstantVector(answer'.values)
         /\ UNCHANGED <<rows, query>>

ReplyNull == /\ answer.kind = "open"
             /\ DOMAIN rows = {}
             /\ answer' = [kind |-> "null"]
             /\ UNCHANGED <<rows, query>>

Fail == /\ answer.kind = "open"
        /\ TooLarge \/ \E r \in DOMAIN rows : OutOfRange(r)
        /\ answer' = [kind |-> "error"]
        /\ UNCHANGED <<rows, query>>

IVNext == Ask \/ Reply \/ ReplyNull \/ Fail

IVSpec == IVInit /\ [][IVNext]_<<rows, query, answer>>

=============================================================================
