# A TLA+ verification project for the Promscale extension

The Promscale extension is a PostgreSQL extension: SQL functions that store
Prometheus metrics and OpenTelemetry traces (`migration/`), and aggregates and
planner support written in Rust (`src/src/`). Connectors, processes of their
own, ingest through the SQL functions; maintenance jobs run inside the database.
All the concurrency of the system is concurrency of database sessions.

Paths below are relative to the repository. `001-base.sql` and its like are in
`migration/idempotent/`.

## Inventory

| Component | State | Operations | What is hard | What makes it correct |
|---|---|---|---|---|
| Series lifecycle (`001-base.sql`, `011-maintenance.sql`) | `prom_data_series.*` (labels, `delete_epoch`), `prom_data.*`, `ids_epoch` | get_or_create_series_id*, create_series, resurrect_series_ids, inserts with the epoch check, mark_series_to_be_dropped_as_unused, drop_metric_chunk_data, delete_expired_series, delete_series_from_metric | connectors cache ids for hours; every statement has its own snapshot; four transactions per drop; jobs die between them | a committed row has its series; one id per label set; deletion waits and is reversible; marks do not stay |
| High availability (`004-ha.sql`) | `ha_leases`, `ha_leases_logs` | update_lease, try_change_leader, audit trigger | read, decide, update in separate statements | one replica per instant; leases abut; the log tells whose samples are stored |
| Policies and locks (`011-maintenance.sql`, `001-base.sql`) | advisory locks per metric, job statistics | execute_data_retention_policy, execute_compression_policy, compress_metric_chunks, lock_metric_for_maintenance | two passes, try then wait; errors between lock and unlock | no deadlock, every metric gets its turn |
| Labels (`001-base.sql`) | `label`, `label_key`, `label_key_position`, label arrays | get_or_create_label_key, get_new_pos_for_key, get_new_label_id, get_or_create_label_array, get_or_create_label_ids, deletion of unused labels | double-checked locking, waits on other sessions' uncommitted rows, deletion of labels about to be used | positions unique and compact; arrays stand for one label set; no deadlock; no dangling label |
| Metric catalog (`001-base.sql`) | `metric`, data and series tables, partitions | create_metric_table, make_metric_table, finalize_metric_creation, drop_metric | creation in two transactions, several finalisers | each partition attached once; lock order kept |
| Settings (`001-base.sql`) | default and per-metric retention, chunk interval, compression | set/reset_* | defaults must not overwrite a metric's own | the setting in force is the last one that applies |
| Metric views (`001-base.sql`) | `metric` rows with is_view, shared series tables | register/unregister_metric_view | a series table with several readers | deletion sees all of them |
| Job configuration (`011-maintenance.sql`) | background jobs | config_maintenance_jobs, add_job | resize while jobs run | exactly the configured jobs |
| Exemplars, metadata, telemetry (`005`, `006`, `010`) | their tables | create_exemplar_table_if_not_exists, insert_metric_metadatas, telemetry housekeeping | check-then-create; delayed batches | created once; last_seen does not go back |
| Tracing (`007` to `009`, `013`) | tag_key, tag, operation, span tables | put_tag_key, put_tag, put_operation, put_schema_url, put_instrumentation_lib, delete_all_traces, trace_tree, upstream_spans, downstream_spans | upserts that merge bit sets; recursion over parent links | no lost bit; one id per name; the walk ends |
| Vacuum engine (`016`) | advisory lock | execute_vacuum_engine | one at a time | never two |
| Aggregates (`src/src/aggregates`) | transition states | vector_selector, prom_delta, prom_increase, prom_rate | partial states combined in any order; window boundaries; counter resets | the result of a serial scan, the PromQL formula |
| Digest, regex, planner support (`src/src/*.rs`) | a cache of compiled expressions, plans | jsonb_digest, re2_match, tag_map_rewrite, rewrite_fn_call_to_subquery | a digest stands for a value in an index; an error unwinds out of the cache; plans outlive what they were made on | equal digests mean equal values; the cache stays usable; a plan selects what its condition means |
| Matchers (`002`, `003`, `007`) | none | queries | | |
| Build and migrations (`build.rs`, `migration/`, `templates/`) | `_ps_catalog.migration` | rendering of a release, wrappers of scripts | releases skipped, attempts that fail | each incremental script once, in one order |

How they interact: an ingest obtains labels, then a series id, then inserts;
retention marks, drops and deletes behind it and, with the last series of a
label, deletes the label; `ids_epoch` is what the two sides share. Views share a
series table with their raw metric. Finalisation attaches a series partition to
`_prom_catalog.series`, which label deletion and cross-metric queries read. A
lease decides whose batches come to the ingest at all. Tags, operations, urls and
libraries are created before the spans that hold their ids; queries on tags are
planned to look for these ids, found by digest. `delete_all_traces` and the
connectors exclude each other by an advisory lock. The aggregates share nothing
with the rest but the executor that calls them.

The hazards of this code, each at its line and with the properties that catch
it, are the list `hazards` of `PROJECT.json`.

## Modules

| Module | Models |
|---|---|
| `SeriesLifecycle` | the series lifecycle |
| `MCSeriesLifecycle` | its instances for TLC |
| `SeriesLifecycleProofs` | its theorems |
| `LeaseTimeline` | abstract specification: what HA leases promise |
| `HALease` | `004-ha.sql`, which implements `LeaseTimeline` |
| `MCHALease` | its instances for TLC |
| `HALeaseProofs` | its theorems |
| `KeyPositions` | abstract specification: what `label_key_position` promises |
| `LabelCatalog` | labels, keys and positions (`001-base.sql`), which implements `KeyPositions` |
| `MCLabelCatalog` | its instances for TLC |
| `LabelCatalogProofs` | its theorems |
| `TraceCatalog` | the put_* functions and delete_all_traces (`008-tracing-functions.sql`) |
| `TraceCatalogProofs` | its theorems |
| `TagRewrite` | conditions on tags, rewritten by the planner (`support.rs`, `007-tracing-tags.sql`) |
| `SqlValues` | constants shared by the modules on compiled code |
| `InstantVectors` | abstract specification: what vector_selector promises its query |
| `VectorSelector` | the aggregate vector_selector, which implements `InstantVectors` |
| `VectorSelectorProofs` | its theorems |
| `GapfillDelta` | the aggregates prom_delta, prom_increase and prom_rate |
| `GapfillDeltaProofs` | its theorems |
| `JsonbDigest` | jsonb_digest and the tokens it hashes |
| `RegexCache` | the cache of re2_match |
| `MatcherProofs` | theorems on `TagRewrite`, `RegexCache` and `JsonbDigest` |
| `Migrations` | the build of releases, installations and upgrades |
| `MigrationsProofs` | its theorems |
| `MCCompiled` | instances for TLC of `TraceCatalog` and of the modules on compiled code and migrations, one part at a time |

### SeriesLifecycle

The database: `rows`, `labels`, `delete_epoch` are the metric's series table,
`data[m]` the committed rows of the metric's table `Raw` and of the continuous
aggregates `Views` registered over it with the same series table,
`current_epoch` is `ids_epoch`, `next_id` the sequence. A connector `c` goes
through `conn[c]`: it reads the epoch, fetches (finding a live row, a marked one
it resurrects, or none: then it creates), caches the id, inserts, checks the
epoch and commits; each step is one statement. A maintenance session `w` goes
through `job[w]`: the four transactions of `drop_metric_chunks`, or
`delete_series_from_metric`.

PostgreSQL's READ COMMITTED is modelled as it is: a writing statement has a
snapshot step and a commit step, and at the commit the WHERE clause is evaluated
again on the latest version of each row (`StillExpired`, `Unmarked`). Two
statements therefore interleave where the code lets them. Sessions may die at
any step.

Two history variables serve the properties only: `ghost` (ids returned by a
resurrection that found no row) and `deletedBy` (whose job deleted a series).
They name the two defects of the code that would otherwise make every property
false (see Findings), so that the properties say what holds besides them.

Assumption `SpanAssumption`: a transaction sees the epoch advance at most `Span`
times, 2*Span < 4. `epoch_duration` is counted in hours (12 by default) and the
epoch advances at most once in it; an insert or a fetch is done within one. The
code relies on it: with a longer transaction the delay of four epochs protects
nothing.

Abstractions: one metric, data values left out, a chunk is one unit of time, the
label array is a model value (its construction belongs to the labels).

### HALease and LeaseTimeline

One row of `ha_leases` (leader_name, lease_start, lease_until), the log, and per
session the statement it comes to. A call's SELECTs see the row as committed at
that moment; its UPDATE evaluates its WHERE on the latest version, and holds the
row until the transaction ends, so from there on the call is one step. What a
connector does with the answer is external: it ingests the samples of its batch
from `lease_start` on when the returned leader is itself, and asks for the lead
(`AnyCaller = TRUE`: whenever it likes; `FALSE`: only when the lease it read is
another's and expired). It asks about a lease that there is: before the first
one `try_change_leader` finds no row and its STRICT SELECT raises an error, and
leases are never deleted. `AnyCaller` frees the caller of all else. (A caller who
asked before the first lease, while another session inserts it between the UPDATE
and the SELECT, would be returned a lease that its batch was not compared with.)

`LeaseTimeline` says: an instant of the cluster's timeline is claimed by one
replica and never by another. `accepted`, the history of ingested instants,
gives the refinement mapping (`Owners`), and `OneReplicaPerInstant` is the
abstract specification itself, checked as a PROPERTY and proved as a theorem.

### LabelCatalog and KeyPositions

`label`, `label_key` and `pos[m][k]` (`label_key_position`) are the tables as
committed; `created[s]`, `keyed[s]` and `added[s]` what session s has inserted
and not committed; `holder[m]` who has locked the series partition of metric m.
A session is in one call of `get_or_create_label_ids` (`"ids"`) or of the
`get_or_create_label_array` of two arrays (`"array"`) or of a document
(`"jsonb"`). The statement's joins are its snapshot (`fresh`, `nopos`); the
functions it calls for what it misses are volatile and see what is committed
when they run. `CreateLabel` and `AssignPosition` wait for a session that
inserted the same row and did not commit, as INSERT ... ON CONFLICT DO NOTHING
does; `Lock` waits for the partition. The rows of the statement come in the
order of its ORDER BY: by key (and value), and in the jsonb variant by `l.key`,
which is NULL for labels to be created, so that these follow in the order in
which jsonb stores keys (by length first; `StorageRank`). The volatile
functions are evaluated after the sort.

`get_or_create_label_ids` creates all labels, then asks for all positions;
the other two ask for each row's position before its label. That is the whole
difference between `IdsNeverDeadlock`, which is proved, and finding 5. The order
of the jsonb variant is modelled, but the deadlock that it alone allows, two
sessions that insert the same new labels in different orders, is not shown
separately: finding 5 violates `NeverDeadlock` first.

Assumptions: the metrics exist, with the labels of their names
(`make_metric_table` makes these); a call is a transaction of its own (a
session that makes several calls in one could deadlock however each is
ordered); a label set has one value per key (`RequestsAssumption`). A session
may fail at any step, and PostgreSQL resolves deadlocks by failing one: `Abort`.

`KeyPositions` says: positions of a metric are distinct, without gap, the metric
name's is the first, and they are only ever appended. Left out here: the branch
for exemplars, the deletion of keys by `drop_metric`, the content of the views.

### TraceCatalog

`row[r]` is the committed row that is unique by `r` (a tag key, a key and a value,
a url, a service id and a span name, a url's id and a library), with its id and
its tag types; `mine[s][r]` what session s made of it and did not commit,
`held[s]` the rows it has locked, `next` the sequences. A call goes statement by
statement through `pc[s]`: the SELECT (FOR UPDATE in put_tag_key and put_tag),
INSERT ... ON CONFLICT, UPDATE, SELECT INTO STRICT. The five functions have this
one shape and differ in what `want[s]` says: a type or none, and for put_operation
the operation that follows the service. The functions are VOLATILE, so each
statement sees what was committed before it (`Seen`); ON CONFLICT waits for a
transaction that inserted the row (`NobodyInserts`), an update for one that holds
it (`Free`). put_tag inserts only when the key is there (`HasKey`).

A session keeps the ids of committed calls (`known`), uses them in later ones
and writes them into spans; it may fail anywhere. `delete_all_traces` waits for
the advisory lock that running connectors share, empties the tables and starts
the sequences again. It commits in one step and may be rolled back, which does
not undo its setval: after that the sequence gives ids that keys have, and
put_tag_key fails (`RaiseDuplicateKey`) until the sequence is past them.

Assumption `WorkloadsAssumption`: a call comes with one tag type, as the
connector's do. The code tests `tag_type & _tag_type = 0`, which adds nothing when
only some of several types are there. Left out: two values of one digest (an
exception), foreign keys (they make sessions wait longer), temporary tables.

### TagRewrite

Two things go on at once: sessions put tags and spans (each in one step here),
and one session prepares a statement with a condition on a tag, which the planner
hands to `tag_map_rewrite` until it leaves it as it is (`Simplify`), and executes
it again and again. `RewriteTagMap` and `RewriteToSubquery` follow the checks of
`support.rs` in their order: the level of the query, the operator's helper
function and its kind, the shape of the arguments under coercions. `Planned` is
what the plan selects on the tags as they are, `Namesake` what the operator it
stands for would; three-valued logic is modelled, as a WHERE clause and a NOT
treat unknown differently.

### InstantVectors and VectorSelector

The executor is external: it hands each row to one process (`Reads`), the leader
alone or parallel workers, each of which sends its state when the scan has no row
left for it; the states are serialized, received in the memory of a tuple and
combined in any order. The module is the Rust code under it: the
buckets, insert, combine, results with its carry-over and lookback, the sizes at
which a state cannot be sent, and in which memory context a state lives.
`InstantVectors` knows nothing of buckets, processes or messages.

### GapfillDelta

The transition functions take rows in the order they arrive; a row past the
window flushes windows, one step each, and the final function the rest. A row
that is older than the last one in the deque is an error, but a window that was
emptied forgets the time it had come to: with gaps between windows (step > range)
a late row is then taken without an error, and the windows already flushed do not
have it. `DeltasExact` says so: a delta is computed from exactly the rows of its
window that came before any row past it (`InTime`), which are all of its rows
when rows ascend or windows leave no gap. Values may be negative (a gauge). The
deque is a set of positions of the input, whose order it keeps. Doubles are
exact fractions: `duration_to_zero < duration_to_start` and the like are
multiplied out, and a division by zero is the fraction with denominator 0.
`CounterCorrection` is the loop over the window, a recursive function that adds
`Reset` of each sample.

### JsonbDigest, RegexCache, Migrations

`JsonbDigest` runs the iterator over two values, event by event, as
`iterable_jsonb.rs` turns it into tokens, and collects the bytes that are hashed.
A value is the sequence of events that JsonbIteratorNext returns for it, which
is also what PostgreSQL compares; `MCCompiled` makes these from nested values.
Assumption `JDAssumption`: a jsonb is a well-formed scalar or container and is
smaller than 256 MB, PostgreSQL's limit, so that the last byte of an 8-byte index
is 0. Text holds no byte 0, as PostgreSQL's does not.

`RegexCache` is the LRU cache in its RefCell, with calls that unwind out of it.
`before` is history: for each pattern the ones whose last use came before its own,
which says what "most recently used" means without an order of calls.

`Migrations` renders a release from its files (`script[v]`, empty when one of the
assertions of `build.rs` fails), and runs scripts on a database through the
wrappers, block by block, in a transaction that may be rolled back anywhere. A
file's body is the one with the release's version put in; the schema file of the
bootstrap has a body per release, too. All names in `_ps_catalog.migration` are the
wrapper's: a database that a connector had made (`templates/promscale--0.0.0.sql`)
has names without bodies, for which `body <> body` is NULL and nothing is reported.
Assumption `MGAssumption`: names are unique in a directory, and a released
incremental file stays under its name and number in every later release, which
`e2e/tests/incremental-freeze-test.rs` checks for the repository (its body may
change, and `ChangesReported` is about that). `build.rs:175` speaks of one script
numbered 999; the assertions let several of them through, so
`FunctionsOnFinalSchema` says that only such scripts follow one.

## Runs

| Run | Instance | Shows |
|---|---|---|
| `series_ingest` | 2 connectors, 1 worker, no view, epochs 0..5, ids 1..2 | connectors against retention: no orphan, no split series, grace period |
| `series_views` | 1 connector, 1 worker, 1 view, times 0..1 | the inductive invariant; marks leave no data in any table |
| `series_live` | without TimescaleDB, with fairness | marks are resolved |
| `series_resurrect` | violation | finding 1 |
| `series_shared` | violation | finding 2 |
| `series_policy` | violation, with fairness | finding 3 |
| `ha_lease` | 2 sessions, 2 replicas, times 0..3 | one replica per instant, log, invariant |
| `ha_open_line` | violation, careful callers | finding 4 |
| `label_catalog` | 2 sessions, 2 metrics, 3 keys, one label each | positions appended, no conflict, no deadlock of `get_or_create_label_ids`, invariant |
| `label_order` | violation, the same instance | finding 5 |
| `compiled_code` | the parts of `MCCompiled`, one at a time; see below | the aggregates, tag conditions, digests, the cache, upgrades and the catalog of traces |
| `tag_negated` | violation, conditions under a NOT | finding 6 |

Why the bounds are enough. A deletion needs a mark in epoch k and a job in epoch
k+4 or later: epochs 0..5 hold a mark at 1, the deletion at 5 and what happens
between; two ids are needed to split a series. With one time unit an id's data
is old or absent; the second one in `series_views` gives data inside and outside
of the hour after the drop point. In `ha_lease` a wrong recheck needs a lease
that is lost and regained while a call waits: three consecutive leases, times
0..3 with a timeout of 1. In `label_catalog` two sessions meet on a metric or
not, on one new key or on two in either order, which is what a conflict, a gap or
a circle of two takes; a circle of more sessions is excluded by the proof only.
The proofs remove the bounds.

`compiled_code` checks seven parts that share no state, in one run: `part` is
chosen at the beginning and only its variables move. Rows of the aggregates are
few but lie before, on, between and behind the boundaries of the buckets and
windows, in every order and on either of two workers; windows overlap, touch or
leave gaps, and steps and widths of 0 are among them; values are positive, 0, and
negative. A millisecond is 2 units of
the timestamps and a second 3, so that conversions show; MaxAlloc = 100 lets
some states be sent and others not. Tags: two keys and three values, of which two
are equal numbers written differently, two spans, three tags, every combination
of function, argument shape, level and coercion that `support.rs` tells apart.
Digests: all pairs of 23 values chosen so that texts contain the bytes that mark
tokens; the index is 2 bytes wide instead of 8, which keeps its wrap out of reach
as 8 bytes do. The cache has 2 places and there are four patterns. Six releases:
well-formed ones, one with a gap, one with a duplicate, one where a number 1000
follows 999; the last has two scripts numbered 999 and changes two incremental
files, of which one may change. Traces: two connectors, two ids per table (the second life of an id
after `delete_all_traces` needs no more) and five workloads, each of which
brings one kind of collision: a tag and its key, a key in two types, two
services, one service from both put_tag and put_operation, a library and its
url, with one or two calls per transaction.

Fairness (`FairSpec`): a session that runs a statement finishes it (weak
fairness per connector and for delete_series); the job scheduler runs the
retention policy again and again, and a job that may crash is not assumed to
survive each time, only not to crash always at the same statement (strong
fairness per transaction); the other metrics' jobs keep the epoch moving (weak).
Nothing is assumed about clients: batches, direct calls of drop_metric_chunks
and crashes may stop.

Symmetry is used over connectors, sessions, metrics and replicas, in runs without
liveness properties.

## Findings

1. `get_or_create_series_id*` may return the id of a series that no longer
   exists: `resurrect_series_ids` does not say that its UPDATE found no row.
2. `delete_expired_series` rechecks one metric table, while a series table may
   serve several: a series that a continuous aggregate still uses is deleted.
3. With TimescaleDB the retention policy does not visit metrics without old
   chunks, so their marked series stay marked.
4. A re-elected leader's lease has no log line, and its earlier line is never
   closed.
5. `get_or_create_label_array` deadlocks with `get_or_create_label_ids` when both
   create labels of a new metric: it locks the series partition before it is done
   with the labels, against the canonical lock order of `001-base.sql`.
6. Under a NOT, a rewritten condition on a tag selects other rows than the
   operator it is the namesake of: the rewritten form is false where the operator
   is unknown (no such key), and unknown where it is false (no such tag).

## Theorems

Checked by TLAPS for all values of the constants that satisfy the named
assumptions of the modules.

`SeriesLifecycleProofs`. The inductive invariant `IndInv` explains why the epoch
protocol works: a connector read its epoch e before it obtained its id, so a
mark it may not have seen carries an epoch above e - Span (`CachedIdsAreFresh`,
`RivalRowsAreFresh`); a job deletes only four epochs after the mark, so once the
series is gone the epoch is so far beyond e that the check aborts the insert;
and an insert under way keeps the epoch within Span of its start (`EpochsRead`).
`DeadStayDead` covers the other side: what a job found dead in its snapshot and
got data since is no longer expired. `RawDataHasSeries` alone is not inductive,
as nothing in it speaks of the rows about to be committed. From IndInv follow
`NoSplitSeries`, `AcceptedInsertHasSeries`, `GracePeriod`, `EpochStepsByOne`,
`MarkLeavesNoData` and, without views, `DeletedSeriesAreDead`.

`HALeaseProofs`. `AcceptedByLease` says every ingested instant from lease_start
on is the leader's and below lease_until; `ReturnsCovered` that a call about to
return found a lease beyond its samples, which stays true because leases only
grow; together they give `AcceptedDisjoint`, the step simulation and
`ImplementsTimeline`. `LogOK` carries the log's properties. The theorems hold
for every Timeout and Refresh with Refresh < Timeout; the runs use 1 and 0.

`LabelCatalogProofs`. `LockOK` says that whoever has given positions and not
committed holds the partition; so nobody else commits positions of that metric
meanwhile, and `NewPositionsOK` (new positions go to keys without one, follow all
that the metric has, leave no gap, and max_position is the next) stays true from
the lock to the commit. From these follow `NoPositionConflict` and the step
simulation of `KeyPositions` (only `Commit` is not a stutter). `IdsInOrder` says
that a session of `get_or_create_label_ids` has created only labels before the
ones to come, holds no partition while it creates labels, and gives positions in
the order of keys. A session that another one waits for therefore waits, if at
all, for something later in the order labels, partition, keys; a circle would
have no greatest place (`WaitsLater`, `GreatestExists`).

`TraceCatalogProofs`. What a session sees of a row only grows while it is
connected. `Grows`: its own version has the id and at least the types of the
committed row; `Apart`: no two sessions hold one row, so that a commit changes
nothing under another's version; hence `Later`, which carries every answer
(`Answered`) and the names by id inside rows (`Names`) over the steps of others.
`Quiet` and `Deletion`: who is not connected has nothing and keeps nothing, and
delete_all_traces runs only then; without them `IdsResolve` is not inductive.
From TCInv follow `TypesKept`, `IdsResolve` and `StrictFindsRow`. The lock of the
SELECT ... FOR UPDATE is used nowhere in the argument for types: the UPDATE and ON
CONFLICT DO UPDATE add to the latest version themselves.

`MatcherProofs`. Conditions on tags: no two tags have one key and equal values
(the put functions find by digest), and the ids in a span's map belong to the keys
they are stored under; so the ids that `OP_matching_tags` finds are those of the
rows that the operator means (`SelectsNamesakeRows`), on the tags at the time of
execution. A call moved to a subselect is at level 2, where it stays (`MovedOnce`).

The cache: `KeepsMostRecent` is inductive together with the types. It says that
the patterns used since an entry's own last use are exactly those at its place and
before it; moving an entry to the front or dropping the last one keeps that.
`SessionSurvives` needs that the cell is borrowed exactly while a call runs
(`Borrow`).

The digest: `Reading` says that the bytes hashed so far are those of the tokens so
far, each at its place (`LaidOut`). No token holds a byte 0, and the index in front of each token ends in
one, by the assumption. Suppose two values have the same bytes, and at one place
a token that is shorter in the one than in the other. The next index of the first
begins inside of the longer token; its last byte, a 0, is behind that token, whose
own next index then holds the same bytes at an offset, and the first 0 in it would
have another 0 before it (`NoShorterToken`). So the tokens begin at the same
places and are the same, one after the other (`ReadBack`); the type byte tells the
kind of a token, and the digits of a number without trailing zeros and the point,
which is no digit, tell the number (`SameNumber`). The other direction is that equal
values have equal tokens (`EqualTokens`).

`VectorSelectorProofs`. `StatesRepresentRows` is
inductive over transition, serialization and combination, with lemmas on what
insert and combine do to one bucket. The refinement needs arithmetic (the bucket
of a time is at most i exactly if the time is at most instant i: `RoundUp`,
`MulMono`) and an invariant of the loop of results(), `Progress`: the values pushed
so far are those of the instants so far, and `last` is a latest row up to there.

`GapfillDeltaProofs`. The deque is the set of rows consumed that lie in the
window that is open; no row consumed is past it; and a window was flushed only
because a row past it came or none is left (`Passed`). So what is popped is too
old for every later window, and each delta is of exactly the rows of its window
that came in time. That these are all rows of the window follows for ascending rows,
and for windows without gaps, where a row that is late meets a later one in the deque
and fails (`Sane`).

`NeverBelowZero`: the correction for resets is at least what the oldest value
exceeds the newest by (`CorrectionSuffices`, by induction over the rows of the window:
the sum up to a row and its value together never fall below the oldest value), so the
increase is not negative; and what extrapolation adds at the start is at most what
brings the counter to zero (`StopsAtZero`), also when the zero point is nearer than
the window's start and neither is near the first sample.

`MigrationsProofs`. The build's assertions make the number of an incremental file
its place in the sorted directory (`InOrder` for every file, from 1 on), so that of
two releases that build, the newer one's script begins with the files of the older,
in the same order. The invariant says that what a transaction has applied is always
a beginning of the incremental files of its target and holds at least those it has
passed, and that the names in `migration` are exactly those applied. Hence `UpgradeEqualsInstall` and
`FunctionsOnFinalSchema`. For `ChangesReported` the invariant also carries that each
block passed, whose body differs from the one applied, was warned of or is tolerated.
That the sorting exists at all (`Sorted` is a CHOOSE) is proved first, by induction
on the number of files.

Only model-checked: the liveness property `MarkedEventuallyResolved`, as liveness
under fairness and ENABLED are out of the prover's reach, and the properties of the
runs that show findings, which the code violates. Every other property of a passing
run is a theorem. No module that a theorem is about declares a RECURSIVE operator;
`EventsOf`, which makes the events of nested values, is in `MCCompiled`, and induction
is over numbers by the well-foundedness of Nat (`LeastExists`).

## Not modelled

- Deletion of unused labels (`001-base.sql:2190-2221`), in the same transaction as
  the deletion of series: a session that read the id of such a label and
  commits a series with it later meets no lock and no recheck. The models of labels and of
  series leave it out.
- Metric creation, finalisation and `drop_metric`, exemplar tables, views: DDL
  under table locks. The models begin with finalised metrics.
- The advisory locks per metric, the order of the two passes of the policies,
  compression, and the vacuum engine, which change none of the modelled state.
- Settings, job configuration, metadata, telemetry: single statements or
  administrators' functions whose outcome is visible in their text.
- `trace_tree`, `upstream_spans`, `downstream_spans`, matchers: queries without
  state. `upstream_spans` ends only if parent links have no cycle.
- In the aggregates: rounding of doubles, overflow of 64-bit products (a width
  times 1000), and a final function that is called several times on one state, as
  for a window aggregate. A rate over a range shorter than a second, which is
  truncated to 0, is modelled, with one value for all that the division may give.
- In the build: control files and the extension's SQL entities; an incremental
  file may never be numbered 1000, as names sort before numbers are compared.
- Calls of the put functions with several types at once; foreign keys.
- SHA-512, regular expressions, TimescaleDB, PostgreSQL's executor and planner,
  and the connector are external: modelled by how this code uses them.

What is left of the plan, in order: a module on the deletion of labels that
composes `LabelCatalog` and the deletion of series; the metric catalog with its
lock order; the policies' locks.
