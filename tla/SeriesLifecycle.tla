-------------------------- MODULE SeriesLifecycle --------------------------
(***************************************************************************)
(* The life of a series: connectors obtain a series id, cache it and       *)
(* insert rows under it; maintenance jobs mark series whose data expires,  *)
(* drop the data and delete the series some epochs later; an ingest that   *)
(* meets a marked series resurrects it.  (001-base.sql, 011-maintenance.)  *)
(*                                                                         *)
(* Statements run under READ COMMITTED.  A writing statement is two steps: *)
(* its snapshot, and its commit, where every row's qualification is        *)
(* evaluated again on the row's latest version, as PostgreSQL does with a  *)
(* row that changed after the snapshot.  What a transaction wrote is       *)
(* invisible before its commit and holds row locks until then, so writing  *)
(* at the commit is the same behaviour.                                    *)
(***************************************************************************)
EXTENDS Integers

CONSTANTS
  Connectors,   \* sessions that ingest
  Workers,      \* sessions that run maintenance
  Raw,          \* the metric's own data table
  Views,        \* continuous aggregates registered over it (same series_table)
  Labels,       \* label sets of the metric
  Timescale,    \* is_timescaledb_installed()
  MaxId,        \* bound on nextval('_prom_catalog.series_id')
  MaxTime,      \* bound on the timestamps of the data
  MaxEpoch,     \* bound on ids_epoch.current_epoch
  Span,         \* epochs a transaction may outlive (timing assumption)
  NULL

Tables == {Raw} \cup Views
Ids    == 1..MaxId
Times  == 0..MaxTime
CutOffs == 1..(MaxTime + 1)

OneHour       == 1   \* the look-ahead after drop_point, in units of Times
DeletionDelay == 4   \* deletion_epoch := present_epoch - 4
StaleEpochs   == 1   \* current_epoch > user_epoch + 1 aborts

ASSUME BoundsAssumption == MaxId \in Nat /\ MaxTime \in Nat /\ MaxEpoch \in Nat
ASSUME TimescaleAssumption == Timescale \in BOOLEAN
ASSUME NullAssumption == NULL \notin Int /\ NULL \notin Tables
\* epoch_duration is hours, a transaction is shorter than one: it sees the
\* epoch advance at most Span times, and the deletion delay covers two of them.
ASSUME SpanAssumption == Span \in Nat /\ 2 * Span < DeletionDelay

VARIABLES
  \* the database
  current_epoch,  \* ids_epoch.current_epoch
  next_id,        \* the sequence behind series ids
  rows,           \* ids with a row in prom_data_series.<metric>
  labels,         \* labels[id], fixed when the row is created
  delete_epoch,   \* delete_epoch[id], NULL for a live series
  data,           \* data[m]: committed rows <<id, time>> of a metric table
  \* a connector's session c
  conn,           \* conn[c]: how far it is
  label,          \* label[c]: the label set it ingests
  epoch,          \* epoch[c]: the epoch cached with the id
  sid,            \* sid[c]: the series id it obtained
  since,          \* since[c]: the epoch at the start of its insert
  time,           \* time[c]: the timestamp of the row it inserts
  \* a maintenance session w
  job,            \* job[w]: how far it is
  table,          \* table[w]: the metric table it works on
  cutoff,         \* cutoff[w]: older_than
  present,        \* present[w]: present_epoch
  began,          \* began[w]: the epoch in the snapshot of its marking UPDATE
  ids,            \* ids[w]: rows that UPDATE, or delete_expired_series, found
  dead,           \* dead[w]: dead_series
  gone,           \* gone[w]: data rows found by delete_series_from_metric
  \* history
  ghost,          \* ids returned by a resurrection that found no row
  deletedBy       \* deletedBy[id]: the table whose job deleted the series

catalog  == <<next_id, rows, labels, delete_epoch>>
connVars == <<conn, label, epoch, sid, since, time>>
jobVars  == <<job, table, cutoff, present, began, ids, dead, gone>>
history  == <<ghost, deletedBy>>
vars == <<current_epoch, catalog, data, connVars, jobVars, history>>

Init ==
  /\ current_epoch = 0
  /\ next_id = 1
  /\ rows = {}
  /\ labels = [id \in Ids |-> NULL]
  /\ delete_epoch = [id \in Ids |-> NULL]
  /\ data = [m \in Tables |-> {}]
  /\ conn = [c \in Connectors |-> "idle"]
  /\ label = [c \in Connectors |-> NULL]
  /\ epoch = [c \in Connectors |-> 0]
  /\ sid = [c \in Connectors |-> 0]
  /\ since = [c \in Connectors |-> 0]
  /\ time = [c \in Connectors |-> 0]
  /\ job = [w \in Workers |-> "idle"]
  /\ table = [w \in Workers |-> NULL]
  /\ cutoff = [w \in Workers |-> NULL]
  /\ present = [w \in Workers |-> 0]
  /\ began = [w \in Workers |-> 0]
  /\ ids = [w \in Workers |-> {}]
  /\ dead = [w \in Workers |-> {}]
  /\ gone = [w \in Workers |-> {}]
  /\ ghost = {}
  /\ deletedBy = [id \in Ids |-> NULL]

-----------------------------------------------------------------------------
(* Connectors *)

Fetching(c)  == conn[c] \in {"fetch", "resurrect", "create", "reselect"}
Inserting(c) == conn[c] \in {"inserted", "checked"}
RowsWith(l)  == {id \in rows : labels[id] = l}

ConnGoes(c, from, to) == conn[c] = from /\ conn' = [conn EXCEPT ![c] = to]

\* The session forgets what it cached.
ConnReset(c) ==
  /\ conn' = [conn EXCEPT ![c] = "idle"]
  /\ label' = [label EXCEPT ![c] = NULL]
  /\ epoch' = [epoch EXCEPT ![c] = 0]
  /\ sid' = [sid EXCEPT ![c] = 0]
  /\ since' = [since EXCEPT ![c] = 0]
  /\ time' = [time EXCEPT ![c] = 0]

\* A batch for label set l starts by reading the epoch it will be checked with.
ReadEpoch(c, l) ==
  /\ ConnGoes(c, "idle", "fetch")
  /\ label' = [label EXCEPT ![c] = l]
  /\ epoch' = [epoch EXCEPT ![c] = current_epoch]
  /\ UNCHANGED <<current_epoch, catalog, data, sid, since, time, jobVars, history>>

\* get_or_create_series_id*: the snapshot sees a live row.
FetchLive(c) ==
  /\ ConnGoes(c, "fetch", "cached")
  /\ \E id \in RowsWith(label[c]) :
       /\ delete_epoch[id] = NULL
       /\ sid' = [sid EXCEPT ![c] = id]
  /\ UNCHANGED <<current_epoch, catalog, data, label, epoch, since, time, jobVars,
                 history>>

\* ... or a marked row, which the CASE sends to resurrect_series_ids,
FetchMarked(c) ==
  /\ ConnGoes(c, "fetch", "resurrect")
  /\ \E id \in RowsWith(label[c]) :
       /\ delete_epoch[id] # NULL
       /\ sid' = [sid EXCEPT ![c] = id]
  /\ UNCHANGED <<current_epoch, catalog, data, label, epoch, since, time, jobVars,
                 history>>

\* whose UPDATE may find the row gone: the id is returned all the same.
Resurrect(c) ==
  /\ ConnGoes(c, "resurrect", "cached")
  /\ \/ /\ sid[c] \in rows
        /\ delete_epoch' = [delete_epoch EXCEPT ![sid[c]] = NULL]
        /\ UNCHANGED ghost
     \/ /\ sid[c] \notin rows
        /\ ghost' = ghost \cup {sid[c]}
        /\ UNCHANGED delete_epoch
  /\ UNCHANGED <<current_epoch, next_id, rows, labels, data, label, epoch, sid,
                 since, time, jobVars, deletedBy>>

\* The snapshot sees no row: create_series takes an id,
FetchNone(c) ==
  /\ ConnGoes(c, "fetch", "create")
  /\ RowsWith(label[c]) = {}
  /\ next_id \in Ids
  /\ next_id' = next_id + 1
  /\ sid' = [sid EXCEPT ![c] = next_id]
  /\ UNCHANGED <<current_epoch, rows, labels, delete_epoch, data, label, epoch,
                 since, time, jobVars, history>>

\* inserts it unless the labels exist by now,
CreateInsert(c) ==
  /\ RowsWith(label[c]) = {}
  /\ ConnGoes(c, "create", "cached")
  /\ rows' = rows \cup {sid[c]}
  /\ labels' = [labels EXCEPT ![sid[c]] = label[c]]
  /\ delete_epoch' = [delete_epoch EXCEPT ![sid[c]] = NULL]
  /\ UNCHANGED <<current_epoch, next_id, data, label, epoch, sid, since, time,
                 jobVars, history>>

CreateConflict(c) ==
  /\ RowsWith(label[c]) # {}
  /\ ConnGoes(c, "create", "reselect")
  /\ UNCHANGED <<current_epoch, catalog, data, label, epoch, sid, since, time,
                 jobVars, history>>

\* and then selects the row that was in the way, marked or not, or tries again.
CreateSelect(c) ==
  /\ \/ /\ ConnGoes(c, "reselect", "cached")
        /\ \E id \in RowsWith(label[c]) : sid' = [sid EXCEPT ![c] = id]
     \/ /\ ConnGoes(c, "reselect", "create")
        /\ RowsWith(label[c]) = {}
        /\ UNCHANGED sid
  /\ UNCHANGED <<current_epoch, catalog, data, label, epoch, since, time, jobVars,
                 history>>

\* insert_metric_row under a cached id, in a transaction of its own,
InsertData(c, t) ==
  /\ ConnGoes(c, "cached", "inserted")
  /\ time' = [time EXCEPT ![c] = t]
  /\ since' = [since EXCEPT ![c] = current_epoch]
  /\ UNCHANGED <<current_epoch, catalog, data, label, epoch, sid, jobVars, history>>

\* (mutant) the check is left out
EpochNotChecked(c) == FALSE

\* whose last statement checks the epoch
EpochTooOld(c) == current_epoch > epoch[c] + StaleEpochs

EpochCheck(c) ==
  /\ ~EpochTooOld(c)
  /\ ConnGoes(c, "inserted", "checked")
  /\ UNCHANGED <<current_epoch, catalog, data, label, epoch, sid, since, time,
                 jobVars, history>>

\* and calls epoch_abort when it is old.
EpochAbort(c) ==
  /\ EpochTooOld(c)
  /\ conn[c] = "inserted"
  /\ ConnReset(c)
  /\ UNCHANGED <<current_epoch, catalog, data, jobVars, history>>

CommitInsert(c) ==
  /\ ConnGoes(c, "checked", "cached")
  /\ data' = [data EXCEPT ![Raw] = @ \cup {<<sid[c], time[c]>>}]
  /\ time' = [time EXCEPT ![c] = 0]
  /\ since' = [since EXCEPT ![c] = 0]
  /\ UNCHANGED <<current_epoch, catalog, label, epoch, sid, jobVars, history>>

\* The cache entry is evicted, the statement fails or the connector dies.
Disconnect(c) ==
  /\ conn[c] # "idle"
  /\ ConnReset(c)
  /\ UNCHANGED <<current_epoch, catalog, data, jobVars, history>>

-----------------------------------------------------------------------------
(* What the maintenance statements compute from their snapshot *)

Marking(w) == job[w] \in {"marking", "unlisting"}

HasData(m, id) == \E t \in Times : <<id, t>> \in data[m]

\* Chunks are one unit of Times long and exist where there is data.
OldChunkEnds(m, older) ==
  {end \in CutOffs : end <= older /\ \E id \in Ids : <<id, end - 1>> \in data[m]}

\* get_metrics_that_need_drop_chunk
MetricsThatNeedDropChunk(older) ==
  IF Timescale THEN {m \in Tables : OldChunkEnds(m, older) # {}} ELSE {Raw}

\* Transaction 1 of drop_metric_chunks turns the cut-off into the exact one: the
\* last range_end up to older, or NULL without such a chunk.
IsTightOlderThan(m, older, dp) ==
  IF Timescale
    THEN \/ OldChunkEnds(m, older) = {} /\ dp = NULL
         \/ dp \in OldChunkEnds(m, older)
            /\ \A end \in OldChunkEnds(m, older) : end <= dp
    ELSE dp = older

\* (mutant) the series seen right after drop_point are not excepted
DroppedWithoutWindow(m, drop_point) ==
  {id \in Ids : \E t \in Times : <<id, t>> \in data[m] /\ t < drop_point}

\* The candidates of mark_series_to_be_dropped_as_unused,
PotentiallyDropped(m, drop_point) ==
  {id \in Ids : /\ \E t \in Times : <<id, t>> \in data[m] /\ t < drop_point
                /\ ~\E t \in Times : /\ <<id, t>> \in data[m]
                                     /\ drop_point <= t
                                     /\ t < drop_point + OneHour}

\* and get_confirmed_unused_series over every metric on the series table.
ConfirmedUnused(m, potential, newer_than) ==
  {id \in potential :
     \A r \in Tables : ~\E t \in Times : /\ <<id, t>> \in data[r]
                                         /\ r = m => t >= newer_than}

\* (mutant) the recheck is left out
DeadUnchecked(m, potential) == potential

\* "recheck that the series IDs we might delete are actually dead"
Dead(m, potential) == {id \in potential : ~HasData(m, id)}

\* WHERE delete_epoch IS NULL AND id = ANY(some)
Unmarked(some) == {id \in some \cap rows : delete_epoch[id] = NULL}

\* (mutant) marks with the current epoch, not the next
MarkWithCurrent(some, at) ==
  [id \in Ids |-> IF id \in Unmarked(some) THEN at ELSE delete_epoch[id]]

\* UPDATE ... SET delete_epoch = current_epoch+1, current_epoch as the snapshot
\* has it, in the rows still unmarked.
Mark(some, at) ==
  [id \in Ids |-> IF id \in Unmarked(some) THEN at + 1 ELSE delete_epoch[id]]

\* (mutant) deletes without delay
ExpiredAtOnce(at) ==
  {id \in rows : delete_epoch[id] # NULL /\ delete_epoch[id] <= at}

\* WHERE delete_epoch <= deletion_epoch
Expired(at) ==
  {id \in rows : delete_epoch[id] # NULL /\ delete_epoch[id] <= at - DeletionDelay}

\* (mutant) the qualification is not repeated in the DELETE
ExpiredInSnapshot(w) == ids[w]

\* Rows of the snapshot that the DELETE and the resurrecting UPDATE still find
\* expired when it is their turn.
StillExpired(w) == ids[w] \cap Expired(present[w])

\* (mutants) the UPDATE of ids_epoch has no WHERE; its WHERE is off by one
EpochUnchecked(next_epoch) == TRUE
EpochIsTwoBehind(next_epoch) == current_epoch < next_epoch - 1

\* WHERE current_epoch < next_epoch
EpochIsBehind(next_epoch) == current_epoch < next_epoch

\* The open transactions (a fetch, which began with ReadEpoch; an insert; a
\* statement that marks) started at most Span epochs before this one.
TxnsAreShort(next_epoch) ==
  /\ \A c \in Connectors :
       /\ Fetching(c) => next_epoch <= epoch[c] + Span
       /\ Inserting(c) => next_epoch <= since[c] + Span
  /\ \A w \in Workers : Marking(w) => next_epoch <= began[w] + Span

-----------------------------------------------------------------------------
(* Maintenance jobs *)

JobGoes(w, from, to) == job[w] = from /\ job' = [job EXCEPT ![w] = to]

JobReset(w) ==
  /\ job' = [job EXCEPT ![w] = "idle"]
  /\ table' = [table EXCEPT ![w] = NULL]
  /\ cutoff' = [cutoff EXCEPT ![w] = NULL]
  /\ present' = [present EXCEPT ![w] = 0]
  /\ began' = [began EXCEPT ![w] = 0]
  /\ ids' = [ids EXCEPT ![w] = {}]
  /\ dead' = [dead EXCEPT ![w] = {}]
  /\ gone' = [gone EXCEPT ![w] = {}]

JobStarts(w, m, older) ==
  /\ JobGoes(w, "idle", "start")
  /\ table' = [table EXCEPT ![w] = m]
  /\ cutoff' = [cutoff EXCEPT ![w] = older]
  /\ UNCHANGED <<current_epoch, catalog, data, connVars, present, began, ids, dead,
                 gone, history>>

\* execute_data_retention_policy takes a metric from its list,
SelectMetric(w, older) ==
  \E m \in MetricsThatNeedDropChunk(older) : JobStarts(w, m, older)

\* or someone calls drop_metric_chunks directly.
CallDropMetricChunks(w, m, older) == JobStarts(w, m, older)

\* Transaction 1: the cut-off and the epoch.
ReadOlderThan(w) ==
  /\ job[w] = "start"
  /\ \E dp \in CutOffs \cup {NULL} :
       /\ IsTightOlderThan(table[w], cutoff[w], dp)
       /\ cutoff' = [cutoff EXCEPT ![w] = dp]
       /\ job' = [job EXCEPT ![w] = IF dp = NULL THEN "expire" ELSE "mark"]
  /\ present' = [present EXCEPT ![w] = current_epoch]
  /\ UNCHANGED <<current_epoch, catalog, data, connVars, table, began, ids, dead,
                 gone, history>>

\* Transaction 2: snapshot of mark_series_to_be_dropped_as_unused,
MarkSnapshot(w) ==
  /\ JobGoes(w, "mark", "marking")
  /\ LET m  == table[w]
         dp == cutoff[w]
         unused == ConfirmedUnused(m, PotentiallyDropped(m, dp), dp + OneHour)
     IN  ids' = [ids EXCEPT ![w] = Unmarked(unused)]
  /\ began' = [began EXCEPT ![w] = current_epoch]
  /\ UNCHANGED <<current_epoch, catalog, data, connVars, table, cutoff, present,
                 dead, gone, history>>

\* and its UPDATE.
MarkCommit(w) ==
  /\ JobGoes(w, "marking", "drop")
  /\ delete_epoch' = Mark(ids[w], began[w])
  /\ ids' = [ids EXCEPT ![w] = {}]
  /\ began' = [began EXCEPT ![w] = 0]
  /\ UNCHANGED <<current_epoch, next_id, rows, labels, data, connVars, table,
                 cutoff, present, dead, gone, history>>

\* Transaction 3: drop_metric_chunk_data, and the epoch read again.
DropData(w) ==
  /\ JobGoes(w, "drop", "expire")
  /\ data' = [data EXCEPT ![table[w]] = {d \in @ : d[2] >= cutoff[w]}]
  /\ present' = [present EXCEPT ![w] = current_epoch]
  /\ UNCHANGED <<current_epoch, catalog, connVars, table, cutoff, began, ids, dead,
                 gone, history>>

\* Transaction 4, delete_expired_series: snapshot of dead_series,
DeleteSnapshot(w) ==
  /\ JobGoes(w, "expire", "deleting")
  /\ ids' = [ids EXCEPT ![w] = Expired(present[w])]
  /\ dead' = [dead EXCEPT ![w] = Dead(table[w], Expired(present[w]))]
  /\ cutoff' = [cutoff EXCEPT ![w] = NULL]
  /\ UNCHANGED <<current_epoch, catalog, data, connVars, table, present, began,
                 gone, history>>

\* the last UPDATE of it, when epoch_duration has passed (due),
AdvanceEpoch(next_epoch, due) ==
  IF due /\ EpochIsBehind(next_epoch)
    THEN /\ next_epoch <= MaxEpoch
         /\ TxnsAreShort(next_epoch)
         /\ current_epoch' = next_epoch
    ELSE UNCHANGED current_epoch

\* after the DELETE and the resurrection.
DeleteCommit(w, due) ==
  /\ job[w] = "deleting"
  /\ LET deleted == StillExpired(w) \cap dead[w]
     IN  /\ rows' = rows \ deleted
         /\ delete_epoch' = [id \in Ids |-> IF id \in StillExpired(w)
                                              THEN NULL ELSE delete_epoch[id]]
         /\ deletedBy' = [id \in Ids |-> IF id \in deleted THEN table[w]
                                                           ELSE deletedBy[id]]
  /\ AdvanceEpoch(present[w] + 1, due)
  /\ JobReset(w)
  /\ UNCHANGED <<next_id, labels, data, connVars, ghost>>

\* The job of a metric with another series table reaches the same UPDATE.
AdvanceByOtherMetric ==
  /\ EpochIsBehind(current_epoch + 1)
  /\ current_epoch < MaxEpoch
  /\ AdvanceEpoch(current_epoch + 1, TRUE)
  /\ UNCHANGED <<catalog, data, connVars, jobVars, history>>

\* delete_series_from_metric: the DELETE over the chunks (snapshot),
DeleteSeriesData(w, series_ids) ==
  /\ JobGoes(w, "idle", "unlist")
  /\ table' = [table EXCEPT ![w] = Raw]
  /\ ids' = [ids EXCEPT ![w] = series_ids]
  /\ gone' = [gone EXCEPT ![w] = {d \in data[Raw] : d[1] \in series_ids}]
  /\ UNCHANGED <<current_epoch, catalog, data, connVars, cutoff, present, began,
                 dead, history>>

\* the snapshot of delete_series_catalog_row's UPDATE,
DeleteSeriesSnapshot(w) ==
  /\ JobGoes(w, "unlist", "unlisting")
  /\ ids' = [ids EXCEPT ![w] = Unmarked(@)]
  /\ began' = [began EXCEPT ![w] = current_epoch]
  /\ UNCHANGED <<current_epoch, catalog, data, connVars, table, cutoff, present,
                 dead, gone, history>>

\* and both at the commit.
DeleteSeriesCommit(w) ==
  /\ job[w] = "unlisting"
  /\ data' = [data EXCEPT ![Raw] = @ \ gone[w]]
  /\ delete_epoch' = Mark(ids[w], began[w])
  /\ JobReset(w)
  /\ UNCHANGED <<current_epoch, next_id, rows, labels, connVars, history>>

\* A maintenance session dies between or inside its transactions.
JobCrash(w) ==
  /\ job[w] # "idle"
  /\ JobReset(w)
  /\ UNCHANGED <<current_epoch, catalog, data, connVars, history>>

\* A continuous aggregate materialises a row of the raw table.
Refresh(v) ==
  /\ \E d \in data[Raw] \ data[v] : data' = [data EXCEPT ![v] = @ \cup {d}]
  /\ UNCHANGED <<current_epoch, catalog, connVars, jobVars, history>>

-----------------------------------------------------------------------------
ConnectorStep(c) ==
  \/ FetchLive(c) \/ FetchMarked(c) \/ Resurrect(c) \/ FetchNone(c)
  \/ CreateInsert(c) \/ CreateConflict(c) \/ CreateSelect(c)
  \/ EpochCheck(c) \/ EpochAbort(c) \/ CommitInsert(c)

RetentionStep(w) ==
  \/ ReadOlderThan(w) \/ MarkSnapshot(w) \/ MarkCommit(w) \/ DropData(w)
  \/ DeleteSnapshot(w)

DeleteSeriesStep(w) == DeleteSeriesSnapshot(w) \/ DeleteSeriesCommit(w)

Next ==
  \/ \E c \in Connectors :
       \/ ConnectorStep(c)
       \/ \E l \in Labels : ReadEpoch(c, l)
       \/ \E t \in Times : InsertData(c, t)
       \/ Disconnect(c)
  \/ \E w \in Workers :
       \/ RetentionStep(w)
       \/ \E due \in BOOLEAN : DeleteCommit(w, due)
       \/ \E older \in CutOffs :
            \/ SelectMetric(w, older)
            \/ \E m \in Tables : CallDropMetricChunks(w, m, older)
       \/ \E series_ids \in (SUBSET rows) \ {{}} : DeleteSeriesData(w, series_ids)
       \/ DeleteSeriesStep(w)
       \/ JobCrash(w)
  \/ \E v \in Views : Refresh(v)
  \/ AdvanceByOtherMetric

Spec == Init /\ [][Next]_vars

\* Sessions finish their statements, epoch_duration keeps passing, and the
\* retention job is run again and again: it may crash, but there is no step that
\* it never survives.
FairSpec ==
  /\ Spec
  /\ \A c \in Connectors : WF_vars(ConnectorStep(c))
  /\ \A w \in Workers :
       /\ SF_vars(\E older \in CutOffs : SelectMetric(w, older))
       /\ SF_vars(ReadOlderThan(w))
       /\ SF_vars(MarkSnapshot(w))
       /\ SF_vars(MarkCommit(w))
       /\ SF_vars(DropData(w))
       /\ SF_vars(DeleteSnapshot(w))
       /\ SF_vars(\E due \in BOOLEAN : DeleteCommit(w, due))
       /\ WF_vars(DeleteSeriesStep(w))
  /\ WF_vars(AdvanceByOtherMetric)

-----------------------------------------------------------------------------
(* Properties *)

EpochsUsed == 0..MaxEpoch

ConnStates == {"idle", "fetch", "resurrect", "create", "reselect", "cached",
               "inserted", "checked"}
JobStates  == {"idle", "start", "mark", "marking", "drop", "expire", "deleting",
               "unlist", "unlisting"}

\* Type invariant; a mark is always the epoch after one that was current.
TypeOK ==
  /\ current_epoch \in EpochsUsed
  /\ next_id \in 1..(MaxId + 1)
  /\ rows \subseteq Ids
  /\ labels \in [Ids -> Labels \cup {NULL}]
  /\ delete_epoch \in [Ids -> 1..(MaxEpoch + 1) \cup {NULL}]
  /\ data \in [Tables -> SUBSET (Ids \X Times)]
  /\ conn \in [Connectors -> ConnStates]
  /\ label \in [Connectors -> Labels \cup {NULL}]
  /\ epoch \in [Connectors -> EpochsUsed]
  /\ sid \in [Connectors -> 0..MaxId]
  /\ since \in [Connectors -> EpochsUsed]
  /\ time \in [Connectors -> Times]
  /\ job \in [Workers -> JobStates]
  /\ table \in [Workers -> Tables \cup {NULL}]
  /\ cutoff \in [Workers -> CutOffs \cup {NULL}]
  /\ present \in [Workers -> EpochsUsed]
  /\ began \in [Workers -> EpochsUsed]
  /\ ids \in [Workers -> SUBSET Ids]
  /\ dead \in [Workers -> SUBSET Ids]
  /\ gone \in [Workers -> SUBSET (Ids \X Times)]
  /\ ghost \subseteq Ids
  /\ deletedBy \in [Ids -> Tables \cup {NULL}]

\* A committed row of the raw table refers to an existing series, unless its id
\* came from a resurrection that found nothing or another table's job deleted
\* the series: delete_expired_series of the table itself orphans no row, however
\* late a connector commits.
RawDataHasSeries ==
  \A d \in data[Raw] : \/ d[1] \in rows
                       \/ d[1] \in ghost
                       \/ deletedBy[d[1]] \in Views

\* Two connectors about to commit rows for one label set use one series id.
NoSplitSeries ==
  \A c, d \in Connectors :
    /\ conn[c] = "checked" /\ conn[d] = "checked"
    /\ label[c] = label[d]
    /\ {sid[c], sid[d]} \cap ghost = {}
    => sid[c] = sid[d]

\* An insert that the epoch check let through commits under a series that still
\* exists (or whose id was a ghost from the start), whoever deletes series.
AcceptedInsertHasSeries ==
  [][\A c \in Connectors : conn[c] = "checked" /\ conn'[c] = "cached"
                           => sid[c] \in rows \cup ghost]_vars

\* A series disappears only after four full epochs in the marked state; one that
\* was resurrected after the job's snapshot does not disappear.
GracePeriod ==
  [][\A id \in rows \ rows' : /\ delete_epoch[id] # NULL
                              /\ delete_epoch[id] + 4 <= current_epoch]_vars

\* Jobs that advance the epoch from what they read earlier move it by one, never
\* back and never twice for one reading.
EpochStepsByOne ==
  [][current_epoch' \in {current_epoch, current_epoch + 1}]_vars

\* What a job is about to mark has, in its snapshot, no row in any table on the
\* series table that the drop would leave: the hour after drop_point and the
\* confirmation from there on leave no gap.
MarkLeavesNoData ==
  [][\A w \in Workers : job[w] = "mark" /\ job'[w] = "marking" =>
       \A id \in ids'[w], m \in Tables, t \in Times :
         <<id, t>> \in data[m] => m = table[w] /\ t < cutoff[w]]_vars

\* A series deleted by any job is referenced by no table that shares the series
\* table ("recheck that the series IDs we might delete are actually dead").
DeletedSeriesAreDead ==
  [][\A id \in rows \ rows', m \in Tables : ~HasData(m, id)]_vars

\* get_or_create_series_id* returns the id of a row that exists.
ReturnedSeriesExists ==
  [][\A c \in Connectors :
       Fetching(c) /\ conn'[c] = "cached" => sid'[c] \in rows']_vars

\* A mark does not stay: the series is deleted or resurrected (within MaxEpoch).
MarkedEventuallyResolved ==
  \A id \in Ids, k \in 1..(MaxEpoch - DeletionDelay) :
    (id \in rows /\ delete_epoch[id] = k)
      ~> ~(id \in rows /\ delete_epoch[id] = k)

-----------------------------------------------------------------------------
(* The inductive invariant behind RawDataHasSeries *)

HoldsId(c)  == conn[c] \notin {"idle", "fetch"}
Creating(c) == conn[c] \in {"create", "reselect"}

\* What a session reads from its own variables has a meaning when it reads it.
SessionsOK ==
  /\ \A c \in Connectors : HoldsId(c) => sid[c] \in Ids
  /\ \A w \in Workers : job[w] # "idle" => table[w] \in Tables
  /\ \A w \in Workers : job[w] \in {"start", "mark", "marking", "drop"}
                           => cutoff[w] \in CutOffs

\* An id taken from the sequence is its taker's alone until the row exists, and
\* a ghost's row never comes back.
IdsAreFresh ==
  /\ \A id \in rows \cup ghost : id < next_id
  /\ \A c \in Connectors : HoldsId(c) => sid[c] < next_id
  /\ \A c \in Connectors : Creating(c) =>
       /\ sid[c] \notin rows \cup ghost
       /\ \A d \in Connectors \ {c} : HoldsId(d) => sid[d] # sid[c]
  /\ rows \cap ghost = {}

\* A connector's id stands for its own label set.
IdsMatchLabels ==
  \A c \in Connectors : HoldsId(c) /\ sid[c] \in rows
                          => labels[sid[c]] = label[c]

UniqueLabels == \A i, j \in rows : labels[i] = labels[j] => i = j

\* Epochs read are past epochs, and the short transactions are short.
EpochsRead ==
  /\ \A c \in Connectors :
       /\ epoch[c] <= current_epoch
       /\ Inserting(c) => /\ since[c] <= current_epoch
                          /\ current_epoch <= since[c] + Span
       /\ conn[c] = "checked" => since[c] <= epoch[c] + StaleEpochs
  /\ \A w \in Workers :
       /\ present[w] <= current_epoch
       /\ Marking(w) => began[w] <= current_epoch /\ current_epoch <= began[w] + Span

\* A mark the holder of epoch e may meet is at most Span epochs older than e.
MarkedSince(id, e) == delete_epoch[id] = NULL \/ e < delete_epoch[id] + Span

\* A cached id is that of a series unmarked or marked since; once the series is
\* deleted the epoch is so far ahead that no insert under the id gets through.
CachedIdsAreFresh ==
  \A c \in Connectors :
    conn[c] = "cached" \/ Inserting(c) =>
      \/ sid[c] \in ghost
      \/ sid[c] \in rows /\ MarkedSince(sid[c], epoch[c])
      \/ sid[c] \notin rows /\ epoch[c] + DeletionDelay < current_epoch + Span

\* The row create_series may run into appeared after its epoch was read.
RivalRowsAreFresh ==
  \A c \in Connectors : Creating(c) =>
    \A id \in RowsWith(label[c]) : MarkedSince(id, epoch[c])

\* A series that a job of the raw table found dead and that got data since then
\* no longer qualifies for deletion.
DeadStayDead ==
  \A w \in Workers :
    job[w] = "deleting" /\ table[w] = Raw =>
      \A id \in dead[w] \cap Expired(present[w]) : ~HasData(Raw, id)

IndInv == /\ TypeOK
          /\ SessionsOK
          /\ IdsAreFresh
          /\ IdsMatchLabels
          /\ UniqueLabels
          /\ EpochsRead
          /\ CachedIdsAreFresh
          /\ RivalRowsAreFresh
          /\ DeadStayDead
          /\ RawDataHasSeries
=============================================================================
