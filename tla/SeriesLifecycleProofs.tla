----------------------- MODULE SeriesLifecycleProofs -----------------------
(***************************************************************************)
(* Proofs about SeriesLifecycle, for every value of its constants: type    *)
(* correctness, and that neither a deletion nor an insert in flight leaves *)
(* data without its series.  One lemma per conjunct of IndInv, one step in *)
(* it per action that can disturb the conjunct.                            *)
(***************************************************************************)
EXTENDS SeriesLifecycle, TLAPS

USE BoundsAssumption, NullAssumption
    DEF Ids, Times, CutOffs, EpochsUsed, ConnStates, JobStates, ConnGoes, JobGoes,
        catalog, connVars, jobVars, history

\* The disjuncts of Next, with the two ways a drop job starts as one.
LEMMA NextCases ==
  ASSUME [Next]_vars
  PROVE  \/ \E c \in Connectors :
              \/ \E l \in Labels : ReadEpoch(c, l)
              \/ FetchLive(c) \/ FetchMarked(c) \/ Resurrect(c) \/ FetchNone(c)
              \/ CreateInsert(c) \/ CreateConflict(c) \/ CreateSelect(c)
              \/ \E t \in Times : InsertData(c, t)
              \/ EpochCheck(c) \/ EpochAbort(c) \/ CommitInsert(c) \/ Disconnect(c)
         \/ \E w \in Workers :
              \/ \E m \in Tables, older \in CutOffs : JobStarts(w, m, older)
              \/ ReadOlderThan(w) \/ MarkSnapshot(w) \/ MarkCommit(w) \/ DropData(w)
              \/ DeleteSnapshot(w)
              \/ \E due \in BOOLEAN : DeleteCommit(w, due)
              \/ \E series_ids \in SUBSET rows : DeleteSeriesData(w, series_ids)
              \/ DeleteSeriesSnapshot(w) \/ DeleteSeriesCommit(w) \/ JobCrash(w)
         \/ \E v \in Views : Refresh(v)
         \/ AdvanceByOtherMetric
         \/ UNCHANGED vars
  <1>1. ASSUME NEW w \in Workers, NEW older \in CutOffs, SelectMetric(w, older)
        PROVE  \E m \in Tables, o \in CutOffs : JobStarts(w, m, o)
    BY <1>1 DEF SelectMetric, MetricsThatNeedDropChunk, Tables
  <1>2. ASSUME NEW w \in Workers, NEW m \in Tables, NEW older \in CutOffs,
               CallDropMetricChunks(w, m, older)
        PROVE  \E mm \in Tables, o \in CutOffs : JobStarts(w, mm, o)
    BY <1>2 DEF CallDropMetricChunks
  <1> QED
    BY <1>1, <1>2 DEF Next, ConnectorStep, RetentionStep, DeleteSeriesStep

\* No job or connector leaves the domains of TypeOK.
LEMMA TypeStep ==
  ASSUME TypeOK, SessionsOK, [Next]_vars
  PROVE  TypeOK'
  <1> USE DEF TypeOK
  <1>1. ASSUME NEW c \in Connectors, NEW l \in Labels, ReadEpoch(c, l)
        PROVE  TypeOK'
    BY <1>1 DEF ReadEpoch
  <1>2. ASSUME NEW c \in Connectors, FetchLive(c)
        PROVE  TypeOK'
    <2>1. PICK id \in RowsWith(label[c]) : sid' = [sid EXCEPT ![c] = id]
      BY <1>2 DEF FetchLive
    <2>2. id \in 0..MaxId
      BY <2>1 DEF RowsWith
    <2> QED
      BY <1>2, <2>1, <2>2 DEF FetchLive
  <1>3. ASSUME NEW c \in Connectors, FetchMarked(c)
        PROVE  TypeOK'
    <2>1. PICK id \in RowsWith(label[c]) : sid' = [sid EXCEPT ![c] = id]
      BY <1>3 DEF FetchMarked
    <2>2. id \in 0..MaxId
      BY <2>1 DEF RowsWith
    <2> QED
      BY <1>3, <2>1, <2>2 DEF FetchMarked
  <1>4. ASSUME NEW c \in Connectors, Resurrect(c)
        PROVE  TypeOK'
    BY <1>4 DEF Resurrect, SessionsOK, HoldsId
  <1>5. ASSUME NEW c \in Connectors, FetchNone(c)
        PROVE  TypeOK'
    <2>1. next_id' \in 1..(MaxId + 1) /\ sid' \in [Connectors -> 0..MaxId]
      BY <1>5 DEF FetchNone
    <2> QED
      BY <1>5, <2>1 DEF FetchNone
  <1>6. ASSUME NEW c \in Connectors, CreateInsert(c)
        PROVE  TypeOK'
    BY <1>6 DEF CreateInsert, SessionsOK, HoldsId
  <1>7. ASSUME NEW c \in Connectors, CreateConflict(c)
        PROVE  TypeOK'
    BY <1>7 DEF CreateConflict
  <1>8. ASSUME NEW c \in Connectors, CreateSelect(c)
        PROVE  TypeOK'
    <2>1. sid' \in [Connectors -> 0..MaxId]
      <3>1. \A id \in RowsWith(label[c]) : id \in 0..MaxId
        BY DEF RowsWith
      <3> QED
        BY <1>8, <3>1 DEF CreateSelect
    <2>2. conn' \in [Connectors -> ConnStates]
      BY <1>8 DEF CreateSelect
    <2> QED
      BY <1>8, <2>1, <2>2 DEF CreateSelect
  <1>9. ASSUME NEW c \in Connectors, NEW t \in Times, InsertData(c, t)
        PROVE  TypeOK'
    BY <1>9 DEF InsertData
  <1>10. ASSUME NEW c \in Connectors, EpochCheck(c)
        PROVE  TypeOK'
    BY <1>10 DEF EpochCheck
  <1>11. ASSUME NEW c \in Connectors, EpochAbort(c)
        PROVE  TypeOK'
    BY SMTT(60), <1>11 DEF EpochAbort, ConnReset
  <1>12. ASSUME NEW c \in Connectors, CommitInsert(c)
        PROVE  TypeOK'
    <2>1. <<sid[c], time[c]>> \in Ids \X Times
      BY <1>12 DEF CommitInsert, SessionsOK, HoldsId
    <2>2. data' \in [Tables -> SUBSET (Ids \X Times)]
      BY <1>12, <2>1 DEF CommitInsert, Tables
    <2>3. /\ conn' \in [Connectors -> ConnStates]
          /\ time' \in [Connectors -> Times]
          /\ since' \in [Connectors -> EpochsUsed]
      BY <1>12 DEF CommitInsert
    <2> QED
      BY <1>12, <2>2, <2>3 DEF CommitInsert
  <1>13. ASSUME NEW c \in Connectors, Disconnect(c)
        PROVE  TypeOK'
    BY SMTT(60), <1>13 DEF Disconnect, ConnReset
  <1>14. ASSUME NEW w \in Workers, NEW m \in Tables, NEW older \in CutOffs,
              JobStarts(w, m, older)
        PROVE  TypeOK'
    BY <1>14 DEF JobStarts
  <1>15. ASSUME NEW w \in Workers, ReadOlderThan(w)
        PROVE  TypeOK'
    BY <1>15 DEF ReadOlderThan
  <1>16. ASSUME NEW w \in Workers, MarkSnapshot(w)
        PROVE  TypeOK'
    BY <1>16 DEF MarkSnapshot, Unmarked, ConfirmedUnused
  <1>17. ASSUME NEW w \in Workers, MarkCommit(w)
        PROVE  TypeOK'
    BY SMTT(60), <1>17 DEF MarkCommit, Mark
  <1>18. ASSUME NEW w \in Workers, DropData(w)
        PROVE  TypeOK'
    BY <1>18 DEF DropData, SessionsOK
  <1>19. ASSUME NEW w \in Workers, DeleteSnapshot(w)
        PROVE  TypeOK'
    BY <1>19 DEF DeleteSnapshot, Expired, Dead
  <1>20. ASSUME NEW w \in Workers, NEW due \in BOOLEAN, DeleteCommit(w, due)
        PROVE  TypeOK'
    <2>1. current_epoch' \in EpochsUsed
      BY <1>20 DEF DeleteCommit, AdvanceEpoch
    <2>2. rows' \subseteq Ids
      BY <1>20 DEF DeleteCommit
    <2>3. delete_epoch' \in [Ids -> 1..(MaxEpoch + 1) \cup {NULL}]
      BY <1>20 DEF DeleteCommit
    <2>4. deletedBy' \in [Ids -> Tables \cup {NULL}]
      BY <1>20 DEF DeleteCommit, SessionsOK
    <2> QED
      BY <1>20, <2>1, <2>2, <2>3, <2>4 DEF DeleteCommit, JobReset
  <1>21. ASSUME NEW w \in Workers, NEW series_ids \in SUBSET rows,
              DeleteSeriesData(w, series_ids)
        PROVE  TypeOK'
    BY <1>21 DEF DeleteSeriesData, Tables
  <1>22. ASSUME NEW w \in Workers, DeleteSeriesSnapshot(w)
        PROVE  TypeOK'
    BY <1>22 DEF DeleteSeriesSnapshot, Unmarked
  <1>23. ASSUME NEW w \in Workers, DeleteSeriesCommit(w)
        PROVE  TypeOK'
    BY SMTT(60), <1>23 DEF DeleteSeriesCommit, Mark, JobReset, Tables
  <1>24. ASSUME NEW w \in Workers, JobCrash(w)
        PROVE  TypeOK'
    BY <1>24 DEF JobCrash, JobReset
  <1>25. ASSUME NEW v \in Views, Refresh(v)
        PROVE  TypeOK'
    <2>1. data' \in [Tables -> SUBSET (Ids \X Times)]
      BY <1>25 DEF Refresh, Tables
    <2> QED
      BY <1>25, <2>1 DEF Refresh
  <1>26. ASSUME AdvanceByOtherMetric
        PROVE  TypeOK'
    BY SMTT(60), <1>26 DEF AdvanceByOtherMetric, AdvanceEpoch
  <1>27. CASE UNCHANGED vars
    BY <1>27 DEF vars
  <1> HIDE DEF TypeOK
  <1> QED
    BY <1>1, <1>2, <1>3, <1>4, <1>5, <1>6, <1>7, <1>8, <1>9, <1>10, <1>11,
       <1>12, <1>13, <1>14, <1>15, <1>16, <1>17, <1>18, <1>19, <1>20, <1>21,
       <1>22, <1>23, <1>24, <1>25, <1>26, <1>27, NextCases

\* A session reads a variable of its own only after it has set it.
LEMMA SessionsStep ==
  ASSUME TypeOK, SessionsOK, [Next]_vars
  PROVE  SessionsOK'
  <1> USE DEF TypeOK, SessionsOK, HoldsId
  <1>1. ASSUME NEW c \in Connectors, NEW l \in Labels, ReadEpoch(c, l)
        PROVE  SessionsOK'
    BY <1>1 DEF ReadEpoch
  <1>2. ASSUME NEW c \in Connectors, FetchLive(c)
        PROVE  SessionsOK'
    BY <1>2 DEF FetchLive, RowsWith
  <1>3. ASSUME NEW c \in Connectors, FetchMarked(c)
        PROVE  SessionsOK'
    BY <1>3 DEF FetchMarked, RowsWith
  <1>4. ASSUME NEW c \in Connectors, Resurrect(c)
        PROVE  SessionsOK'
    BY <1>4 DEF Resurrect
  <1>5. ASSUME NEW c \in Connectors, FetchNone(c)
        PROVE  SessionsOK'
    BY <1>5 DEF FetchNone
  <1>6. ASSUME NEW c \in Connectors, CreateInsert(c)
        PROVE  SessionsOK'
    BY <1>6 DEF CreateInsert
  <1>7. ASSUME NEW c \in Connectors, CreateConflict(c)
        PROVE  SessionsOK'
    BY <1>7 DEF CreateConflict
  <1>8. ASSUME NEW c \in Connectors, CreateSelect(c)
        PROVE  SessionsOK'
    BY ZenonT(60), <1>8 DEF CreateSelect, RowsWith
  <1>9. ASSUME NEW c \in Connectors, NEW t \in Times, InsertData(c, t)
        PROVE  SessionsOK'
    BY <1>9 DEF InsertData
  <1>10. ASSUME NEW c \in Connectors, EpochCheck(c)
        PROVE  SessionsOK'
    BY <1>10 DEF EpochCheck
  <1>11. ASSUME NEW c \in Connectors, EpochAbort(c)
        PROVE  SessionsOK'
    BY <1>11 DEF EpochAbort, ConnReset
  <1>12. ASSUME NEW c \in Connectors, CommitInsert(c)
        PROVE  SessionsOK'
    BY <1>12 DEF CommitInsert
  <1>13. ASSUME NEW c \in Connectors, Disconnect(c)
        PROVE  SessionsOK'
    BY <1>13 DEF Disconnect, ConnReset
  <1>14. ASSUME NEW w \in Workers, NEW m \in Tables, NEW older \in CutOffs,
              JobStarts(w, m, older)
        PROVE  SessionsOK'
    BY <1>14 DEF JobStarts
  <1>15. ASSUME NEW w \in Workers, ReadOlderThan(w)
        PROVE  SessionsOK'
    BY <1>15 DEF ReadOlderThan
  <1>16. ASSUME NEW w \in Workers, MarkSnapshot(w)
        PROVE  SessionsOK'
    BY <1>16 DEF MarkSnapshot
  <1>17. ASSUME NEW w \in Workers, MarkCommit(w)
        PROVE  SessionsOK'
    BY <1>17 DEF MarkCommit
  <1>18. ASSUME NEW w \in Workers, DropData(w)
        PROVE  SessionsOK'
    BY <1>18 DEF DropData
  <1>19. ASSUME NEW w \in Workers, DeleteSnapshot(w)
        PROVE  SessionsOK'
    BY <1>19 DEF DeleteSnapshot
  <1>20. ASSUME NEW w \in Workers, NEW due \in BOOLEAN, DeleteCommit(w, due)
        PROVE  SessionsOK'
    BY <1>20 DEF DeleteCommit, JobReset
  <1>21. ASSUME NEW w \in Workers, NEW series_ids \in SUBSET rows,
              DeleteSeriesData(w, series_ids)
        PROVE  SessionsOK'
    BY <1>21 DEF DeleteSeriesData, Tables
  <1>22. ASSUME NEW w \in Workers, DeleteSeriesSnapshot(w)
        PROVE  SessionsOK'
    BY <1>22 DEF DeleteSeriesSnapshot
  <1>23. ASSUME NEW w \in Workers, DeleteSeriesCommit(w)
        PROVE  SessionsOK'
    BY <1>23 DEF DeleteSeriesCommit, JobReset
  <1>24. ASSUME NEW w \in Workers, JobCrash(w)
        PROVE  SessionsOK'
    BY <1>24 DEF JobCrash, JobReset
  <1>25. CASE UNCHANGED <<conn, sid, job, table, cutoff>>
    BY <1>25 DEF SessionsOK, HoldsId
  <1> HIDE DEF TypeOK, SessionsOK, HoldsId
  <1> QED
    BY <1>1, <1>2, <1>3, <1>4, <1>5, <1>6, <1>7, <1>8, <1>9, <1>10, <1>11,
       <1>12, <1>13, <1>14, <1>15, <1>16, <1>17, <1>18, <1>19, <1>20, <1>21,
       <1>22, <1>23, <1>24, <1>25, NextCases
       DEF Refresh, AdvanceByOtherMetric, vars

\* The sequence hands out every id once, and a row is only made of an id
\* that its
\* connector alone holds.
LEMMA FreshStep ==
  ASSUME TypeOK, SessionsOK, IdsAreFresh, [Next]_vars
  PROVE  IdsAreFresh'
  <1> USE DEF TypeOK, SessionsOK, HoldsId, IdsAreFresh, Creating
  <1>1. ASSUME NEW c \in Connectors, NEW l \in Labels, ReadEpoch(c, l)
        PROVE  IdsAreFresh'
    BY <1>1 DEF ReadEpoch
  <1>2. ASSUME NEW c \in Connectors, FetchLive(c)
        PROVE  IdsAreFresh'
    BY SMTT(60), <1>2 DEF FetchLive, RowsWith
  <1>3. ASSUME NEW c \in Connectors, FetchMarked(c)
        PROVE  IdsAreFresh'
    BY SMTT(60), <1>3 DEF FetchMarked, RowsWith
  <1>4. ASSUME NEW c \in Connectors, Resurrect(c)
        PROVE  IdsAreFresh'
    <2>1. HoldsId(c) /\ sid[c] < next_id
      BY <1>4 DEF Resurrect
    <2>2. \A id \in rows' \cup ghost' : id < next_id'
      BY <1>4, <2>1 DEF Resurrect
    <2>3. \A d \in Connectors : HoldsId(d)' => sid'[d] < next_id'
      BY <1>4 DEF Resurrect
    <2>4. \A d \in Connectors : Creating(d)' => sid'[d] \notin rows' \cup ghost'
      BY <1>4 DEF Resurrect
    <2>5. \A d, x \in Connectors : Creating(d)' /\ HoldsId(x)' /\ x # d
                               => sid'[x] # sid'[d]
      BY <1>4, <2>1 DEF Resurrect
    <2>6. rows' \cap ghost' = {}
      BY <1>4 DEF Resurrect
    <2> QED
      BY <2>2, <2>3, <2>4, <2>5, <2>6
  <1>5. ASSUME NEW c \in Connectors, FetchNone(c)
        PROVE  IdsAreFresh'
    <2>1. \A id \in rows' \cup ghost' : id < next_id'
      BY <1>5 DEF FetchNone
    <2>2. \A d \in Connectors : HoldsId(d)' => sid'[d] < next_id'
      BY <1>5 DEF FetchNone
    <2>3. \A d \in Connectors : Creating(d)' => sid'[d] \notin rows' \cup ghost'
      BY <1>5 DEF FetchNone
    <2>4. \A d, x \in Connectors : Creating(d)' /\ HoldsId(x)' /\ x # d
                               => sid'[x] # sid'[d]
      BY SMTT(60), <1>5 DEF FetchNone
    <2>5. rows' \cap ghost' = {}
      BY <1>5 DEF FetchNone
    <2> QED
      BY <2>1, <2>2, <2>3, <2>4, <2>5
  <1>6. ASSUME NEW c \in Connectors, CreateInsert(c)
        PROVE  IdsAreFresh'
    <2>1. \A id \in rows' \cup ghost' : id < next_id'
      BY ZenonT(60), <1>6 DEF CreateInsert
    <2>2. \A d \in Connectors : HoldsId(d)' => sid'[d] < next_id'
      BY <1>6 DEF CreateInsert
    <2>3. \A d \in Connectors : Creating(d)' => sid'[d] \notin rows' \cup ghost'
      BY <1>6 DEF CreateInsert
    <2>4. \A d, x \in Connectors : Creating(d)' /\ HoldsId(x)' /\ x # d
                               => sid'[x] # sid'[d]
      BY <1>6 DEF CreateInsert
    <2>5. rows' \cap ghost' = {}
      BY <1>6 DEF CreateInsert
    <2> QED
      BY <2>1, <2>2, <2>3, <2>4, <2>5
  <1>7. ASSUME NEW c \in Connectors, CreateConflict(c)
        PROVE  IdsAreFresh'
    BY <1>7 DEF CreateConflict
  <1>8. ASSUME NEW c \in Connectors, CreateSelect(c)
        PROVE  IdsAreFresh'
    <2>1. UNCHANGED <<next_id, rows, ghost>>
      BY <1>8 DEF CreateSelect
    <2>2. ASSUME conn[c] = "reselect", conn' = [conn EXCEPT ![c] = "cached"],
                 NEW id \in RowsWith(label[c]), sid' = [sid EXCEPT ![c] = id]
          PROVE  IdsAreFresh'
      <3>1. id \in rows
        BY DEF RowsWith
      <3> QED
        BY <2>1, <2>2, <3>1
    <2>3. ASSUME conn[c] = "reselect", conn' = [conn EXCEPT ![c] = "create"],
                 UNCHANGED sid
          PROVE  IdsAreFresh'
      BY <2>1, <2>3
    <2> QED
      BY <1>8, <2>2, <2>3 DEF CreateSelect
  <1>9. ASSUME NEW c \in Connectors, NEW t \in Times, InsertData(c, t)
        PROVE  IdsAreFresh'
    BY <1>9 DEF InsertData
  <1>10. ASSUME NEW c \in Connectors, EpochCheck(c)
        PROVE  IdsAreFresh'
    BY <1>10 DEF EpochCheck
  <1>11. ASSUME NEW c \in Connectors, EpochAbort(c)
        PROVE  IdsAreFresh'
    BY <1>11 DEF EpochAbort, ConnReset
  <1>12. ASSUME NEW c \in Connectors, CommitInsert(c)
        PROVE  IdsAreFresh'
    BY <1>12 DEF CommitInsert
  <1>13. ASSUME NEW c \in Connectors, Disconnect(c)
        PROVE  IdsAreFresh'
    BY <1>13 DEF Disconnect, ConnReset
  <1>14. ASSUME NEW w \in Workers, NEW due \in BOOLEAN, DeleteCommit(w, due)
        PROVE  IdsAreFresh'
    BY <1>14 DEF DeleteCommit
  <1>15. CASE UNCHANGED <<conn, sid, rows, ghost, next_id>>
    BY <1>15 DEF IdsAreFresh
  <1> HIDE DEF TypeOK, SessionsOK, HoldsId, IdsAreFresh, Creating
  <1> QED
    BY ZenonT(60), <1>1, <1>2, <1>3, <1>4, <1>5, <1>6, <1>7, <1>8, <1>9,
       <1>10, <1>11,
       <1>12, <1>13, <1>14, <1>15, NextCases
       DEF JobStarts, ReadOlderThan, MarkSnapshot, MarkCommit, DropData,
           DeleteSnapshot, DeleteSeriesData, DeleteSeriesSnapshot,
           DeleteSeriesCommit, JobCrash, Refresh, AdvanceByOtherMetric, vars

\* A connector's id stands for the label set it was asked for.
LEMMA LabelsStep ==
  ASSUME TypeOK, SessionsOK, IdsAreFresh, IdsMatchLabels, [Next]_vars
  PROVE  IdsMatchLabels'
  <1> USE DEF TypeOK, HoldsId, IdsMatchLabels
  <1>1. ASSUME NEW c \in Connectors, NEW l \in Labels, ReadEpoch(c, l)
        PROVE  IdsMatchLabels'
    BY <1>1 DEF ReadEpoch
  <1>2. ASSUME NEW c \in Connectors, FetchLive(c)
        PROVE  IdsMatchLabels'
    BY <1>2 DEF FetchLive, RowsWith
  <1>3. ASSUME NEW c \in Connectors, FetchMarked(c)
        PROVE  IdsMatchLabels'
    BY <1>3 DEF FetchMarked, RowsWith
  <1>4. ASSUME NEW c \in Connectors, Resurrect(c)
        PROVE  IdsMatchLabels'
    BY <1>4 DEF Resurrect
  <1>5. ASSUME NEW c \in Connectors, FetchNone(c)
        PROVE  IdsMatchLabels'
    BY <1>5 DEF FetchNone, IdsAreFresh
  <1>6. ASSUME NEW c \in Connectors, CreateInsert(c)
        PROVE  IdsMatchLabels'
    BY <1>6 DEF CreateInsert, IdsAreFresh, Creating, SessionsOK
  <1>7. ASSUME NEW c \in Connectors, CreateConflict(c)
        PROVE  IdsMatchLabels'
    BY <1>7 DEF CreateConflict
  <1>8. ASSUME NEW c \in Connectors, CreateSelect(c)
        PROVE  IdsMatchLabels'
    BY <1>8 DEF CreateSelect, RowsWith
  <1>9. ASSUME NEW c \in Connectors, NEW t \in Times, InsertData(c, t)
        PROVE  IdsMatchLabels'
    BY <1>9 DEF InsertData
  <1>10. ASSUME NEW c \in Connectors, EpochCheck(c)
        PROVE  IdsMatchLabels'
    BY <1>10 DEF EpochCheck
  <1>11. ASSUME NEW c \in Connectors, EpochAbort(c)
        PROVE  IdsMatchLabels'
    BY <1>11 DEF EpochAbort, ConnReset
  <1>12. ASSUME NEW c \in Connectors, CommitInsert(c)
        PROVE  IdsMatchLabels'
    BY <1>12 DEF CommitInsert
  <1>13. ASSUME NEW c \in Connectors, Disconnect(c)
        PROVE  IdsMatchLabels'
    BY <1>13 DEF Disconnect, ConnReset
  <1>14. ASSUME NEW w \in Workers, NEW due \in BOOLEAN, DeleteCommit(w, due)
        PROVE  IdsMatchLabels'
    BY <1>14 DEF DeleteCommit
  <1>15. CASE UNCHANGED <<conn, sid, rows, labels, label>>
    BY <1>15 DEF IdsMatchLabels
  <1> HIDE DEF TypeOK, HoldsId, IdsMatchLabels
  <1> QED
    BY ZenonT(60), <1>1, <1>2, <1>3, <1>4, <1>5, <1>6, <1>7, <1>8, <1>9,
       <1>10, <1>11,
       <1>12, <1>13, <1>14, <1>15, NextCases
       DEF JobStarts, ReadOlderThan, MarkSnapshot, MarkCommit, DropData,
           DeleteSnapshot, DeleteSeriesData, DeleteSeriesSnapshot,
           DeleteSeriesCommit, JobCrash, Refresh, AdvanceByOtherMetric, vars

\* The rows of a series table keep distinct label sets.
LEMMA UniqueStep ==
  ASSUME TypeOK, SessionsOK, IdsAreFresh, UniqueLabels, [Next]_vars
  PROVE  UniqueLabels'
  <1> USE DEF TypeOK, UniqueLabels
  <1>1. ASSUME NEW c \in Connectors, CreateInsert(c)
        PROVE  UniqueLabels'
    <2>1. sid[c] \in Ids \ rows
      BY <1>1 DEF CreateInsert, IdsAreFresh, Creating, SessionsOK, HoldsId
    <2>2. labels'[sid[c]] = label[c] /\ \A i \in rows : labels'[i] = labels[i]
      BY <1>1, <2>1 DEF CreateInsert
    <2>3. rows' = rows \cup {sid[c]} /\ \A i \in rows : labels[i] # label[c]
      BY <1>1 DEF CreateInsert, RowsWith
    <2> QED
      BY <2>1, <2>2, <2>3
  <1>2. ASSUME NEW w \in Workers, NEW due \in BOOLEAN, DeleteCommit(w, due)
        PROVE  UniqueLabels'
    BY <1>2 DEF DeleteCommit
  <1>3. CASE UNCHANGED <<rows, labels>>
    BY <1>3 DEF UniqueLabels
  <1> HIDE DEF TypeOK, UniqueLabels
  <1> QED
    BY ZenonT(60), <1>1, <1>2, <1>3, NextCases
       DEF ReadEpoch, FetchLive, FetchMarked, Resurrect, FetchNone,
           CreateConflict, CreateSelect, InsertData, EpochCheck, EpochAbort,
           CommitInsert, Disconnect, JobStarts, ReadOlderThan, MarkSnapshot,
           MarkCommit, DropData, DeleteSnapshot, DeleteSeriesData,
           DeleteSeriesSnapshot, DeleteSeriesCommit, JobCrash, Refresh,
           AdvanceByOtherMetric, vars

\* Every epoch that a session remembers is past, and short transactions stay
\* short.
LEMMA EpochsStep ==
  ASSUME TypeOK, SessionsOK, EpochsRead, [Next]_vars
  PROVE  EpochsRead'
  <1> USE DEF TypeOK, EpochsRead, Inserting, Marking, StaleEpochs
  <1>1. ASSUME NEW c \in Connectors, NEW l \in Labels, ReadEpoch(c, l)
        PROVE  EpochsRead'
    BY <1>1, SpanAssumption DEF ReadEpoch
  <1>2. ASSUME NEW c \in Connectors, FetchLive(c)
        PROVE  EpochsRead'
    BY <1>2, SpanAssumption DEF FetchLive
  <1>3. ASSUME NEW c \in Connectors, FetchMarked(c)
        PROVE  EpochsRead'
    BY <1>3, SpanAssumption DEF FetchMarked
  <1>4. ASSUME NEW c \in Connectors, Resurrect(c)
        PROVE  EpochsRead'
    BY <1>4, SpanAssumption DEF Resurrect
  <1>5. ASSUME NEW c \in Connectors, FetchNone(c)
        PROVE  EpochsRead'
    BY <1>5, SpanAssumption DEF FetchNone
  <1>6. ASSUME NEW c \in Connectors, CreateInsert(c)
        PROVE  EpochsRead'
    BY <1>6, SpanAssumption DEF CreateInsert
  <1>7. ASSUME NEW c \in Connectors, CreateConflict(c)
        PROVE  EpochsRead'
    BY <1>7, SpanAssumption DEF CreateConflict
  <1>8. ASSUME NEW c \in Connectors, CreateSelect(c)
        PROVE  EpochsRead'
    BY <1>8, SpanAssumption DEF CreateSelect
  <1>9. ASSUME NEW c \in Connectors, NEW t \in Times, InsertData(c, t)
        PROVE  EpochsRead'
    BY <1>9, SpanAssumption DEF InsertData
  <1>10. ASSUME NEW c \in Connectors, EpochCheck(c)
        PROVE  EpochsRead'
    BY <1>10, SpanAssumption DEF EpochCheck, EpochTooOld
  <1>11. ASSUME NEW c \in Connectors, EpochAbort(c)
        PROVE  EpochsRead'
    BY <1>11, SpanAssumption DEF EpochAbort, ConnReset
  <1>12. ASSUME NEW c \in Connectors, CommitInsert(c)
        PROVE  EpochsRead'
    BY <1>12, SpanAssumption DEF CommitInsert
  <1>13. ASSUME NEW c \in Connectors, Disconnect(c)
        PROVE  EpochsRead'
    BY <1>13, SpanAssumption DEF Disconnect, ConnReset
  <1>14. ASSUME NEW w \in Workers, NEW m \in Tables, NEW older \in CutOffs,
              JobStarts(w, m, older)
        PROVE  EpochsRead'
    BY <1>14, SpanAssumption DEF JobStarts
  <1>15. ASSUME NEW w \in Workers, ReadOlderThan(w)
        PROVE  EpochsRead'
    BY <1>15, SpanAssumption DEF ReadOlderThan
  <1>16. ASSUME NEW w \in Workers, MarkSnapshot(w)
        PROVE  EpochsRead'
    BY <1>16, SpanAssumption DEF MarkSnapshot
  <1>17. ASSUME NEW w \in Workers, MarkCommit(w)
        PROVE  EpochsRead'
    BY <1>17, SpanAssumption DEF MarkCommit
  <1>18. ASSUME NEW w \in Workers, DropData(w)
        PROVE  EpochsRead'
    BY <1>18, SpanAssumption DEF DropData
  <1>19. ASSUME NEW w \in Workers, DeleteSnapshot(w)
        PROVE  EpochsRead'
    BY <1>19, SpanAssumption DEF DeleteSnapshot
  <1>20. ASSUME NEW w \in Workers, NEW due \in BOOLEAN, DeleteCommit(w, due)
        PROVE  EpochsRead'
    <2>1. /\ current_epoch' \in EpochsUsed /\ current_epoch <= current_epoch'
          /\ \A c \in Connectors : Inserting(c) => current_epoch' <= since[c] + Span
          /\ \A x \in Workers : Marking(x) => current_epoch' <= began[x] + Span
      BY <1>20 DEF DeleteCommit, AdvanceEpoch, TxnsAreShort, EpochIsBehind
    <2>2. UNCHANGED connVars
      BY <1>20 DEF DeleteCommit
    <2>3. \A x \in Workers : Marking(x)' => Marking(x) /\ began'[x] = began[x]
      BY <1>20 DEF DeleteCommit, JobReset
    <2>4. \A x \in Workers : present'[x] = 0 \/ present'[x] = present[x]
      BY <1>20 DEF DeleteCommit, JobReset
    <2>5. \A c \in Connectors :
            /\ epoch'[c] <= current_epoch'
            /\ Inserting(c)' => /\ since'[c] <= current_epoch'
                                /\ current_epoch' <= since'[c] + Span
            /\ conn'[c] = "checked" => since'[c] <= epoch'[c] + StaleEpochs
      BY <2>1, <2>2
    <2>6. \A x \in Workers :
            /\ present'[x] <= current_epoch'
            /\ Marking(x)' => /\ began'[x] <= current_epoch'
                              /\ current_epoch' <= began'[x] + Span
      <3> SUFFICES ASSUME NEW x \in Workers
                   PROVE  /\ present'[x] <= current_epoch'
                          /\ Marking(x)' => /\ began'[x] <= current_epoch'
                                            /\ current_epoch' <= began'[x] + Span
        OBVIOUS
      <3>1. present[x] \in 0..MaxEpoch /\ present[x] <= current_epoch
        OBVIOUS
      <3>2. present'[x] <= current_epoch'
        <4>1. /\ current_epoch \in 0..MaxEpoch /\ current_epoch' \in 0..MaxEpoch
              /\ current_epoch <= current_epoch'
          BY <2>1
        <4>2. present'[x] = 0 \/ present'[x] = present[x]
          BY <2>4
        <4> HIDE DEF TypeOK, EpochsRead
        <4> QED
          BY <3>1, <4>1, <4>2
      <3>3. Marking(x) => began[x] \in 0..MaxEpoch /\ began[x] <= current_epoch
        OBVIOUS
      <3> QED
        BY <2>1, <2>3, <3>2, <3>3
    <2> QED
      BY <2>5, <2>6
  <1>21. ASSUME NEW w \in Workers, NEW series_ids \in SUBSET rows,
              DeleteSeriesData(w, series_ids)
        PROVE  EpochsRead'
    BY <1>21, SpanAssumption DEF DeleteSeriesData
  <1>22. ASSUME NEW w \in Workers, DeleteSeriesSnapshot(w)
        PROVE  EpochsRead'
    BY <1>22, SpanAssumption DEF DeleteSeriesSnapshot
  <1>23. ASSUME NEW w \in Workers, DeleteSeriesCommit(w)
        PROVE  EpochsRead'
    BY <1>23, SpanAssumption DEF DeleteSeriesCommit, JobReset
  <1>24. ASSUME NEW w \in Workers, JobCrash(w)
        PROVE  EpochsRead'
    BY <1>24, SpanAssumption DEF JobCrash, JobReset
  <1>25. ASSUME AdvanceByOtherMetric
        PROVE  EpochsRead'
    BY <1>25, SpanAssumption DEF AdvanceByOtherMetric, AdvanceEpoch,
       TxnsAreShort
  <1>26. CASE UNCHANGED <<conn, epoch, since, current_epoch, present, job, began>>
    BY <1>26 DEF EpochsRead
  <1> HIDE DEF TypeOK, EpochsRead, Inserting, Marking, StaleEpochs
  <1> QED
    BY <1>1, <1>2, <1>3, <1>4, <1>5, <1>6, <1>7, <1>8, <1>9, <1>10, <1>11,
       <1>12, <1>13, <1>14, <1>15, <1>16, <1>17, <1>18, <1>19, <1>20, <1>21,
       <1>22, <1>23, <1>24, <1>25, <1>26, NextCases
       DEF Refresh, vars

\* Between reading the epoch with its id and committing, a connector that passed
\* the check sees the epoch advance by at most 1 + Span.
LEMMA CheckedEpoch ==
  ASSUME TypeOK, EpochsRead, NEW c \in Connectors, conn[c] = "checked"
  PROVE  current_epoch <= epoch[c] + 1 + Span
  <1>1. current_epoch <= since[c] + Span /\ since[c] <= epoch[c] + 1
    BY DEF EpochsRead, Inserting, StaleEpochs
  <1>2. since[c] \in Nat /\ epoch[c] \in Nat /\ current_epoch \in Nat
    BY DEF TypeOK
  <1> QED
    BY <1>1, <1>2, SpanAssumption

\* So it cannot commit under a deleted series,
LEMMA CheckedHasSeries ==
  ASSUME TypeOK, EpochsRead, CachedIdsAreFresh, NEW c \in Connectors,
         conn[c] = "checked"
  PROVE  sid[c] \in rows \cup ghost
  <1>1. current_epoch <= epoch[c] + 1 + Span
    BY CheckedEpoch
  <1>2. \/ sid[c] \in rows \cup ghost
        \/ epoch[c] + DeletionDelay < current_epoch + Span
    BY DEF CachedIdsAreFresh, Inserting
  <1>3. epoch[c] \in Nat /\ current_epoch \in Nat
    BY DEF TypeOK
  <1> QED
    BY <1>1, <1>2, <1>3, SpanAssumption DEF DeletionDelay

\* nor under one that some job finds expired.
LEMMA CheckedNotExpired ==
  ASSUME TypeOK, EpochsRead, IdsAreFresh, CachedIdsAreFresh,
         NEW c \in Connectors, conn[c] = "checked", NEW w \in Workers
  PROVE  sid[c] \notin Expired(present[w])
  <1> SUFFICES ASSUME sid[c] \in Expired(present[w])
               PROVE  FALSE
    OBVIOUS
  <1>1. /\ sid[c] \in rows
        /\ delete_epoch[sid[c]] # NULL
        /\ delete_epoch[sid[c]] <= present[w] - DeletionDelay
    BY DEF Expired
  <1>2. MarkedSince(sid[c], epoch[c])
    BY <1>1 DEF CachedIdsAreFresh, Inserting, IdsAreFresh
  <1>3. epoch[c] < delete_epoch[sid[c]] + Span
    BY <1>1, <1>2 DEF MarkedSince
  <1>4. current_epoch <= epoch[c] + 1 + Span
    BY CheckedEpoch
  <1>5. /\ epoch[c] \in Nat /\ current_epoch \in Nat /\ present[w] \in Nat
        /\ delete_epoch[sid[c]] \in Nat
    BY <1>1 DEF TypeOK
  <1>6. present[w] <= current_epoch
    BY DEF EpochsRead
  <1> QED
    BY <1>1, <1>3, <1>4, <1>5, <1>6, SpanAssumption DEF DeletionDelay

\* A marking statement writes a mark that every epoch read so far is close to.
LEMMA MarkIsRecent ==
  ASSUME TypeOK, EpochsRead, NEW w \in Workers, Marking(w),
         NEW id \in Ids, NEW e \in Nat, e <= current_epoch, MarkedSince(id, e),
         delete_epoch' = Mark(ids[w], began[w])
  PROVE  delete_epoch'[id] = NULL \/ e < delete_epoch'[id] + Span
  <1>1. delete_epoch'[id] = began[w] + 1 \/ delete_epoch'[id] = delete_epoch[id]
    BY DEF Mark
  <1>2. current_epoch <= began[w] + Span /\ began[w] \in Nat /\ current_epoch \in Nat
    BY DEF EpochsRead, TypeOK
  <1>3. CASE delete_epoch'[id] = began[w] + 1
    BY <1>2, <1>3, SpanAssumption
  <1>4. CASE delete_epoch'[id] = delete_epoch[id]
    BY <1>4 DEF MarkedSince
  <1> QED
    BY <1>1, <1>3, <1>4

\* No mark written now is one that a job already counts as expired.
LEMMA MarkNotExpired ==
  ASSUME TypeOK, EpochsRead, NEW w \in Workers, Marking(w), NEW v \in Workers,
         delete_epoch' = Mark(ids[w], began[w]), rows' = rows,
         present'[v] = present[v]
  PROVE  Expired(present[v])' \subseteq Expired(present[v])
  <1> SUFFICES ASSUME NEW id \in rows, delete_epoch'[id] # NULL,
                      delete_epoch'[id] <= present[v] - DeletionDelay
               PROVE  delete_epoch[id] = delete_epoch'[id]
    BY DEF Expired
  <1>1. delete_epoch'[id] = began[w] + 1 \/ delete_epoch'[id] = delete_epoch[id]
    BY DEF Mark, TypeOK
  <1>2. /\ current_epoch <= began[w] + Span /\ present[v] <= current_epoch
        /\ began[w] \in Nat /\ current_epoch \in Nat /\ present[v] \in Nat
    BY DEF EpochsRead, TypeOK
  <1> QED
    BY <1>1, <1>2, SpanAssumption DEF DeletionDelay

\* What a deletion removes has been marked for DeletionDelay epochs.
LEMMA DeletedIsExpired ==
  ASSUME TypeOK, EpochsRead, NEW w \in Workers, NEW due \in BOOLEAN,
         DeleteCommit(w, due), NEW id \in rows \ rows'
  PROVE  /\ delete_epoch[id] \in Nat
         /\ delete_epoch[id] + DeletionDelay <= current_epoch
         /\ id \in dead[w]
         /\ id \in Expired(present[w])
  <1>1. id \in dead[w] /\ id \in Expired(present[w])
    BY DEF DeleteCommit, StillExpired
  <1>2. delete_epoch[id] # NULL /\ delete_epoch[id] <= present[w] - DeletionDelay
    BY <1>1 DEF Expired
  <1>3. present[w] \in Nat /\ current_epoch \in Nat /\ present[w] <= current_epoch
    BY DEF TypeOK, EpochsRead
  <1>4. delete_epoch[id] \in Nat
    BY <1>2 DEF TypeOK
  <1> QED
    BY <1>1, <1>2, <1>3, <1>4 DEF DeletionDelay

\* A marking statement leaves what the cached ids are good for.
LEMMA MarkCached ==
  ASSUME TypeOK, SessionsOK, EpochsRead, CachedIdsAreFresh, NEW w \in Workers,
         Marking(w), UNCHANGED <<current_epoch, rows, ghost, connVars>>,
         delete_epoch' = Mark(ids[w], began[w])
  PROVE  CachedIdsAreFresh'
  <1> SUFFICES ASSUME NEW c \in Connectors, conn[c] = "cached" \/ Inserting(c),
                      sid[c] \in rows, MarkedSince(sid[c], epoch[c])
               PROVE  MarkedSince(sid[c], epoch[c])'
    BY DEF CachedIdsAreFresh, Inserting, MarkedSince
  <1>1. sid[c] \in Ids /\ epoch[c] \in Nat /\ epoch[c] <= current_epoch
    BY DEF TypeOK, EpochsRead
  <1> QED
    BY <1>1, MarkIsRecent DEF MarkedSince

\* A cached id stays good until the epoch is too far ahead for it.
LEMMA CachedStep ==
  ASSUME TypeOK, SessionsOK, IdsAreFresh, EpochsRead, CachedIdsAreFresh,
         RivalRowsAreFresh, [Next]_vars
  PROVE  CachedIdsAreFresh'
  <1> USE DEF TypeOK, CachedIdsAreFresh, Inserting, MarkedSince
  <1>1. ASSUME NEW c \in Connectors, NEW l \in Labels, ReadEpoch(c, l)
        PROVE  CachedIdsAreFresh'
    BY <1>1 DEF ReadEpoch
  <1>2. ASSUME NEW c \in Connectors, FetchLive(c)
        PROVE  CachedIdsAreFresh'
    <2>1. /\ UNCHANGED <<current_epoch, rows, delete_epoch, ghost, epoch>>
          /\ conn' = [conn EXCEPT ![c] = "cached"]
      BY <1>2 DEF FetchLive
    <2>2. PICK id \in RowsWith(label[c]) : /\ delete_epoch[id] = NULL
                                           /\ sid' = [sid EXCEPT ![c] = id]
      BY <1>2 DEF FetchLive
    <2>3. id \in rows
      BY DEF RowsWith
    <2> QED
      BY <2>1, <2>2, <2>3
  <1>3. ASSUME NEW c \in Connectors, FetchMarked(c)
        PROVE  CachedIdsAreFresh'
    BY <1>3 DEF FetchMarked
  <1>4. ASSUME NEW c \in Connectors, Resurrect(c)
        PROVE  CachedIdsAreFresh'
    <2>1. /\ UNCHANGED <<current_epoch, rows, epoch, sid>>
          /\ conn' = [conn EXCEPT ![c] = "cached"]
      BY <1>4 DEF Resurrect
    <2>2. CASE sid[c] \in rows
      <3>1. ghost' = ghost /\ delete_epoch' = [delete_epoch EXCEPT ![sid[c]] = NULL]
        BY <1>4, <2>2 DEF Resurrect
      <3> QED
        BY <2>1, <2>2, <3>1
    <2>3. CASE sid[c] \notin rows
      <3>1. ghost' = ghost \cup {sid[c]} /\ delete_epoch' = delete_epoch
        BY <1>4, <2>3 DEF Resurrect
      <3> QED
        BY <2>1, <3>1
    <2> QED
      BY <2>2, <2>3
  <1>5. ASSUME NEW c \in Connectors, FetchNone(c)
        PROVE  CachedIdsAreFresh'
    BY <1>5 DEF FetchNone
  <1>6. ASSUME NEW c \in Connectors, CreateInsert(c)
        PROVE  CachedIdsAreFresh'
    <2>1. /\ UNCHANGED <<current_epoch, ghost, epoch, sid>>
          /\ conn' = [conn EXCEPT ![c] = "cached"]
          /\ rows' = rows \cup {sid[c]}
          /\ delete_epoch' = [delete_epoch EXCEPT ![sid[c]] = NULL]
      BY <1>6 DEF CreateInsert
    <2>2. sid[c] \in Ids
      BY <1>6 DEF CreateInsert, SessionsOK, HoldsId
    <2>3. \A d \in Connectors \ {c} :
            conn[d] = "cached" \/ Inserting(d) => sid[d] # sid[c]
      BY <1>6 DEF CreateInsert, IdsAreFresh, HoldsId, Creating
    <2> QED
      BY <2>1, <2>2, <2>3
  <1>7. ASSUME NEW c \in Connectors, CreateConflict(c)
        PROVE  CachedIdsAreFresh'
    BY <1>7 DEF CreateConflict
  <1>8. ASSUME NEW c \in Connectors, CreateSelect(c)
        PROVE  CachedIdsAreFresh'
    <2>1. UNCHANGED <<current_epoch, rows, delete_epoch, ghost, epoch>>
      BY <1>8 DEF CreateSelect
    <2>2. ASSUME conn[c] = "reselect", conn' = [conn EXCEPT ![c] = "cached"],
                 NEW id \in RowsWith(label[c]), sid' = [sid EXCEPT ![c] = id]
          PROVE  CachedIdsAreFresh'
      <3>1. id \in rows /\ MarkedSince(id, epoch[c])
        BY <2>2 DEF RowsWith, RivalRowsAreFresh, Creating
      <3> QED
        BY <2>1, <2>2, <3>1
    <2>3. ASSUME conn' = [conn EXCEPT ![c] = "create"], UNCHANGED sid
          PROVE  CachedIdsAreFresh'
      BY <2>1, <2>3
    <2> QED
      BY <1>8, <2>2, <2>3 DEF CreateSelect
  <1>9. ASSUME NEW c \in Connectors, NEW t \in Times, InsertData(c, t)
        PROVE  CachedIdsAreFresh'
    BY <1>9 DEF InsertData
  <1>10. ASSUME NEW c \in Connectors, EpochCheck(c)
        PROVE  CachedIdsAreFresh'
    BY <1>10 DEF EpochCheck
  <1>11. ASSUME NEW c \in Connectors, EpochAbort(c)
        PROVE  CachedIdsAreFresh'
    BY <1>11 DEF EpochAbort, ConnReset
  <1>12. ASSUME NEW c \in Connectors, CommitInsert(c)
        PROVE  CachedIdsAreFresh'
    BY <1>12 DEF CommitInsert
  <1>13. ASSUME NEW c \in Connectors, Disconnect(c)
        PROVE  CachedIdsAreFresh'
    BY <1>13 DEF Disconnect, ConnReset
  <1>14. ASSUME NEW w \in Workers, MarkCommit(w)
        PROVE  CachedIdsAreFresh'
    <2>1. /\ UNCHANGED <<current_epoch, rows, ghost, connVars>>
          /\ delete_epoch' = Mark(ids[w], began[w])
          /\ Marking(w)
      BY <1>14 DEF MarkCommit, Marking
    <2> QED
      BY <2>1, MarkCached
  <1>15. ASSUME NEW w \in Workers, NEW due \in BOOLEAN, DeleteCommit(w, due)
        PROVE  CachedIdsAreFresh'
    <2>1. UNCHANGED <<ghost, connVars>> /\ rows' \subseteq rows
      BY <1>15 DEF DeleteCommit
    <2>2. current_epoch' \in EpochsUsed /\ current_epoch <= current_epoch'
      BY <1>15 DEF DeleteCommit, AdvanceEpoch, EpochIsBehind
    <2>3. \A id \in Ids : \/ delete_epoch'[id] = NULL
                          \/ delete_epoch'[id] = delete_epoch[id]
      BY <1>15 DEF DeleteCommit
    <2>4. \A id \in rows \ rows' : /\ delete_epoch[id] \in Nat
                                   /\ delete_epoch[id] + DeletionDelay <= current_epoch
      <3> TAKE id \in rows \ rows'
      <3> HIDE DEF TypeOK, CachedIdsAreFresh
      <3> QED
        BY <1>15, DeletedIsExpired
    <2>5. SUFFICES ASSUME NEW c \in Connectors, conn[c] = "cached" \/ Inserting(c)
                   PROVE  \/ sid[c] \in ghost
                          \/ sid[c] \in rows' /\ MarkedSince(sid[c], epoch[c])'
                          \/ /\ sid[c] \notin rows'
                             /\ epoch[c] + DeletionDelay < current_epoch' + Span
      BY <2>1
    <2>6. epoch[c] \in Nat /\ current_epoch \in Nat /\ sid[c] \in Ids
      <3>1. HoldsId(c)
        BY <2>5 DEF HoldsId
      <3>2. sid[c] \in Ids
        BY <3>1 DEF SessionsOK
      <3> QED
        BY <3>2
    <2>7. CASE sid[c] \in rows' /\ MarkedSince(sid[c], epoch[c])
      BY <2>1, <2>3, <2>6, <2>7
    <2>8. CASE sid[c] \in rows \ rows' /\ MarkedSince(sid[c], epoch[c])
      <3>1. epoch[c] < delete_epoch[sid[c]] + Span
        BY <2>4, <2>8, NullAssumption
      <3>2. /\ delete_epoch[sid[c]] \in Nat
            /\ delete_epoch[sid[c]] + DeletionDelay <= current_epoch
        BY <2>4, <2>8
      <3>3. epoch[c] + DeletionDelay < current_epoch' + Span
        BY SMTT(60), <2>2, <2>6, <3>1, <3>2, SpanAssumption DEF DeletionDelay
      <3> QED
        BY <2>8, <3>3
    <2>9. CASE sid[c] \notin rows /\ epoch[c] + DeletionDelay < current_epoch + Span
      BY SMTT(30), <2>1, <2>2, <2>6, <2>9, SpanAssumption DEF DeletionDelay
    <2> QED
      BY <2>1, <2>5, <2>7, <2>8, <2>9
  <1>16. ASSUME NEW w \in Workers, DeleteSeriesCommit(w)
        PROVE  CachedIdsAreFresh'
    <2>1. /\ UNCHANGED <<current_epoch, rows, ghost, connVars>>
          /\ delete_epoch' = Mark(ids[w], began[w])
          /\ Marking(w)
      BY <1>16 DEF DeleteSeriesCommit, Marking
    <2> QED
      BY <2>1, MarkCached
  <1>17. ASSUME AdvanceByOtherMetric
        PROVE  CachedIdsAreFresh'
    <2>1. UNCHANGED <<ghost, rows, delete_epoch, connVars>>
      BY <1>17 DEF AdvanceByOtherMetric
    <2>2. current_epoch' \in EpochsUsed /\ current_epoch <= current_epoch'
      BY <1>17 DEF AdvanceByOtherMetric, AdvanceEpoch, EpochIsBehind
    <2>3. \A c \in Connectors : /\ epoch[c] + DeletionDelay < current_epoch + Span
                                => epoch[c] + DeletionDelay < current_epoch' + Span
      BY <2>2, SpanAssumption DEF DeletionDelay
    <2> QED
      BY <2>1, <2>3
  <1>18. CASE UNCHANGED <<current_epoch, rows, delete_epoch, ghost, connVars>>
    BY <1>18 DEF CachedIdsAreFresh
  <1> HIDE DEF TypeOK, CachedIdsAreFresh, Inserting, MarkedSince
  <1> QED
    BY <1>1, <1>2, <1>3, <1>4, <1>5, <1>6, <1>7, <1>8, <1>9, <1>10, <1>11,
       <1>12, <1>13, <1>14, <1>15, <1>16, <1>17, <1>18, NextCases
       DEF JobStarts, ReadOlderThan, MarkSnapshot, DropData, DeleteSnapshot,
           DeleteSeriesData, DeleteSeriesSnapshot, JobCrash, Refresh, vars

\* Likewise for the rows that a create_series under way may run into.
LEMMA MarkRival ==
  ASSUME TypeOK, EpochsRead, RivalRowsAreFresh, NEW w \in Workers, Marking(w),
         UNCHANGED <<rows, labels, connVars>>,
         delete_epoch' = Mark(ids[w], began[w])
  PROVE  RivalRowsAreFresh'
  <1> SUFFICES ASSUME NEW c \in Connectors, Creating(c),
                      NEW id \in RowsWith(label[c])
               PROVE  MarkedSince(id, epoch[c])'
    BY DEF RivalRowsAreFresh, Creating, RowsWith, MarkedSince
  <1>1. id \in Ids /\ epoch[c] \in Nat /\ epoch[c] <= current_epoch
    BY DEF TypeOK, EpochsRead, RowsWith
  <1>2. MarkedSince(id, epoch[c])
    BY DEF RivalRowsAreFresh
  <1> QED
    BY <1>1, <1>2, MarkIsRecent DEF MarkedSince

\* A row that appears while a connector creates its own is unmarked or
\* marked since.
LEMMA RivalStep ==
  ASSUME TypeOK, SessionsOK, EpochsRead, RivalRowsAreFresh, [Next]_vars
  PROVE  RivalRowsAreFresh'
  <1> USE DEF TypeOK
  <1>1. ASSUME NEW c \in Connectors, NEW l \in Labels, ReadEpoch(c, l)
        PROVE  RivalRowsAreFresh'
    BY <1>1 DEF ReadEpoch, RivalRowsAreFresh, RowsWith, MarkedSince, Creating
  <1>2. ASSUME NEW c \in Connectors, FetchLive(c)
        PROVE  RivalRowsAreFresh'
    BY <1>2 DEF FetchLive, RivalRowsAreFresh, RowsWith, MarkedSince, Creating
  <1>3. ASSUME NEW c \in Connectors, FetchMarked(c)
        PROVE  RivalRowsAreFresh'
    BY <1>3 DEF FetchMarked, RivalRowsAreFresh, RowsWith, MarkedSince, Creating
  <1>4. ASSUME NEW c \in Connectors, Resurrect(c)
        PROVE  RivalRowsAreFresh'
    <2>1. /\ UNCHANGED <<rows, labels, label, epoch>>
          /\ \A d \in Connectors : Creating(d)' => Creating(d)
          /\ \A id \in Ids : delete_epoch'[id] \in {NULL, delete_epoch[id]}
      BY <1>4 DEF Resurrect, Creating
    <2> QED
      BY <2>1 DEF RivalRowsAreFresh, RowsWith, MarkedSince
  <1>5. ASSUME NEW c \in Connectors, FetchNone(c)
        PROVE  RivalRowsAreFresh'
    <2>1. /\ UNCHANGED <<rows, labels, label, epoch, delete_epoch>>
          /\ \A d \in Connectors \ {c} : Creating(d)' => Creating(d)
          /\ RowsWith(label[c]) = {}
      BY <1>5 DEF FetchNone, Creating
    <2> QED
      BY <2>1 DEF RivalRowsAreFresh, RowsWith, MarkedSince
  <1>6. ASSUME NEW c \in Connectors, CreateInsert(c)
        PROVE  RivalRowsAreFresh'
    <2>1. /\ UNCHANGED <<label, epoch>>
          /\ rows' = rows \cup {sid[c]}
          /\ \A d \in Connectors : Creating(d)' => Creating(d)
      BY <1>6 DEF CreateInsert, Creating
    <2>2. sid[c] \in Ids
      BY <1>6 DEF CreateInsert, SessionsOK, HoldsId
    <2>3. delete_epoch'[sid[c]] = NULL
      BY <1>6, <2>2 DEF CreateInsert
    <2>4. \A id \in rows \ {sid[c]} : /\ labels'[id] = labels[id]
                                      /\ delete_epoch'[id] = delete_epoch[id]
      BY <1>6, <2>2 DEF CreateInsert
    <2> QED
      BY <2>1, <2>3, <2>4 DEF RivalRowsAreFresh, RowsWith, MarkedSince
  <1>7. ASSUME NEW c \in Connectors, CreateConflict(c)
        PROVE  RivalRowsAreFresh'
    <2>1. /\ UNCHANGED <<rows, labels, label, epoch, delete_epoch>>
          /\ \A d \in Connectors : Creating(d)' => Creating(d)
      BY <1>7 DEF CreateConflict, Creating
    <2> QED
      BY <2>1 DEF RivalRowsAreFresh, RowsWith, MarkedSince
  <1>8. ASSUME NEW c \in Connectors, CreateSelect(c)
        PROVE  RivalRowsAreFresh'
    <2>1. /\ UNCHANGED <<rows, labels, label, epoch, delete_epoch>>
          /\ \A d \in Connectors : Creating(d)' => Creating(d)
      BY <1>8 DEF CreateSelect, Creating
    <2> QED
      BY <2>1 DEF RivalRowsAreFresh, RowsWith, MarkedSince
  <1>9. ASSUME NEW c \in Connectors, NEW t \in Times, InsertData(c, t)
        PROVE  RivalRowsAreFresh'
    BY <1>9 DEF InsertData, RivalRowsAreFresh, RowsWith, MarkedSince, Creating
  <1>10. ASSUME NEW c \in Connectors, EpochCheck(c)
        PROVE  RivalRowsAreFresh'
    BY <1>10 DEF EpochCheck, RivalRowsAreFresh, RowsWith, MarkedSince, Creating
  <1>11. ASSUME NEW c \in Connectors, EpochAbort(c)
        PROVE  RivalRowsAreFresh'
    BY <1>11 DEF EpochAbort, ConnReset, RivalRowsAreFresh, RowsWith,
       MarkedSince, Creating
  <1>12. ASSUME NEW c \in Connectors, CommitInsert(c)
        PROVE  RivalRowsAreFresh'
    BY <1>12 DEF CommitInsert, RivalRowsAreFresh, RowsWith, MarkedSince,
       Creating
  <1>13. ASSUME NEW c \in Connectors, Disconnect(c)
        PROVE  RivalRowsAreFresh'
    BY <1>13 DEF Disconnect, ConnReset, RivalRowsAreFresh, RowsWith,
       MarkedSince, Creating
  <1>14. ASSUME NEW w \in Workers, MarkCommit(w)
        PROVE  RivalRowsAreFresh'
    <2>1. /\ UNCHANGED <<rows, labels, connVars>>
          /\ delete_epoch' = Mark(ids[w], began[w])
          /\ Marking(w)
      BY <1>14 DEF MarkCommit, Marking
    <2> QED
      BY <2>1, MarkRival
  <1>15. ASSUME NEW w \in Workers, NEW due \in BOOLEAN, DeleteCommit(w, due)
        PROVE  RivalRowsAreFresh'
    <2>1. /\ UNCHANGED <<labels, connVars>>
          /\ rows' \subseteq rows
          /\ \A id \in Ids : delete_epoch'[id] \in {NULL, delete_epoch[id]}
      BY <1>15 DEF DeleteCommit
    <2> QED
      BY <2>1 DEF RivalRowsAreFresh, RowsWith, MarkedSince, Creating
  <1>16. ASSUME NEW w \in Workers, DeleteSeriesCommit(w)
        PROVE  RivalRowsAreFresh'
    <2>1. /\ UNCHANGED <<rows, labels, connVars>>
          /\ delete_epoch' = Mark(ids[w], began[w])
          /\ Marking(w)
      BY <1>16 DEF DeleteSeriesCommit, Marking
    <2> QED
      BY <2>1, MarkRival
  <1>17. CASE UNCHANGED <<rows, labels, delete_epoch, connVars>>
    BY <1>17 DEF RivalRowsAreFresh, RowsWith, MarkedSince, Creating
  <1> HIDE DEF TypeOK
  <1> QED
    BY ZenonT(60), <1>1, <1>2, <1>3, <1>4, <1>5, <1>6, <1>7, <1>8, <1>9,
       <1>10, <1>11,
       <1>12, <1>13, <1>14, <1>15, <1>16, <1>17, NextCases
       DEF JobStarts, ReadOlderThan, MarkSnapshot, DropData, DeleteSnapshot,
           DeleteSeriesData, DeleteSeriesSnapshot, JobCrash, Refresh,
           AdvanceByOtherMetric, vars

\* A series that the raw table's job found without data and that is still
\* expired gets no
\* new data before the job's DELETE.
LEMMA DeadStep ==
  ASSUME TypeOK, SessionsOK, IdsAreFresh, EpochsRead, CachedIdsAreFresh,
         DeadStayDead, [Next]_vars
  PROVE  DeadStayDead'
  <1> USE DEF TypeOK
  <1>1. ASSUME NEW c \in Connectors, Resurrect(c)
        PROVE  DeadStayDead'
    <2>1. /\ UNCHANGED <<rows, data, jobVars>>
          /\ \A id \in Ids : delete_epoch'[id] \in {NULL, delete_epoch[id]}
      BY <1>1 DEF Resurrect
    <2> QED
      BY <2>1 DEF DeadStayDead, Expired, HasData
  <1>2. ASSUME NEW c \in Connectors, CreateInsert(c)
        PROVE  DeadStayDead'
    <2>1. /\ UNCHANGED <<data, jobVars>>
          /\ rows' = rows \cup {sid[c]}
      BY <1>2 DEF CreateInsert
    <2>2. sid[c] \in Ids
      BY <1>2 DEF CreateInsert, SessionsOK, HoldsId
    <2>3. /\ delete_epoch'[sid[c]] = NULL
          /\ \A id \in rows \ {sid[c]} : delete_epoch'[id] = delete_epoch[id]
      BY <1>2, <2>2 DEF CreateInsert
    <2> QED
      BY <2>1, <2>3 DEF DeadStayDead, Expired, HasData
  <1>3. ASSUME NEW c \in Connectors, CommitInsert(c)
        PROVE  DeadStayDead'
    <2>1. /\ UNCHANGED <<rows, delete_epoch, jobVars>>
          /\ data'[Raw] = data[Raw] \cup {<<sid[c], time[c]>>}
          /\ conn[c] = "checked"
      BY <1>3 DEF CommitInsert, Tables
    <2>2. \A v \in Workers : sid[c] \notin Expired(present[v])
      BY <2>1, CheckedNotExpired
    <2> QED
      BY <2>1, <2>2 DEF DeadStayDead, Expired, HasData
  <1>4. ASSUME NEW w \in Workers, NEW m \in Tables, NEW older \in CutOffs,
              JobStarts(w, m, older)
        PROVE  DeadStayDead'
    <2>1. /\ UNCHANGED <<rows, delete_epoch, data>>
          /\ \A v \in Workers : job'[v] = "deleting" =>
               /\ job[v] = "deleting" /\ table'[v] = table[v]
               /\ dead'[v] = dead[v] /\ present'[v] = present[v]
      BY <1>4 DEF JobStarts
    <2> QED
      BY <2>1 DEF DeadStayDead, Expired, HasData
  <1>5. ASSUME NEW w \in Workers, ReadOlderThan(w)
        PROVE  DeadStayDead'
    <2>1. /\ UNCHANGED <<rows, delete_epoch, data>>
          /\ \A v \in Workers : job'[v] = "deleting" =>
               /\ job[v] = "deleting" /\ table'[v] = table[v]
               /\ dead'[v] = dead[v] /\ present'[v] = present[v]
      BY <1>5 DEF ReadOlderThan
    <2> QED
      BY <2>1 DEF DeadStayDead, Expired, HasData
  <1>6. ASSUME NEW w \in Workers, MarkSnapshot(w)
        PROVE  DeadStayDead'
    <2>1. /\ UNCHANGED <<rows, delete_epoch, data>>
          /\ \A v \in Workers : job'[v] = "deleting" =>
               /\ job[v] = "deleting" /\ table'[v] = table[v]
               /\ dead'[v] = dead[v] /\ present'[v] = present[v]
      BY <1>6 DEF MarkSnapshot
    <2> QED
      BY <2>1 DEF DeadStayDead, Expired, HasData
  <1>7. ASSUME NEW w \in Workers, MarkCommit(w)
        PROVE  DeadStayDead'
    <2>1. /\ UNCHANGED <<rows, data, present, dead, table>>
          /\ delete_epoch' = Mark(ids[w], began[w])
          /\ Marking(w)
          /\ \A v \in Workers : job'[v] = "deleting" => job[v] = "deleting"
      BY <1>7 DEF MarkCommit, Marking
    <2>2. \A v \in Workers : Expired(present[v])' \subseteq Expired(present[v])
      BY <2>1, MarkNotExpired
    <2> QED
      BY <2>1, <2>2 DEF DeadStayDead, HasData
  <1>8. ASSUME NEW w \in Workers, DropData(w)
        PROVE  DeadStayDead'
    <2>1. /\ UNCHANGED <<rows, delete_epoch>>
          /\ data'[Raw] \subseteq data[Raw]
      BY <1>8 DEF DropData, Tables
    <2>2. \A v \in Workers : job'[v] = "deleting" =>
            /\ job[v] = "deleting" /\ table'[v] = table[v]
            /\ dead'[v] = dead[v] /\ present'[v] = present[v]
      BY <1>8 DEF DropData
    <2> QED
      BY <2>1, <2>2 DEF DeadStayDead, Expired, HasData
  <1>9. ASSUME NEW w \in Workers, DeleteSnapshot(w)
        PROVE  DeadStayDead'
    <2>1. UNCHANGED <<rows, delete_epoch, data, table, present>>
      BY <1>9 DEF DeleteSnapshot
    <2>2. dead'[w] = Dead(table[w], Expired(present[w]))
      BY <1>9 DEF DeleteSnapshot
    <2>3. \A v \in Workers \ {w} : job'[v] = job[v] /\ dead'[v] = dead[v]
      BY <1>9 DEF DeleteSnapshot
    <2> QED
      BY <2>1, <2>2, <2>3 DEF DeadStayDead, Expired, HasData, Dead
  <1>10. ASSUME NEW w \in Workers, NEW due \in BOOLEAN, DeleteCommit(w, due)
        PROVE  DeadStayDead'
    <2>1. UNCHANGED data /\ rows' \subseteq rows
      BY <1>10 DEF DeleteCommit
    <2>2. \A id \in Ids : delete_epoch'[id] \in {NULL, delete_epoch[id]}
      BY <1>10 DEF DeleteCommit
    <2>3. \A v \in Workers : job'[v] = "deleting" =>
            /\ job[v] = "deleting" /\ table'[v] = table[v]
            /\ dead'[v] = dead[v] /\ present'[v] = present[v]
      BY <1>10 DEF DeleteCommit, JobReset
    <2> QED
      BY <2>1, <2>2, <2>3 DEF DeadStayDead, Expired, HasData
  <1>11. ASSUME NEW w \in Workers, NEW series_ids \in SUBSET rows,
              DeleteSeriesData(w, series_ids)
        PROVE  DeadStayDead'
    <2>1. /\ UNCHANGED <<rows, delete_epoch, data>>
          /\ \A v \in Workers : job'[v] = "deleting" =>
               /\ job[v] = "deleting" /\ table'[v] = table[v]
               /\ dead'[v] = dead[v] /\ present'[v] = present[v]
      BY <1>11 DEF DeleteSeriesData
    <2> QED
      BY <2>1 DEF DeadStayDead, Expired, HasData
  <1>12. ASSUME NEW w \in Workers, DeleteSeriesSnapshot(w)
        PROVE  DeadStayDead'
    <2>1. /\ UNCHANGED <<rows, delete_epoch, data>>
          /\ \A v \in Workers : job'[v] = "deleting" =>
               /\ job[v] = "deleting" /\ table'[v] = table[v]
               /\ dead'[v] = dead[v] /\ present'[v] = present[v]
      BY <1>12 DEF DeleteSeriesSnapshot
    <2> QED
      BY <2>1 DEF DeadStayDead, Expired, HasData
  <1>13. ASSUME NEW w \in Workers, DeleteSeriesCommit(w)
        PROVE  DeadStayDead'
    <2>1. /\ rows' = rows
          /\ delete_epoch' = Mark(ids[w], began[w])
          /\ Marking(w)
          /\ data'[Raw] \subseteq data[Raw]
      BY <1>13 DEF DeleteSeriesCommit, Marking, Tables
    <2>2. \A v \in Workers : job'[v] = "deleting" =>
            /\ job[v] = "deleting" /\ table'[v] = table[v]
            /\ dead'[v] = dead[v] /\ present'[v] = present[v]
      BY <1>13 DEF DeleteSeriesCommit, JobReset
    <2>3. \A v \in Workers : present'[v] = present[v] =>
            Expired(present[v])' \subseteq Expired(present[v])
      BY <2>1, MarkNotExpired
    <2> QED
      BY <2>1, <2>2, <2>3 DEF DeadStayDead, HasData
  <1>14. ASSUME NEW w \in Workers, JobCrash(w)
        PROVE  DeadStayDead'
    <2>1. /\ UNCHANGED <<rows, delete_epoch, data>>
          /\ \A v \in Workers : job'[v] = "deleting" =>
               /\ job[v] = "deleting" /\ table'[v] = table[v]
               /\ dead'[v] = dead[v] /\ present'[v] = present[v]
      BY <1>14 DEF JobCrash, JobReset
    <2> QED
      BY <2>1 DEF DeadStayDead, Expired, HasData
  <1>15. ASSUME NEW v \in Views, Refresh(v)
        PROVE  DeadStayDead'
    <2>1. UNCHANGED <<rows, delete_epoch, jobVars>> /\ data'[Raw] = data[Raw]
      BY <1>15 DEF Refresh, Tables
    <2> QED
      BY <2>1 DEF DeadStayDead, Expired, HasData
  <1>16. CASE UNCHANGED <<rows, delete_epoch, data, jobVars>>
    BY <1>16 DEF DeadStayDead, Expired, HasData
  <1>17. ASSUME NEW c \in Connectors,
                \/ \E l \in Labels : ReadEpoch(c, l)
                \/ FetchLive(c) \/ FetchMarked(c) \/ FetchNone(c)
                \/ CreateConflict(c) \/ CreateSelect(c)
                \/ \E t \in Times : InsertData(c, t)
                \/ EpochCheck(c) \/ EpochAbort(c) \/ Disconnect(c)
         PROVE  DeadStayDead'
    <2>1. UNCHANGED <<rows, delete_epoch, data, jobVars>>
      BY <1>17 DEF ReadEpoch, FetchLive, FetchMarked, FetchNone, CreateConflict,
                   CreateSelect, InsertData, EpochCheck, EpochAbort, Disconnect
    <2> QED
      BY <1>16, <2>1
  <1>18. CASE AdvanceByOtherMetric \/ UNCHANGED vars
    BY <1>16, <1>18 DEF AdvanceByOtherMetric, vars
  <1> HIDE DEF TypeOK
  <1> QED
    BY <1>1, <1>2, <1>3, <1>4, <1>5, <1>6, <1>7, <1>8, <1>9, <1>10, <1>11,
       <1>12, <1>13, <1>14, <1>15, <1>17, <1>18, NextCases

\* No committed row of the raw table loses its series to a deletion by the
\* raw table's job.
LEMMA DataStep ==
  ASSUME TypeOK, SessionsOK, EpochsRead, CachedIdsAreFresh, DeadStayDead,
         RawDataHasSeries, [Next]_vars
  PROVE  RawDataHasSeries'
  <1> USE DEF RawDataHasSeries
  <1>1. ASSUME NEW c \in Connectors, Resurrect(c)
        PROVE  RawDataHasSeries'
    BY <1>1 DEF Resurrect
  <1>2. ASSUME NEW c \in Connectors, CreateInsert(c)
        PROVE  RawDataHasSeries'
    BY <1>2 DEF CreateInsert
  <1>3. ASSUME NEW c \in Connectors, CommitInsert(c)
        PROVE  RawDataHasSeries'
    <2>1. /\ UNCHANGED <<rows, ghost, deletedBy>>
          /\ data'[Raw] = data[Raw] \cup {<<sid[c], time[c]>>}
          /\ conn[c] = "checked"
      BY <1>3 DEF CommitInsert, Tables, TypeOK
    <2>2. sid[c] \in rows \cup ghost
      BY <2>1, CheckedHasSeries
    <2> QED
      BY <2>1, <2>2
  <1>4. ASSUME NEW w \in Workers, DropData(w)
        PROVE  RawDataHasSeries'
    <2>1. UNCHANGED <<rows, ghost, deletedBy>> /\ data'[Raw] \subseteq data[Raw]
      BY <1>4 DEF DropData, Tables, TypeOK
    <2> QED
      BY <2>1
  <1>5. ASSUME NEW w \in Workers, NEW due \in BOOLEAN, DeleteCommit(w, due)
        PROVE  RawDataHasSeries'
    <2>1. UNCHANGED <<data, ghost>>
      BY <1>5 DEF DeleteCommit
    <2>2. \A id \in Ids : \/ id \in rows \ rows' /\ deletedBy'[id] = table[w]
                          \/ /\ id \in rows <=> id \in rows'
                             /\ deletedBy'[id] = deletedBy[id]
      BY <1>5 DEF DeleteCommit, StillExpired, Expired
    <2>3. ASSUME NEW id \in rows \ rows', HasData(Raw, id)
          PROVE  table[w] \in Views
      <3>1. id \in dead[w] \cap Expired(present[w])
        BY <1>5, <2>3, DeletedIsExpired
      <3>2. table[w] # Raw
        BY <1>5, <2>3, <3>1 DEF DeadStayDead, DeleteCommit
      <3>3. table[w] \in Tables
        BY <1>5 DEF SessionsOK, DeleteCommit
      <3> QED
        BY <3>2, <3>3 DEF Tables
    <2>4. \A d \in data[Raw] : d[1] \in Ids /\ HasData(Raw, d[1])
      <3>1. data[Raw] \subseteq Ids \X Times
        BY DEF TypeOK, Tables
      <3> QED
        BY <3>1 DEF HasData
    <2> QED
      BY <2>1, <2>2, <2>3, <2>4
  <1>6. ASSUME NEW w \in Workers, DeleteSeriesCommit(w)
        PROVE  RawDataHasSeries'
    <2>1. UNCHANGED <<rows, ghost, deletedBy>> /\ data'[Raw] \subseteq data[Raw]
      BY <1>6 DEF DeleteSeriesCommit, Tables, TypeOK
    <2> QED
      BY <2>1
  <1>7. ASSUME NEW v \in Views, Refresh(v)
        PROVE  RawDataHasSeries'
    <2>1. UNCHANGED <<rows, ghost, deletedBy>> /\ data'[Raw] = data[Raw]
      BY <1>7 DEF Refresh, Tables, TypeOK
    <2> QED
      BY <2>1
  <1>8. CASE UNCHANGED <<rows, data, history>>
    BY <1>8 DEF RawDataHasSeries
  <1> HIDE DEF RawDataHasSeries
  <1> QED
    BY ZenonT(60), <1>1, <1>2, <1>3, <1>4, <1>5, <1>6, <1>7, <1>8, NextCases
       DEF ReadEpoch, FetchLive, FetchMarked, FetchNone, CreateConflict,
           CreateSelect, InsertData, EpochCheck, EpochAbort, Disconnect,
           JobStarts, ReadOlderThan, MarkSnapshot, MarkCommit,
           DeleteSnapshot, DeleteSeriesData, DeleteSeriesSnapshot, JobCrash,
           AdvanceByOtherMetric, vars

\* IndInv holds initially,
LEMMA InitIndInv == Init => IndInv
  <1> SUFFICES ASSUME Init
               PROVE  IndInv
    OBVIOUS
  <1>1. TypeOK
    BY SpanAssumption DEF Init, TypeOK, Tables
  <1>2. SessionsOK /\ IdsAreFresh /\ IdsMatchLabels /\ UniqueLabels
    BY DEF Init, SessionsOK, IdsAreFresh, IdsMatchLabels, UniqueLabels, HoldsId,
           Creating
  <1>3. EpochsRead
    BY DEF Init, EpochsRead, Inserting, Marking
  <1>4. CachedIdsAreFresh /\ RivalRowsAreFresh /\ DeadStayDead /\ RawDataHasSeries
    BY DEF Init, CachedIdsAreFresh, RivalRowsAreFresh, DeadStayDead,
       RawDataHasSeries,
           Inserting, Creating, Tables
  <1> QED
    BY <1>1, <1>2, <1>3, <1>4 DEF IndInv

\* and every step keeps it.
LEMMA StepIndInv == IndInv /\ [Next]_vars => IndInv'
  BY TypeStep, SessionsStep, FreshStep, LabelsStep, UniqueStep, EpochsStep,
     CachedStep, RivalStep, DeadStep, DataStep DEF IndInv

\* The inductive invariant holds in every reachable state of create_series, the
\* inserts and the retention jobs, for any number of sessions.
THEOREM Invariant == Spec => []IndInv
  BY InitIndInv, StepIndInv, PTL DEF Spec

\* Type correctness of the catalog and of the sessions' variables.
THEOREM TypeCorrect == Spec => []TypeOK
  <1>1. IndInv => TypeOK
    BY DEF IndInv
  <1> QED
    BY <1>1, Invariant, PTL

\* A row that a connector commits keeps its series from delete_expired_series of
\* the same table, whatever connectors and jobs do meanwhile.
THEOREM DataKeepsSeries == Spec => []RawDataHasSeries
  <1>1. IndInv => RawDataHasSeries
    BY DEF IndInv
  <1> QED
    BY <1>1, Invariant, PTL

\* Two inserts that both passed the epoch check for one label set use one id, so
\* a label set's samples do not end up under two series.
THEOREM SeriesNotSplit == Spec => []NoSplitSeries
  <1>1. ASSUME IndInv
        PROVE  NoSplitSeries
    <2> SUFFICES ASSUME NEW c \in Connectors, NEW d \in Connectors,
                        conn[c] = "checked", conn[d] = "checked",
                        label[c] = label[d], {sid[c], sid[d]} \cap ghost = {}
                 PROVE  sid[c] = sid[d]
      BY DEF NoSplitSeries
    <2>1. sid[c] \in rows /\ sid[d] \in rows
      BY <1>1, CheckedHasSeries DEF IndInv
    <2>2. labels[sid[c]] = label[c] /\ labels[sid[d]] = label[d]
      BY <1>1, <2>1 DEF IndInv, IdsMatchLabels, HoldsId
    <2> QED
      BY <1>1, <2>1, <2>2 DEF IndInv, UniqueLabels
  <1> QED
    BY <1>1, Invariant, PTL

\* The only step from "checked" to "cached" is the commit, under a series that
\* exists: the epoch check is enough, for any deletion by any job.
THEOREM AcceptedInserts == Spec => AcceptedInsertHasSeries
  <1>1. ASSUME IndInv, [Next]_vars
        PROVE  [\A c \in Connectors : conn[c] = "checked" /\ conn'[c] = "cached"
                                      => sid[c] \in rows \cup ghost]_vars
    BY <1>1, CheckedHasSeries DEF IndInv
  <1> QED
    BY <1>1, Invariant, PTL DEF Spec, AcceptedInsertHasSeries

\* A row leaves the series table only in delete_expired_series.
LEMMA RowsShrink ==
  ASSUME [Next]_vars, rows \ rows' # {}
  PROVE  \E w \in Workers, due \in BOOLEAN : DeleteCommit(w, due)
  <1>1. ASSUME NEW c \in Connectors, CreateInsert(c)
        PROVE  rows \ rows' = {}
    BY <1>1 DEF CreateInsert
  <1>2. CASE UNCHANGED rows
    BY <1>2
  <1>3. ASSUME NEW c \in Connectors,
               \/ \E l \in Labels : ReadEpoch(c, l)
               \/ FetchLive(c) \/ FetchMarked(c) \/ Resurrect(c) \/ FetchNone(c)
               \/ CreateConflict(c) \/ CreateSelect(c)
               \/ \E t \in Times : InsertData(c, t)
               \/ EpochCheck(c) \/ EpochAbort(c) \/ CommitInsert(c) \/ Disconnect(c)
        PROVE  UNCHANGED rows
    BY <1>3 DEF ReadEpoch, FetchLive, FetchMarked, Resurrect, FetchNone,
                CreateConflict, CreateSelect, InsertData, EpochCheck, EpochAbort,
                CommitInsert, Disconnect
  <1>4. ASSUME NEW w \in Workers,
               \/ \E m \in Tables, older \in CutOffs : JobStarts(w, m, older)
               \/ ReadOlderThan(w) \/ MarkSnapshot(w) \/ MarkCommit(w) \/ DropData(w)
               \/ DeleteSnapshot(w)
               \/ \E series_ids \in SUBSET rows : DeleteSeriesData(w, series_ids)
               \/ DeleteSeriesSnapshot(w) \/ DeleteSeriesCommit(w) \/ JobCrash(w)
        PROVE  UNCHANGED rows
    BY <1>4 DEF JobStarts, ReadOlderThan, MarkSnapshot, MarkCommit, DropData,
                DeleteSnapshot, DeleteSeriesData, DeleteSeriesSnapshot,
                DeleteSeriesCommit, JobCrash
  <1>5. ASSUME \/ \E v \in Views : Refresh(v)
               \/ AdvanceByOtherMetric
               \/ UNCHANGED vars
        PROVE  UNCHANGED rows
    BY <1>5 DEF Refresh, AdvanceByOtherMetric, vars
  <1> QED
    BY <1>1, <1>2, <1>3, <1>4, <1>5, NextCases

\* A series is deleted only after DeletionDelay epochs in the marked state.
THEOREM DeletionWaits == Spec => GracePeriod
  <1>1. ASSUME IndInv, [Next]_vars, NEW id \in rows \ rows'
        PROVE  delete_epoch[id] # NULL /\ delete_epoch[id] + 4 <= current_epoch
    <2>1. PICK w \in Workers, due \in BOOLEAN : DeleteCommit(w, due)
      BY <1>1, RowsShrink
    <2>2. /\ delete_epoch[id] \in Nat
          /\ delete_epoch[id] + DeletionDelay <= current_epoch
      BY <1>1, <2>1, DeletedIsExpired DEF IndInv
    <2> QED
      BY <2>2 DEF DeletionDelay
  <1>2. ASSUME IndInv, [Next]_vars
        PROVE  [\A id \in rows \ rows' : /\ delete_epoch[id] # NULL
                                         /\ delete_epoch[id] + 4 <= current_epoch]_vars
    BY <1>1, <1>2
  <1> QED
    BY <1>2, Invariant, PTL DEF Spec, GracePeriod

\* Without continuous aggregates on the series table, a deleted series has no
\* data left anywhere, not even data committed since the job's recheck.
THEOREM DeletedAreDead ==
  ASSUME Views = {}
  PROVE  Spec => DeletedSeriesAreDead
  <1>1. ASSUME IndInv, [Next]_vars, NEW id \in rows \ rows', NEW m \in Tables
        PROVE  ~HasData(m, id)
    <2>1. PICK w \in Workers, due \in BOOLEAN : DeleteCommit(w, due)
      BY <1>1, RowsShrink
    <2>2. id \in dead[w] \cap Expired(present[w])
      BY <1>1, <2>1, DeletedIsExpired DEF IndInv
    <2>3. m = Raw /\ table[w] = Raw
      BY <1>1, <2>1 DEF IndInv, SessionsOK, DeleteCommit, Tables
    <2> QED
      BY <1>1, <2>1, <2>2, <2>3 DEF IndInv, DeadStayDead, DeleteCommit
  <1>2. ASSUME IndInv, [Next]_vars
        PROVE  [\A id \in rows \ rows', m \in Tables : ~HasData(m, id)]_vars
    BY <1>1, <1>2
  <1> QED
    BY <1>2, Invariant, PTL DEF Spec, DeletedSeriesAreDead

\* Jobs that race to advance the epoch from what they read earlier move it
\* by one.
THEOREM EpochSteps == Spec => EpochStepsByOne
  <1>1. ASSUME IndInv, [Next]_vars
        PROVE  current_epoch' \in {current_epoch, current_epoch + 1}
    <2>1. ASSUME NEW w \in Workers, NEW due \in BOOLEAN, DeleteCommit(w, due)
          PROVE  current_epoch' \in {current_epoch, current_epoch + 1}
      <3>1. /\ present[w] \in Nat /\ current_epoch \in Nat
            /\ present[w] <= current_epoch
        BY <1>1 DEF IndInv, TypeOK, EpochsRead
      <3> QED
        BY <2>1, <3>1 DEF DeleteCommit, AdvanceEpoch, EpochIsBehind
    <2>2. CASE AdvanceByOtherMetric
      BY <2>2 DEF AdvanceByOtherMetric, AdvanceEpoch
    <2>3. ASSUME NEW c \in Connectors,
                 \/ \E l \in Labels : ReadEpoch(c, l)
                 \/ FetchLive(c) \/ FetchMarked(c) \/ Resurrect(c) \/ FetchNone(c)
                 \/ CreateInsert(c) \/ CreateConflict(c) \/ CreateSelect(c)
                 \/ \E t \in Times : InsertData(c, t)
                 \/ EpochCheck(c) \/ EpochAbort(c) \/ CommitInsert(c)
                 \/ Disconnect(c)
          PROVE  UNCHANGED current_epoch
      BY <2>3 DEF ReadEpoch, FetchLive, FetchMarked, Resurrect, FetchNone,
                  CreateInsert, CreateConflict, CreateSelect, InsertData, EpochCheck,
                  EpochAbort, CommitInsert, Disconnect
    <2>4. ASSUME NEW w \in Workers,
                 \/ \E m \in Tables, older \in CutOffs : JobStarts(w, m, older)
                 \/ ReadOlderThan(w) \/ MarkSnapshot(w) \/ MarkCommit(w)
                 \/ DropData(w) \/ DeleteSnapshot(w)
                 \/ \E series_ids \in SUBSET rows : DeleteSeriesData(w, series_ids)
                 \/ DeleteSeriesSnapshot(w) \/ DeleteSeriesCommit(w) \/ JobCrash(w)
          PROVE  UNCHANGED current_epoch
      BY <2>4 DEF JobStarts, ReadOlderThan, MarkSnapshot, MarkCommit, DropData,
                  DeleteSnapshot, DeleteSeriesData, DeleteSeriesSnapshot,
                  DeleteSeriesCommit, JobCrash
    <2>5. ASSUME (\E v \in Views : Refresh(v)) \/ UNCHANGED vars
          PROVE  UNCHANGED current_epoch
      BY <2>5 DEF Refresh, vars
    <2> QED
      BY <1>1, <2>1, <2>2, <2>3, <2>4, <2>5, NextCases
  <1>2. ASSUME IndInv, [Next]_vars
        PROVE  [current_epoch' \in {current_epoch, current_epoch + 1}]_vars
    BY <1>1, <1>2
  <1> QED
    BY <1>2, Invariant, PTL DEF Spec, EpochStepsByOne

\* Only the snapshot of the marking UPDATE takes a job from mark to marking.
LEMMA BeginsMarking ==
  ASSUME TypeOK, [Next]_vars, NEW w \in Workers,
         job[w] = "mark", job'[w] = "marking"
  PROVE  MarkSnapshot(w)
  <1>1. job \in [Workers -> JobStates]
    BY DEF TypeOK
  <1>2. ASSUME NEW x \in Workers, x # w,
               \/ \E m \in Tables, older \in CutOffs : JobStarts(x, m, older)
               \/ ReadOlderThan(x) \/ MarkSnapshot(x) \/ MarkCommit(x) \/ DropData(x)
               \/ DeleteSnapshot(x)
               \/ \E due \in BOOLEAN : DeleteCommit(x, due)
               \/ \E series_ids \in SUBSET rows : DeleteSeriesData(x, series_ids)
               \/ DeleteSeriesSnapshot(x) \/ DeleteSeriesCommit(x) \/ JobCrash(x)
        PROVE  job'[w] = job[w]
    BY <1>1, <1>2 DEF JobStarts, ReadOlderThan, MarkSnapshot, MarkCommit, DropData,
                      DeleteSnapshot, DeleteCommit, DeleteSeriesData,
                      DeleteSeriesSnapshot, DeleteSeriesCommit, JobCrash, JobReset
  <1>3. ASSUME \/ \E m \in Tables, older \in CutOffs : JobStarts(w, m, older)
               \/ ReadOlderThan(w) \/ MarkCommit(w) \/ DropData(w)
               \/ DeleteSnapshot(w)
               \/ \E due \in BOOLEAN : DeleteCommit(w, due)
               \/ \E series_ids \in SUBSET rows : DeleteSeriesData(w, series_ids)
               \/ DeleteSeriesSnapshot(w) \/ DeleteSeriesCommit(w) \/ JobCrash(w)
        PROVE  FALSE
    BY <1>1, <1>3 DEF JobStarts, ReadOlderThan, MarkCommit, DropData,
                      DeleteSnapshot, DeleteCommit, DeleteSeriesData,
                      DeleteSeriesSnapshot, DeleteSeriesCommit, JobCrash, JobReset
  <1>4. ASSUME NEW c \in Connectors,
               \/ \E l \in Labels : ReadEpoch(c, l)
               \/ FetchLive(c) \/ FetchMarked(c) \/ Resurrect(c) \/ FetchNone(c)
               \/ CreateInsert(c) \/ CreateConflict(c) \/ CreateSelect(c)
               \/ \E t \in Times : InsertData(c, t)
               \/ EpochCheck(c) \/ EpochAbort(c) \/ CommitInsert(c) \/ Disconnect(c)
        PROVE  UNCHANGED job
    BY <1>4 DEF ReadEpoch, FetchLive, FetchMarked, Resurrect, FetchNone, CreateInsert,
                CreateConflict, CreateSelect, InsertData, EpochCheck, EpochAbort,
                CommitInsert, Disconnect
  <1>5. ASSUME (\E v \in Views : Refresh(v)) \/ AdvanceByOtherMetric \/ UNCHANGED vars
        PROVE  UNCHANGED job
    BY <1>5 DEF Refresh, AdvanceByOtherMetric, vars
  <1> QED
    BY <1>2, <1>3, <1>4, <1>5, NextCases

\* No series is marked whose rows the drop would leave: neither the hour after
\* drop_point nor any other table of the series table has one.
THEOREM MarkLeavesNone == Spec => MarkLeavesNoData
  <1> DEFINE Dropped == \A w \in Workers : job[w] = "mark" /\ job'[w] = "marking" =>
               \A id \in ids'[w], m \in Tables, t \in Times :
                 <<id, t>> \in data[m] => m = table[w] /\ t < cutoff[w]
  <1>1. ASSUME IndInv, [Next]_vars PROVE Dropped
    <2> SUFFICES ASSUME NEW w \in Workers, job[w] = "mark", job'[w] = "marking",
                        NEW id \in ids'[w], NEW m \in Tables, NEW t \in Times,
                        <<id, t>> \in data[m]
                 PROVE  m = table[w] /\ t < cutoff[w]
      OBVIOUS
    <2>1. TypeOK /\ SessionsOK
      BY <1>1 DEF IndInv
    <2>2. MarkSnapshot(w)
      BY <1>1, <2>1, BeginsMarking
    <2> DEFINE dp == cutoff[w]
               potential == PotentiallyDropped(table[w], dp)
    <2>3. dp \in Int /\ t \in Int
      BY <2>1 DEF SessionsOK
    <2>4. ids'[w] = Unmarked(ConfirmedUnused(table[w], potential, dp + OneHour))
      BY <2>1, <2>2 DEF MarkSnapshot, TypeOK
    <2>5. id \in ConfirmedUnused(table[w], potential, dp + OneHour)
      BY <2>4 DEF Unmarked
    <2>6. id \in potential /\ m = table[w] /\ ~(t >= dp + OneHour)
      BY <2>5 DEF ConfirmedUnused
    <2>7. ~(dp <= t /\ t < dp + OneHour)
      BY <2>6 DEF PotentiallyDropped
    <2> QED
      BY <2>3, <2>6, <2>7 DEF OneHour
  <1>2. ASSUME IndInv, [Next]_vars PROVE [Dropped]_vars
    BY <1>1, <1>2
  <1> QED
    BY <1>2, Invariant, PTL DEF Spec, MarkLeavesNoData

=============================================================================
