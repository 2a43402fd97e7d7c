------------------------- MODULE LabelCatalogProofs -------------------------
(***************************************************************************)
(* Proofs about LabelCatalog for any sessions, metrics, labels and keys.   *)
(***************************************************************************)
EXTENDS LabelCatalog, WellFoundedInduction, TLAPS

USE NullAssumption

(* Types                                                                   *)

LEMMA TypeInit == Init => TypeOK
  BY DEF Init, TypeOK, NoPositions

\* The end of a transaction keeps the types.
LEMMA TypeEnds ==
  ASSUME NEW s \in Sessions, TypeOK, Ends(s)
  PROVE  /\ holder' \in [Metrics -> Sessions \cup {NULL}]
         /\ pc' \in [Sessions -> {"idle", "rows", "check", "lock", "assign", "done"}]
         /\ variant' \in [Sessions -> Variants \cup {NULL}]
         /\ metric' \in [Sessions -> Metrics \cup {NULL}]
         /\ rows' \in [Sessions -> SUBSET Labels]
         /\ fresh' \in [Sessions -> SUBSET Labels]
         /\ nopos' \in [Sessions -> SUBSET Keys]
         /\ wanted' \in [Sessions -> SUBSET Keys]
         /\ max_position' \in [Sessions -> Nat]
         /\ created' \in [Sessions -> SUBSET Labels]
         /\ keyed' \in [Sessions -> SUBSET Keys]
         /\ added' \in [Sessions -> [Keys -> Nat]]
  BY DEF TypeOK, Ends, NoPositions

\* What a busy session sees of positions are numbers.
LEMMA SeenType ==
  ASSUME NEW s \in Sessions, TypeOK, Busy(s) => metric[s] \in Metrics
  PROVE  Busy(s) => \A k \in Keys : PosSeen(s, k) \in Nat
  BY DEF TypeOK, PosSeen, Busy

LEMMA TypeStep ==
  ASSUME NEW s \in Sessions, TypeOK, CallOK(s),
         \/ \E v \in Variants, m \in Metrics, ls \in Requests : Call(s, v, m, ls)
         \/ Step(s)
         \/ Abort(s)
  PROVE  TypeOK'
<1> USE DEF TypeOK, Goes, tables, call, writes
<1>1. CASE \E v \in Variants, m \in Metrics, ls \in Requests : Call(s, v, m, ls)
  <2>1. PICK v \in Variants, m \in Metrics, ls \in Requests : Call(s, v, m, ls)
    BY <1>1
  <2>2. /\ ls \subseteq Labels
        /\ {KeyOf[l] : l \in ls} \subseteq Keys
    BY RequestsAssumption, KeyOfAssumption
  <2> QED BY <2>1, <2>2 DEF Call
<1>2. CASE RowNeedsPosition(s)
  BY <1>2, KeyOfAssumption DEF RowNeedsPosition
<1>3. CASE CreateLabel(s)
  <2>1. PICK l \in rows[s] :
          /\ rows' = [rows EXCEPT ![s] = @ \ {l}]
          /\ created' = created \/ created' = [created EXCEPT ![s] = @ \cup {l}]
    BY <1>3 DEF CreateLabel
  <2>2. rows' \in [Sessions -> SUBSET Labels]
    BY <2>1
  <2>3. created' \in [Sessions -> SUBSET Labels]
    <3>1. created[s] \cup {l} \in SUBSET Labels
      OBVIOUS
    <3>2. CASE created' = [created EXCEPT ![s] = @ \cup {l}]
      BY <3>1, <3>2
    <3> QED BY <2>1, <3>2
  <2> QED BY <1>3, <2>2, <2>3 DEF CreateLabel
<1>4. CASE RowsDone(s)
  BY <1>4 DEF RowsDone
<1>5. CASE Check(s)
  <2>1. pc' \in [Sessions -> {"idle", "rows", "check", "lock", "assign", "done"}]
    BY <1>5 DEF Check
  <2>2. nopos' \in [Sessions -> SUBSET Keys]
    BY <1>5 DEF Check
  <2>3. wanted' \in [Sessions -> SUBSET Keys]
    BY <1>5 DEF Check
  <2> QED BY <1>5, <2>1, <2>2, <2>3 DEF Check
<1>6. CASE Lock(s)
  <2>1. Busy(s) /\ metric[s] \in Metrics
    BY <1>6 DEF Lock, Busy, CallOK
  <2>2. PICK n \in {2} \cup {PosSeen(s, k) + 1 : k \in Keys} :
          max_position' = [max_position EXCEPT ![s] = n]
    BY <1>6 DEF Lock
  <2>3. \A k \in Keys : PosSeen(s, k) \in Nat
    BY <2>1, SeenType
  <2>4. n \in Nat
    BY <2>2, <2>3
  <2> QED BY <1>6, <2>1, <2>2, <2>4 DEF Lock
<1>7. CASE SecondCheck(s)
  BY <1>7 DEF SecondCheck
<1>8. CASE AssignPosition(s)
  <2>1. PICK k \in wanted[s] :
          /\ keyed' = [keyed EXCEPT ![s] = @ \cup ({k} \ label_key)]
          /\ IF k = NameKey
               THEN /\ added' = [added EXCEPT ![s][k] = 1]
                    /\ UNCHANGED max_position
               ELSE /\ added' = [added EXCEPT ![s][k] = max_position[s]]
                    /\ max_position' = [max_position EXCEPT ![s] = @ + 1]
          /\ wanted' = [wanted EXCEPT ![s] = @ \ {k}]
          /\ nopos' = [nopos EXCEPT ![s] = @ \ {k}]
    BY <1>8 DEF AssignPosition
  <2>2. k \in Keys
    OBVIOUS
  <2>3. keyed' \in [Sessions -> SUBSET Keys]
    BY <2>1, <2>2
  <2>4. added' \in [Sessions -> [Keys -> Nat]]
    <3>1. PICK n \in Nat : added' = [added EXCEPT ![s][k] = n]
      BY <2>1
    <3>2. [added[s] EXCEPT ![k] = n] \in [Keys -> Nat]
      BY <2>2
    <3> QED BY <3>1, <3>2
  <2>5. max_position' \in [Sessions -> Nat]
    <3>1. max_position[s] + 1 \in Nat
      OBVIOUS
    <3> QED BY <2>1, <3>1
  <2>6. wanted' \in [Sessions -> SUBSET Keys] /\ nopos' \in [Sessions -> SUBSET Keys]
    BY <2>1
  <2> QED BY <1>8, <2>3, <2>4, <2>5, <2>6 DEF AssignPosition
<1>9. CASE PositionsDone(s)
  BY <1>9 DEF PositionsDone
<1>10. CASE Commit(s)
  <2>1. Busy(s) /\ metric[s] \in Metrics
    BY <1>10 DEF Commit, Busy, CallOK
  <2>2. [k \in Keys |-> PosSeen(s, k)] \in [Keys -> Nat]
    BY <2>1, SeenType
  <2>3. pos' \in [Metrics -> [Keys -> Nat]]
    BY <1>10, <2>2 DEF Commit
  <2>4. label' \subseteq Labels /\ label_key' \subseteq Keys
    BY <1>10 DEF Commit
  <2>5. Ends(s)
    BY <1>10 DEF Commit
  <2> HIDE DEF Goes, tables, call, writes
  <2> QED BY <2>3, <2>4, <2>5, TypeEnds
<1>11. CASE Abort(s)
  BY <1>11, TypeEnds DEF Abort
<1> QED BY <1>1, <1>2, <1>3, <1>4, <1>5, <1>6, <1>7, <1>8, <1>9, <1>10, <1>11 DEF Step

-----------------------------------------------------------------------------
(* A step of one session leaves the others alone                           *)

Kept(t) ==
  /\ pc'[t] = pc[t] /\ variant'[t] = variant[t] /\ metric'[t] = metric[t]
  /\ rows'[t] = rows[t] /\ nopos'[t] = nopos[t] /\ wanted'[t] = wanted[t]
  /\ max_position'[t] = max_position[t]
  /\ created'[t] = created[t] /\ keyed'[t] = keyed[t] /\ added'[t] = added[t]
  /\ \A m \in Metrics : holder'[m] = t <=> holder[m] = t

LEMMA EndsKeeps ==
  ASSUME NEW s \in Sessions, NEW t \in Sessions, t # s, TypeOK, Ends(s)
  PROVE  Kept(t)
  BY DEF Ends, TypeOK, Kept

LEMMA StepKeeps ==
  ASSUME NEW s \in Sessions, NEW t \in Sessions, t # s,
         TypeOK, HolderOK, CallOK(s),
         \/ \E v \in Variants, m \in Metrics, ls \in Requests : Call(s, v, m, ls)
         \/ Step(s)
         \/ Abort(s)
  PROVE  Kept(t)
<1> USE DEF TypeOK, Goes, tables, call, writes, Kept
<1>1. CASE \E v \in Variants, m \in Metrics, ls \in Requests : Call(s, v, m, ls)
  BY <1>1 DEF Call
<1>2. CASE RowNeedsPosition(s)
  BY <1>2 DEF RowNeedsPosition
<1>3. CASE CreateLabel(s)
  BY <1>3 DEF CreateLabel
<1>4. CASE RowsDone(s)
  BY <1>4 DEF RowsDone
<1>5. CASE Check(s)
  BY <1>5 DEF Check
<1>6. CASE Lock(s)
  <2>1. holder' = [holder EXCEPT ![metric[s]] = s] /\ PartitionFree(s)
    BY <1>6 DEF Lock
  <2>2. \A m \in Metrics : holder'[m] = t <=> holder[m] = t
    BY <2>1 DEF PartitionFree
  <2>3. max_position'[t] = max_position[t]
    BY <1>6 DEF Lock
  <2> QED BY <1>6, <2>2, <2>3 DEF Lock
<1>7. CASE SecondCheck(s)
  BY <1>7 DEF SecondCheck
<1>8. CASE AssignPosition(s)
  <2>1. added'[t] = added[t] /\ max_position'[t] = max_position[t]
    BY <1>8 DEF AssignPosition
  <2> QED BY <1>8, <2>1 DEF AssignPosition
<1>9. CASE PositionsDone(s)
  BY <1>9 DEF PositionsDone
<1>10. CASE Commit(s) \/ Abort(s)
  <2> HIDE DEF TypeOK, Kept
  <2> QED BY <1>10, EndsKeeps DEF Commit, Abort
<1> QED BY <1>1, <1>2, <1>3, <1>4, <1>5, <1>6, <1>7, <1>8, <1>9, <1>10 DEF Step

\* What is left alone keeps its part of the invariant, if others commit compact
\* positions and none to the metric whose partition it holds.
LEMMA OthersStayOK ==
  ASSUME NEW t \in Sessions, TypeOK, TypeOK', Kept(t),
         \A m \in Metrics : Directory!Compact(pos'[m]),
         Busy(t) /\ Holds(t) => pos'[metric[t]] = pos[metric[t]],
         CallOK(t), LockOK(t), NewPositionsOK(t), IdsInOrder(t)
  PROVE  CallOK(t)' /\ LockOK(t)' /\ NewPositionsOK(t)' /\ IdsInOrder(t)'
<1> USE DEF Kept
<1>1. CallOK(t)'
  BY DEF CallOK, Busy
<1>2. CASE ~Busy(t)
  <2>1. /\ ~Busy(t)' /\ pc'[t] = "idle" /\ keyed'[t] = {}
        /\ \A k \in Keys : added'[t][k] = 0
    BY <1>2 DEF CallOK, Busy, NoPositions
  <2> QED BY <1>1, <2>1 DEF LockOK, NewPositionsOK, IdsInOrder
<1>3. CASE Busy(t)
  <2>1. Busy(t)' /\ metric[t] \in Metrics
    BY <1>3 DEF Busy, CallOK
  <2>2. Holds(t)' <=> Holds(t)
    BY <2>1 DEF Holds
  <2>3. LockOK(t)'
    BY <2>2 DEF LockOK
  <2>4. IdsInOrder(t)'
    BY <1>3, <2>2 DEF IdsInOrder
  <2>5. ASSUME Holds(t) PROVE NewPositionsOK(t)'
    <3>1. \A k \in Keys : PosSeen(t, k)' = PosSeen(t, k)
      BY <1>3, <2>5 DEF PosSeen
    <3>2. Seen(t)' = Seen(t)
      BY <3>1 DEF Seen
    <3>3. IsNextPosition(t, max_position[t])' <=> IsNextPosition(t, max_position[t])
      BY <3>1 DEF IsNextPosition
    <3>4. Directory!Compact(Seen(t))'
      BY <1>3, <3>2 DEF NewPositionsOK, Directory!Compact
    <3>5. \A k \in Keys : added[t][k] # 0 =>
            /\ pos'[metric[t]][k] = 0
            /\ k # NameKey => \A j \in Keys : pos'[metric[t]][j] < added[t][k]
      BY <1>3, <2>5 DEF NewPositionsOK
    <3> QED BY <1>3, <3>3, <3>4, <3>5 DEF NewPositionsOK
  <2>6. ASSUME ~Holds(t) PROVE NewPositionsOK(t)'
    <3>1. \A k \in Keys : added'[t][k] = 0 /\ PosSeen(t, k)' = pos'[metric[t]][k]
      BY <2>6 DEF LockOK, PosSeen
    <3>2. Seen(t)' = pos'[metric[t]]
      BY <2>1, <3>1 DEF Seen, TypeOK
    <3>3. pc'[t] # "assign"
      BY <2>6 DEF LockOK
    <3>4. Directory!Compact(Seen(t))'
      BY <2>1, <3>2 DEF Directory!Compact
    <3> QED BY <3>1, <3>3, <3>4 DEF NewPositionsOK
  <2> QED BY <1>1, <2>3, <2>4, <2>5, <2>6
<1> QED BY <1>2, <1>3

-----------------------------------------------------------------------------
(* A step keeps the invariant of its own session                           *)

\* The parts of the invariant that steps on labels and rows do not touch.
Placing(s) ==
  /\ HolderOK
  /\ \A m \in Metrics : Directory!Compact(pos[m])
  /\ CallOK(s) /\ LockOK(s) /\ NewPositionsOK(s)

LEMMA QuietStep ==
  ASSUME NEW s \in Sessions, TypeOK, Placing(s),
         UNCHANGED <<pos, holder, variant, metric, max_position, keyed, added>>,
         \A t \in Sessions \ {s} : pc'[t] = pc[t],
         Busy(s), Busy(s)', pc'[s] = "assign" => pc[s] = "assign"
  PROVE  Placing(s)'
<1>1. HolderOK'
  BY DEF Placing, HolderOK, Busy
<1>2. (\A m \in Metrics : Directory!Compact(pos[m]))'
  BY DEF Placing, Directory!Compact
<1>3. CallOK(s)' /\ LockOK(s)'
  BY DEF Placing, CallOK, LockOK, Holds, Busy
<1>4. NewPositionsOK(s)'
  BY DEF Placing, NewPositionsOK, Directory!Compact, Seen, PosSeen, IsNextPosition
<1> QED BY <1>1, <1>2, <1>3, <1>4 DEF Placing

\* The labels to come are after the one of the row at hand.
LEMMA RowOrder ==
  ASSUME NEW s \in Sessions, NEW l \in rows[s], IsNextRow(s, l), variant[s] = "ids"
  PROVE  \A m \in rows[s] \ {l} : l < m
  BY DEF IsNextRow, Before

LEMMA KeyOrder ==
  ASSUME NEW s \in Sessions, TypeOK, NEW k \in wanted[s], IsNextKey(s, k)
  PROVE  \A j \in wanted[s] \ {k} : k < j
  BY SizeAssumption DEF IsNextKey, TypeOK, Keys

LEMMA RowSteps ==
  ASSUME NEW s \in Sessions, TypeOK, Placing(s), IdsInOrder(s),
         \/ RowNeedsPosition(s) \/ CreateLabel(s) \/ RowsDone(s)
         \/ Check(s) \/ SecondCheck(s) \/ PositionsDone(s)
  PROVE  Placing(s)' /\ IdsInOrder(s)'
<1> USE DEF Goes, tables, call, writes, TypeOK
<1> DEFINE Quiet ==
     /\ UNCHANGED <<pos, holder, variant, metric, max_position, keyed, added>>
     /\ \A t \in Sessions \ {s} : pc'[t] = pc[t]
     /\ Busy(s) /\ Busy(s)'
     /\ pc'[s] = "assign" => pc[s] = "assign"
<1>1. CASE RowNeedsPosition(s)
  <2>1. Quiet
    BY <1>1 DEF RowNeedsPosition, Busy
  <2>2. IdsInOrder(s)'
    BY <1>1 DEF RowNeedsPosition, IdsInOrder
  <2> QED BY <2>1, <2>2, QuietStep
<1>2. CASE CreateLabel(s)
  <2>1. Quiet
    BY <1>2 DEF CreateLabel, Busy
  <2>2. ASSUME variant[s] = "ids" PROVE IdsInOrder(s)'
    <3>1. PICK l \in rows[s] :
            /\ IsNextRow(s, l)
            /\ rows' = [rows EXCEPT ![s] = @ \ {l}]
            /\ created' = created \/ created' = [created EXCEPT ![s] = @ \cup {l}]
      BY <1>2 DEF CreateLabel
    <3>2. \A i \in created'[s], j \in rows'[s] : i < j
      <4>1. \A i \in created[s], j \in rows[s] : i < j
        BY <2>1, <2>2 DEF IdsInOrder
      <4>2. \A j \in rows[s] \ {l} : l < j
        BY <2>2, <3>1, RowOrder
      <4>3. rows'[s] = rows[s] \ {l}
        BY <3>1
      <4>4. created'[s] \subseteq created[s] \cup {l}
        BY <3>1
      <4> HIDE DEF TypeOK, Goes, tables, call, writes
      <4> QED BY <4>1, <4>2, <4>3, <4>4
    <3>3. rows[s] # {} /\ pc[s] = "rows" /\ pc' = pc
      BY <1>2, <3>1 DEF CreateLabel
    <3>4. ~Holds(s) /\ ~Holds(s)'
      BY <2>1, <2>2, <3>3 DEF IdsInOrder, Holds
    <3>5. nopos'[s] = nopos[s] /\ wanted'[s] = wanted[s]
      BY <1>2 DEF CreateLabel
    <3> QED BY <2>1, <2>2, <3>2, <3>3, <3>4, <3>5 DEF IdsInOrder
  <2>3. IdsInOrder(s)'
    BY <2>1, <2>2 DEF IdsInOrder
  <2> QED BY <2>1, <2>3, QuietStep
<1>3. CASE RowsDone(s)
  <2>1. Quiet
    BY <1>3 DEF RowsDone, Busy
  <2>2. IdsInOrder(s)'
    BY <1>3, <2>1 DEF RowsDone, IdsInOrder, Holds
  <2> QED BY <2>1, <2>2, QuietStep
<1>4. CASE Check(s)
  <2>1. Quiet
    BY <1>4 DEF Check, Busy
  <2>2. IdsInOrder(s)'
    BY <1>4, <2>1 DEF Check, IdsInOrder, Holds
  <2> QED BY <2>1, <2>2, QuietStep
<1>5. CASE SecondCheck(s)
  <2>1. Quiet
    BY <1>5 DEF SecondCheck, Busy
  <2>2. IdsInOrder(s)'
    BY <1>5, <2>1 DEF SecondCheck, IdsInOrder, Holds
  <2> QED BY <2>1, <2>2, QuietStep
<1>6. CASE PositionsDone(s)
  <2>1. Quiet
    BY <1>6 DEF PositionsDone, Busy
  <2>2. IdsInOrder(s)'
    BY <1>6, <2>1 DEF PositionsDone, IdsInOrder, Holds
  <2> QED BY <2>1, <2>2, QuietStep
<1> QED BY <1>1, <1>2, <1>3, <1>4, <1>5, <1>6

LEMMA CallStep ==
  ASSUME NEW s \in Sessions, TypeOK, Placing(s), IdsInOrder(s),
         NEW v \in Variants, NEW m \in Metrics, NEW ls \in Requests,
         Call(s, v, m, ls)
  PROVE  Placing(s)' /\ IdsInOrder(s)'
<1> USE DEF Goes, tables, call, writes, TypeOK
<1>1. /\ ~Busy(s) /\ Busy(s)' /\ pc'[s] = "rows"
      /\ metric'[s] = m /\ variant'[s] = v
      /\ UNCHANGED <<pos, holder, keyed, added, created>>
  BY DEF Call, Busy
<1>2. /\ created[s] = {} /\ keyed[s] = {} /\ added[s] = NoPositions
      /\ \A n \in Metrics : holder[n] # s
  BY <1>1 DEF Placing, CallOK, HolderOK
<1>3. HolderOK'
  <2>1. \A t \in Sessions \ {s} : pc'[t] = pc[t] /\ metric'[t] = metric[t]
    BY DEF Call
  <2> QED BY <1>1, <1>2, <2>1 DEF Placing, HolderOK, Busy
<1>4. (\A n \in Metrics : Directory!Compact(pos[n]))'
  BY <1>1 DEF Placing, Directory!Compact
<1>5. CallOK(s)' /\ LockOK(s)'
  BY <1>1, <1>2 DEF CallOK, LockOK, NoPositions, Busy
<1>6. NewPositionsOK(s)'
  <2>1. \A k \in Keys : added'[s][k] = 0 /\ PosSeen(s, k)' = pos[m][k]
    BY <1>1, <1>2 DEF NoPositions, PosSeen
  <2>2. Seen(s)' = pos[m]
    BY <2>1 DEF Seen
  <2>3. Directory!Compact(Seen(s))'
    BY <2>2 DEF Placing, Directory!Compact
  <2> QED BY <1>1, <2>1, <2>3 DEF NewPositionsOK
<1>7. IdsInOrder(s)'
  <2>1. v = "ids" => nopos'[s] \subseteq wanted'[s]
    BY DEF Call
  <2>2. ~Holds(s)'
    BY <1>1, <1>2 DEF Holds
  <2> QED BY <1>1, <1>2, <2>1, <2>2 DEF IdsInOrder
<1> QED BY <1>3, <1>4, <1>5, <1>6, <1>7 DEF Placing

LEMMA LockStep ==
  ASSUME NEW s \in Sessions, TypeOK, Placing(s), IdsInOrder(s), Lock(s)
  PROVE  Placing(s)' /\ IdsInOrder(s)'
<1> USE DEF Goes, tables, call, writes, TypeOK
<1>1. /\ Busy(s) /\ Busy(s)' /\ pc[s] = "lock" /\ pc'[s] = "assign"
      /\ metric[s] \in Metrics /\ variant[s] \in Variants
      /\ PartitionFree(s) /\ holder' = [holder EXCEPT ![metric[s]] = s]
      /\ UNCHANGED <<pos, variant, metric, rows, nopos, wanted, created, keyed, added>>
  BY DEF Lock, Busy, Placing, CallOK
<1>2. Holds(s)'
  BY <1>1 DEF Holds
<1>3. HolderOK'
  <2>1. \A t \in Sessions \ {s} : pc'[t] = pc[t]
    BY DEF Lock
  <2> QED BY <1>1, <2>1 DEF Placing, HolderOK, Busy
<1>4. (\A m \in Metrics : Directory!Compact(pos[m]))'
  BY <1>1 DEF Placing, Directory!Compact
<1>5. CallOK(s)' /\ LockOK(s)'
  BY <1>1, <1>2 DEF CallOK, LockOK, Busy
<1>6. NewPositionsOK(s)'
  <2>1. IsNextPosition(s, max_position[s])'
    <3>1. PICK n \in {2} \cup {PosSeen(s, k) + 1 : k \in Keys} :
            IsNextPosition(s, n) /\ max_position' = [max_position EXCEPT ![s] = n]
      BY DEF Lock
    <3>2. max_position'[s] = n
      BY <3>1
    <3> QED BY <1>1, <3>1, <3>2 DEF IsNextPosition, PosSeen
  <2>2. Directory!Compact(Seen(s))'
    BY <1>1 DEF Placing, NewPositionsOK, Directory!Compact, Seen, PosSeen
  <2> QED BY <1>1, <2>1, <2>2 DEF NewPositionsOK, Placing
<1>7. IdsInOrder(s)'
  BY <1>1 DEF IdsInOrder
<1> QED BY <1>3, <1>4, <1>5, <1>6, <1>7 DEF Placing

LEMMA EndStep ==
  ASSUME NEW s \in Sessions, TypeOK, Placing(s), Commit(s) \/ Abort(s)
  PROVE  /\ Placing(s)' /\ IdsInOrder(s)'
         /\ \A t \in Sessions \ {s} :
              metric[t] \in Metrics /\ Holds(t) => pos'[metric[t]] = pos[metric[t]]
<1> USE DEF TypeOK
<1>1. Ends(s) /\ Busy(s) /\ metric[s] \in Metrics
  BY DEF Commit, Abort, Placing, CallOK, Goes, Busy
<1>2. ~Busy(s)'
  BY <1>1 DEF Ends, Busy
<1>3. \A t \in Sessions \ {s} : pc'[t] = pc[t] /\ metric'[t] = metric[t]
  BY <1>1 DEF Ends
<1>4. \A m \in Metrics : holder'[m] # s
                         /\ \A t \in Sessions : holder'[m] = t => holder[m] = t
  BY <1>1 DEF Ends
<1>5. HolderOK'
  <2> SUFFICES ASSUME NEW m \in Metrics, NEW t \in Sessions, holder'[m] = t
               PROVE  pc'[t] # "idle" /\ metric'[t] = m
    BY DEF HolderOK, Busy
  <2>1. t # s /\ holder[m] = t
    BY <1>4
  <2>2. pc[t] # "idle" /\ metric[t] = m
    BY <2>1 DEF Placing, HolderOK, Busy
  <2> QED BY <1>3, <2>1, <2>2
<1>6. \A m \in Metrics :
        pos'[m] = pos[m] \/ (m = metric[s] /\ pos'[m] = Seen(s))
  <2>1. CASE Commit(s)
    <3>1. pos' = [pos EXCEPT ![metric[s]] = Seen(s)]
      BY <2>1 DEF Commit, Seen
    <3> QED BY <1>1, <3>1
  <2>2. CASE Abort(s)
    BY <2>2 DEF Abort, tables
  <2> QED BY <2>1, <2>2
<1>7. (\A m \in Metrics : Directory!Compact(pos[m]))'
  <2>1. Directory!Compact(Seen(s))
    BY <1>1 DEF Placing, NewPositionsOK
  <2> SUFFICES ASSUME NEW m \in Metrics PROVE Directory!Compact(pos[m])'
    OBVIOUS
  <2>2. CASE pos'[m] = pos[m]
    BY <2>2 DEF Placing, Directory!Compact
  <2>3. CASE pos'[m] = Seen(s)
    BY <2>1, <2>3 DEF Directory!Compact
  <2> QED BY <1>6, <2>2, <2>3
<1>8. /\ CallOK(s)' /\ LockOK(s)' /\ NewPositionsOK(s)' /\ IdsInOrder(s)'
  BY <1>1, <1>2 DEF Ends, CallOK, LockOK, NewPositionsOK, IdsInOrder, NoPositions, Busy
<1>9. ASSUME NEW t \in Sessions \ {s}, metric[t] \in Metrics, Holds(t)
      PROVE  pos'[metric[t]] = pos[metric[t]]
  <2>1. CASE metric[t] = metric[s]
    <3>1. \A k \in Keys : added[s][k] = 0
      BY <1>9, <2>1 DEF Placing, LockOK, Holds
    <3>2. \A k \in Keys : PosSeen(s, k) = pos[metric[s]][k]
      BY <3>1 DEF PosSeen
    <3>3. Seen(s) = pos[metric[s]]
      BY <1>1, <3>2 DEF Seen
    <3> QED BY <1>6, <1>9, <2>1, <3>3
  <2> QED BY <1>6, <1>9, <2>1
<1> QED BY <1>5, <1>7, <1>8, <1>9 DEF Placing

\* A position given to a key of a compact directory keeps it compact, and the next
\* one is free.
LEMMA AppendCompact ==
  ASSUME NEW p \in [Keys -> Nat], NEW k \in Keys, NEW n \in Nat,
         Directory!Compact(p), p[k] = 0,
         \/ k = NameKey /\ n = 1
         \/ /\ k # NameKey
            /\ n > 1 /\ \A j \in Keys : p[j] < n
            /\ n > 2 => \E j \in Keys : p[j] = n - 1
  PROVE  Directory!Compact([p EXCEPT ![k] = n])
<1> DEFINE q == [p EXCEPT ![k] = n]
<1>0. q \in [Keys -> Nat] /\ q[k] = n /\ (\A j \in Keys \ {k} : q[j] = p[j])
  OBVIOUS
<1> USE DEF Directory!Compact
<1> HIDE DEF q
<1>1. NameKey \in Keys
  BY SizeAssumption
<1>2. q[NameKey] \in {0, 1}
  BY <1>0, <1>1
<1>3. ASSUME NEW i \in Keys \ {NameKey}, q[i] # 0
      PROVE  /\ q[i] > 1
             /\ q[i] > 2 => \E j \in Keys \ {NameKey} : q[j] = q[i] - 1
             /\ \A j \in Keys : j # i => q[j] # q[i]
  <2>1. CASE i = k
    <3>1. n > 1 /\ \A j \in Keys : p[j] < n
      BY <2>1, <1>3
    <3>2. ASSUME n > 2 PROVE \E j \in Keys \ {NameKey} : q[j] = n - 1
      <4>1. PICK j \in Keys : p[j] = n - 1
        BY <2>1, <1>3, <3>2
      <4>2. j # k /\ j # NameKey
        BY <4>1, <3>2, <1>1
      <4> QED BY <4>1, <4>2, <1>0
    <3> QED BY <1>0, <2>1, <3>1, <3>2
  <2>2. CASE i # k
    <3>1. q[i] = p[i]
      BY <2>2, <1>0
    <3>2. ASSUME p[i] > 2 PROVE \E j \in Keys \ {NameKey} : q[j] = p[i] - 1
      <4>1. PICK j \in Keys \ {NameKey} : p[j] = p[i] - 1
        BY <3>1, <1>3, <3>2
      <4>2. j # k
        BY <4>1, <3>2
      <4> QED BY <4>1, <4>2, <1>0
    <3>3. p[i] > 1 /\ \A j \in Keys : j # i => p[j] # p[i]
      BY <3>1, <1>3
    <3>4. n # p[i]
      BY <3>3
    <3> QED BY <1>0, <3>1, <3>2, <3>3, <3>4
  <2> QED BY <2>1, <2>2
<1>4. Directory!Compact(q)
  BY <1>2, <1>3
<1> QED BY <1>4 DEF q

LEMMA AssignStep ==
  ASSUME NEW s \in Sessions, TypeOK, Placing(s), IdsInOrder(s), AssignPosition(s)
  PROVE  Placing(s)' /\ IdsInOrder(s)'
<1> USE DEF Goes, tables, call, writes, TypeOK
<1>1. /\ Busy(s) /\ Busy(s)' /\ pc[s] = "assign" /\ pc' = pc
      /\ metric[s] \in Metrics /\ variant[s] \in Variants /\ Holds(s)
      /\ UNCHANGED <<pos, holder, variant, metric, rows, created>>
  BY DEF AssignPosition, Busy, Placing, CallOK, LockOK
<1>2. PICK k \in wanted[s] :
        /\ IsNextKey(s, k)
        /\ ~Placed(s, k)
        /\ keyed' = [keyed EXCEPT ![s] = @ \cup ({k} \ label_key)]
        /\ IF k = NameKey
             THEN /\ added' = [added EXCEPT ![s][k] = 1]
                  /\ UNCHANGED max_position
             ELSE /\ added' = [added EXCEPT ![s][k] = max_position[s]]
                  /\ max_position' = [max_position EXCEPT ![s] = @ + 1]
        /\ wanted' = [wanted EXCEPT ![s] = @ \ {k}]
        /\ nopos' = [nopos EXCEPT ![s] = @ \ {k}]
  BY DEF AssignPosition
<1> DEFINE n == IF k = NameKey THEN 1 ELSE max_position[s]
<1>3. /\ k \in Keys /\ n \in Nat /\ n > 0
      /\ added' = [added EXCEPT ![s][k] = n]
  <2>1. max_position[s] \in Nat /\ max_position[s] > 1
    BY <1>1 DEF Placing, NewPositionsOK, IsNextPosition
  <2> QED BY <1>2, <2>1
<1>4. /\ added[s][k] = 0 /\ pos[metric[s]][k] = 0 /\ PosSeen(s, k) = 0
  BY <1>2 DEF Placed, PosSeen
<1>5. added'[s] = [added[s] EXCEPT ![k] = n]
  BY <1>3
<1>6. IsNextPosition(s, max_position[s])
  BY <1>1 DEF Placing, NewPositionsOK
<1>7. PosSeen(s, k)' = n /\ \A j \in Keys \ {k} : PosSeen(s, j)' = PosSeen(s, j)
  <2> HIDE DEF n
  <2> QED BY <1>1, <1>3, <1>5 DEF PosSeen
<1>8. Seen(s) \in [Keys -> Nat] /\ \A j \in Keys : Seen(s)[j] = PosSeen(s, j)
  <2>1. \A j \in Keys : PosSeen(s, j) \in Nat
    BY <1>1, SeenType
  <2> QED BY <2>1 DEF Seen
<1>9. HolderOK'
  BY <1>1 DEF Placing, HolderOK, Busy
<1>10. (\A m \in Metrics : Directory!Compact(pos[m]))'
  BY <1>1 DEF Placing, Directory!Compact
<1>11. CallOK(s)' /\ LockOK(s)'
  BY <1>1 DEF CallOK, LockOK, Holds, Busy
<1>12. Directory!Compact(Seen(s))'
  <2>1. Directory!Compact(Seen(s))
    BY <1>1 DEF Placing, NewPositionsOK
  <2>2. Seen(s)' = [Seen(s) EXCEPT ![k] = n]
    <3> HIDE DEF n
    <3> QED BY <1>3, <1>7, <1>8 DEF Seen
  <2>3. Directory!Compact([Seen(s) EXCEPT ![k] = n])
    <3>1. k # NameKey =>
            /\ n > 1 /\ \A j \in Keys : Seen(s)[j] < n
            /\ n > 2 => \E j \in Keys : Seen(s)[j] = n - 1
      BY <1>6, <1>8 DEF IsNextPosition
    <3>2. k = NameKey => n = 1
      OBVIOUS
    <3>3. Seen(s)[k] = 0
      BY <1>3, <1>4, <1>8
    <3> HIDE DEF n, TypeOK
    <3> QED BY <1>3, <1>8, <2>1, <3>1, <3>2, <3>3, AppendCompact
  <2> QED BY <2>2, <2>3 DEF Directory!Compact
<1>13. \A i \in Keys : added'[s][i] # 0 =>
         /\ pos[metric[s]][i] = 0
         /\ i # NameKey => \A j \in Keys : pos[metric[s]][j] < added'[s][i]
  <2>1. \A i \in Keys : added[s][i] # 0 =>
          /\ pos[metric[s]][i] = 0
          /\ i # NameKey => \A j \in Keys : pos[metric[s]][j] < added[s][i]
    BY <1>1 DEF Placing, NewPositionsOK
  <2>2. \A j \in Keys : pos[metric[s]][j] < max_position[s]
    BY <1>1, <1>6, <2>1 DEF IsNextPosition, PosSeen
  <2> QED BY <1>3, <1>4, <1>5, <2>1, <2>2
<1>14. IsNextPosition(s, max_position[s])'
  <2>1. CASE k = NameKey
    <3>1. max_position' = max_position
      BY <1>2, <2>1
    <3>2. max_position[s] > 2 => \E j \in Keys \ {k} : PosSeen(s, j) = max_position[s] - 1
      BY <1>4, <1>6 DEF IsNextPosition
    <3> QED BY <1>6, <1>7, <2>1, <3>1, <3>2 DEF IsNextPosition
  <2>2. CASE k # NameKey
    <3>1. max_position'[s] = max_position[s] + 1 /\ n = max_position[s]
      BY <1>2, <2>2
    <3>2. \A j \in Keys : PosSeen(s, j) \in Nat
      BY <1>8
    <3>0. max_position[s] \in Nat /\ max_position[s] > 1
          /\ \A j \in Keys : PosSeen(s, j) < max_position[s]
      BY <1>6 DEF IsNextPosition
    <3> HIDE DEF n, TypeOK
    <3>3. \A j \in Keys : PosSeen(s, j)' < max_position'[s]
      BY <1>7, <3>0, <3>1, <3>2
    <3>4. max_position'[s] > 1 /\ PosSeen(s, k)' = max_position'[s] - 1
      BY <1>7, <3>0, <3>1
    <3> QED BY <1>3, <3>3, <3>4 DEF IsNextPosition
  <2> QED BY <2>1, <2>2
<1>15. NewPositionsOK(s)'
  BY <1>1, <1>12, <1>13, <1>14 DEF NewPositionsOK
<1>16. ASSUME variant[s] = "ids" PROVE IdsInOrder(s)'
  <2>1. \A j \in keyed'[s], i \in wanted'[s] : j < i
    <3>1. \A j \in keyed[s], i \in wanted[s] : j < i
      BY <1>1, <1>16 DEF IdsInOrder
    <3>2. \A i \in wanted[s] \ {k} : k < i
      BY <1>2, KeyOrder
    <3>3. wanted'[s] = wanted[s] \ {k} /\ keyed'[s] = keyed[s] \cup ({k} \ label_key)
      BY <1>2
    <3> QED BY <3>1, <3>2, <3>3
  <2>2. nopos[s] \subseteq wanted[s] => nopos'[s] \subseteq wanted'[s]
    BY <1>2
  <2> QED BY <1>1, <1>16, <2>1, <2>2 DEF IdsInOrder
<1>17. IdsInOrder(s)'
  BY <1>1, <1>16 DEF IdsInOrder
<1> QED BY <1>9, <1>10, <1>11, <1>15, <1>17 DEF Placing

-----------------------------------------------------------------------------
(* The invariant                                                           *)

LEMMA InvInit == Init => IndInv
<1> SUFFICES ASSUME Init PROVE IndInv
  OBVIOUS
<1>1. TypeOK
  BY TypeInit
<1>2. HolderOK
  BY NullAssumption DEF Init, HolderOK
<1>3. \A m \in Metrics : Directory!Compact(pos[m])
  BY SizeAssumption DEF Init, NoPositions, Directory!Compact
<1>4. ASSUME NEW s \in Sessions
      PROVE  CallOK(s) /\ LockOK(s) /\ NewPositionsOK(s) /\ IdsInOrder(s)
  BY DEF Init, CallOK, LockOK, NewPositionsOK, IdsInOrder, Busy, NoPositions
<1> QED BY <1>1, <1>2, <1>3, <1>4 DEF IndInv

LEMMA OwnStep ==
  ASSUME NEW s \in Sessions, TypeOK, Placing(s), IdsInOrder(s),
         \/ \E v \in Variants, m \in Metrics, ls \in Requests : Call(s, v, m, ls)
         \/ Step(s)
         \/ Abort(s)
  PROVE  /\ Placing(s)' /\ IdsInOrder(s)'
         /\ \A t \in Sessions \ {s} :
              metric[t] \in Metrics /\ Holds(t) => pos'[metric[t]] = pos[metric[t]]
<1>1. CASE \E v \in Variants, m \in Metrics, ls \in Requests : Call(s, v, m, ls)
  BY <1>1, CallStep DEF Call, tables
<1>2. CASE RowNeedsPosition(s) \/ CreateLabel(s) \/ RowsDone(s)
           \/ Check(s) \/ SecondCheck(s) \/ PositionsDone(s)
  <2>1. pos' = pos
    BY <1>2 DEF RowNeedsPosition, CreateLabel, RowsDone, Check, SecondCheck,
                PositionsDone, tables
  <2> QED BY <1>2, <2>1, RowSteps
<1>3. CASE Lock(s)
  BY <1>3, LockStep DEF Lock, tables
<1>4. CASE AssignPosition(s)
  BY <1>4, AssignStep DEF AssignPosition, tables
<1>5. CASE Commit(s) \/ Abort(s)
  BY <1>5, EndStep
<1> QED BY <1>1, <1>2, <1>3, <1>4, <1>5 DEF Step

LEMMA InvNext == IndInv /\ [Next]_vars => IndInv'
<1> SUFFICES ASSUME IndInv, [Next]_vars PROVE IndInv'
  OBVIOUS
<1>1. CASE UNCHANGED vars
  BY <1>1 DEF vars, tables, call, writes, IndInv, TypeOK, HolderOK, CallOK, LockOK,
              NewPositionsOK, IdsInOrder, Busy, Holds, Seen, PosSeen, IsNextPosition,
              Directory!Compact
<1>2. CASE Next
  <2>1. PICK s \in Sessions :
          \/ \E v \in Variants, m \in Metrics, ls \in Requests : Call(s, v, m, ls)
          \/ Step(s)
          \/ Abort(s)
    BY <1>2 DEF Next
  <2>2. TypeOK /\ Placing(s) /\ CallOK(s) /\ HolderOK /\ IdsInOrder(s)
    BY DEF IndInv, Placing
  <2>3. TypeOK'
    BY <2>1, <2>2, TypeStep
  <2>4. /\ Placing(s)' /\ IdsInOrder(s)'
        /\ \A t \in Sessions \ {s} :
             metric[t] \in Metrics /\ Holds(t) => pos'[metric[t]] = pos[metric[t]]
    BY <2>1, <2>2, OwnStep
  <2>5. HolderOK' /\ \A m \in Metrics : Directory!Compact(pos'[m])
    BY <2>4 DEF Placing, Directory!Compact
  <2>6. ASSUME NEW t \in Sessions \ {s}
        PROVE  CallOK(t)' /\ LockOK(t)' /\ NewPositionsOK(t)' /\ IdsInOrder(t)'
    <3>1. Kept(t)
      BY <2>1, <2>2, StepKeeps
    <3>2. CallOK(t) /\ LockOK(t) /\ NewPositionsOK(t) /\ IdsInOrder(t)
      BY DEF IndInv
    <3>3. Busy(t) /\ Holds(t) => pos'[metric[t]] = pos[metric[t]]
      BY <2>4, <3>2 DEF CallOK
    <3> QED BY <2>2, <2>3, <2>5, <3>1, <3>2, <3>3, OthersStayOK
  <2>7. CallOK(s)' /\ LockOK(s)' /\ NewPositionsOK(s)' /\ IdsInOrder(s)'
    BY <2>4 DEF Placing
  <2>8. (\A m \in Metrics : Directory!Compact(pos[m]))'
    BY <2>5 DEF Directory!Compact
  <2> QED BY <2>3, <2>5, <2>6, <2>7, <2>8 DEF IndInv
<1> QED BY <1>1, <1>2

\* Whatever sessions call, in every order and with every failure, locks, positions
\* and labels in creation stay as get_new_pos_for_key and its callers rely on.
THEOREM Invariance == Spec => []IndInv
  BY InvInit, InvNext, PTL DEF Spec

\* Type correctness.
THEOREM TypeCorrect == Spec => []TypeOK
<1>1. IndInv => TypeOK
  BY DEF IndInv
<1> QED BY <1>1, Invariance, PTL

\* get_new_pos_for_key never inserts a position that another session of the metric has
\* inserted or committed, so that it never raises 'Could not find a new position'.
THEOREM NeverConflicts == Spec => []NoPositionConflict
<1>1. IndInv => NoPositionConflict
  <2> SUFFICES ASSUME IndInv, NEW s \in Sessions, NEW k \in Keys, added[s][k] # 0
               PROVE  /\ pos[metric[s]][k] = 0
                      /\ \A t \in Sessions \ {s} :
                           metric[t] = metric[s] => added[t][k] = 0
    BY DEF NoPositionConflict
  <2>1. Busy(s)
    BY DEF IndInv, CallOK, NoPositions
  <2>2. pos[metric[s]][k] = 0
    BY <2>1 DEF IndInv, NewPositionsOK
  <2>3. holder[metric[s]] = s
    BY DEF IndInv, LockOK, Holds
  <2>4. ASSUME NEW t \in Sessions \ {s}, metric[t] = metric[s] PROVE added[t][k] = 0
    BY <2>3, <2>4 DEF IndInv, LockOK, Holds
  <2> QED BY <2>2, <2>4
<1> QED BY <1>1, Invariance, PTL

-----------------------------------------------------------------------------
(* Deadlocks                                                               *)

\* s waits for t at place r of the order in which get_or_create_label_ids takes what it
\* locks: the labels, the partition, the keys.
WaitsAt(s, t, r) ==
  \/ /\ pc[s] = "rows" /\ r \in Labels
     /\ r \in rows[s] /\ r \in created[t]
  \/ WaitsForPartition(s, t) /\ r = MaxLabel + 1
  \/ /\ pc[s] = "assign"
     /\ \E k \in Keys : r = MaxLabel + 2 + k /\ k \in wanted[s] /\ k \in keyed[t]

MaxPlace == MaxLabel + MaxKey + 2

LEMMA WaitingHasPlace ==
  ASSUME TypeOK, NEW s \in Sessions, NEW t \in Sessions, Waits(s, t)
  PROVE  \E r \in 1..MaxPlace : WaitsAt(s, t, r)
<1>1. CASE WaitsForLabel(s, t)
  <2>1. PICK l \in rows[s] : l \in created[t] /\ pc[s] = "rows"
    BY <1>1 DEF WaitsForLabel
  <2>2. l \in Labels /\ l \in 1..MaxPlace
    BY SizeAssumption DEF TypeOK, Labels, MaxPlace, Keys
  <2> QED BY <2>1, <2>2 DEF WaitsAt
<1>2. CASE WaitsForPartition(s, t)
  <2>1. MaxLabel + 1 \in 1..MaxPlace
    BY SizeAssumption DEF MaxPlace
  <2> QED BY <1>2, <2>1 DEF WaitsAt
<1>3. CASE WaitsForKey(s, t)
  <2>1. PICK k \in wanted[s] : k \in keyed[t] /\ pc[s] = "assign"
    BY <1>3 DEF WaitsForKey
  <2>2. k \in Keys /\ MaxLabel + 2 + k \in 1..MaxPlace
    BY SizeAssumption DEF TypeOK, Keys, MaxPlace
  <2> QED BY <2>1, <2>2 DEF WaitsAt
<1> QED BY <1>1, <1>2, <1>3 DEF Waits

\* Whom a session waits for, in get_or_create_label_ids, waits at a later place.
LEMMA WaitsLater ==
  ASSUME IndInv, NEW s \in Sessions, NEW t \in Sessions, NEW u \in Sessions,
         variant[s] = "ids", variant[t] = "ids",
         NEW q \in Int, NEW r \in Int, WaitsAt(s, t, q), WaitsAt(t, u, r)
  PROVE  q < r
<1>1. IdsInOrder(t) /\ LockOK(t) /\ CallOK(s) /\ HolderOK /\ TypeOK
  BY DEF IndInv
<1>2. Busy(t) /\ Busy(s) /\ metric[s] \in Metrics
  BY <1>1 DEF WaitsAt, WaitsForPartition, Busy, CallOK
<1>3. /\ MaxLabel \in Nat
      /\ \A l \in Labels : l \in Int /\ l <= MaxLabel
      /\ \A k \in Keys : k \in Int /\ 0 <= k
  BY SizeAssumption DEF Labels, Keys
<1>4. CASE pc[s] = "rows" /\ q \in Labels /\ q \in rows[s] /\ q \in created[t]
  <2>1. CASE r \in rows[t]
    BY <1>1, <1>2, <1>4, <2>1 DEF IdsInOrder
  <2>2. CASE r = MaxLabel + 1
    BY <1>3, <1>4, <2>2
  <2>3. CASE \E k \in Keys : r = MaxLabel + 2 + k
    BY <1>3, <1>4, <2>3
  <2> QED BY <2>1, <2>2, <2>3 DEF WaitsAt
<1>5. CASE WaitsForPartition(s, t) /\ q = MaxLabel + 1
  <2>1. Holds(t)
    BY <1>1, <1>2, <1>5 DEF WaitsForPartition, HolderOK, Holds
  <2>2. ~(pc[t] = "rows" /\ r \in rows[t]) /\ pc[t] # "lock"
    BY <1>1, <1>2, <2>1 DEF IdsInOrder
  <2>3. \E k \in Keys : r = MaxLabel + 2 + k
    BY <2>2 DEF WaitsAt, WaitsForPartition
  <2> QED BY <1>3, <1>5, <2>3
<1>6. CASE \E k \in Keys : q = MaxLabel + 2 + k /\ k \in wanted[s] /\ k \in keyed[t]
  <2>1. PICK k \in Keys : q = MaxLabel + 2 + k /\ k \in keyed[t]
    BY <1>6
  <2>2. Holds(t)
    BY <1>1, <2>1 DEF LockOK
  <2>3. ~(pc[t] = "rows" /\ r \in rows[t]) /\ pc[t] # "lock"
    BY <1>1, <1>2, <2>2 DEF IdsInOrder
  <2>4. PICK j \in Keys : r = MaxLabel + 2 + j /\ j \in wanted[t]
    BY <2>3 DEF WaitsAt, WaitsForPartition
  <2>5. k < j
    BY <1>1, <1>2, <2>1, <2>4 DEF IdsInOrder
  <2> QED BY <1>3, <2>1, <2>4, <2>5
<1> QED BY <1>4, <1>5, <1>6 DEF WaitsAt

\* A set of numbers up to a bound has a greatest one.
LEMMA GreatestExists ==
  ASSUME NEW b \in Nat, NEW R \in SUBSET (1..b), R # {}
  PROVE  \E g \in R : \A r \in R : r <= g
<1> DEFINE D == {b - r : r \in R}
<1>1. D \subseteq Nat /\ D # {}
  <2>1. \A r \in R : b - r \in Nat
    OBVIOUS
  <2>2. PICK r \in R : TRUE
    OBVIOUS
  <2>3. b - r \in D
    OBVIOUS
  <2> QED BY <2>1, <2>3
<1>2. PICK d \in D : \A e \in D : ~(<<e, d>> \in {p \in Nat \X Nat : p[1] < p[2]})
  <2> HIDE DEF D
  <2>1. IsWellFoundedOn({p \in Nat \X Nat : p[1] < p[2]}, Nat)
    BY NatLessThanWellFounded, Zenon DEF OpToRel
  <2> QED BY <1>1, <2>1, WFMin, Zenon
<1>3. \A e \in D : ~(e < d)
  BY <1>1, <1>2
<1>4. PICK g \in R : d = b - g
  OBVIOUS
<1>5. ASSUME NEW r \in R PROVE r <= g
  <2>1. ~(b - r < d)
    BY <1>3
  <2> QED BY <1>4, <2>1
<1> QED BY <1>5

\* Sessions that only call get_or_create_label_ids never wait for each other in a circle,
\* whatever they create at once: each would wait later than the one before it, for ever.
THEOREM IdsOrder == Spec => []IdsNeverDeadlock
<1>1. IndInv => IdsNeverDeadlock
  <2> SUFFICES ASSUME IndInv, NEW C \in SUBSET Sessions, Deadlocked(C),
                      \A s \in C : variant[s] = "ids"
               PROVE  FALSE
    BY DEF IdsNeverDeadlock
  <2> DEFINE R == {r \in 1..MaxPlace : \E s, t \in C : WaitsAt(s, t, r)}
  <2>1. TypeOK
    BY DEF IndInv
  <2>2. ASSUME NEW s \in C PROVE \E t \in C, r \in 1..MaxPlace : WaitsAt(s, t, r)
    <3>1. PICK t \in C : Waits(s, t)
      BY DEF Deadlocked
    <3> QED BY <2>1, <3>1, WaitingHasPlace
  <2>3. R # {}
    BY <2>2 DEF Deadlocked
  <2>4. PICK g \in R : \A r \in R : r <= g
    <3>1. MaxPlace \in Nat
      BY SizeAssumption DEF MaxPlace
    <3> HIDE DEF R
    <3>2. R \in SUBSET (1..MaxPlace)
      BY DEF R
    <3> QED BY <2>3, <3>1, <3>2, GreatestExists
  <2>5. PICK s \in C, t \in C : WaitsAt(s, t, g)
    OBVIOUS
  <2>6. PICK u \in C, r \in 1..MaxPlace : WaitsAt(t, u, r)
    BY <2>2
  <2>7. g < r
    BY <2>5, <2>6, WaitsLater
  <2>8. r \in R
    BY <2>6
  <2> QED BY <2>4, <2>7, <2>8
<1> QED BY <1>1, Invariance, PTL

-----------------------------------------------------------------------------
(* LabelCatalog implements KeyPositions                                    *)

LEMMA StepAppends == IndInv /\ IndInv' /\ [Next]_vars => [Directory!Next]_pos
<1> SUFFICES ASSUME IndInv, IndInv', [Next]_vars, pos' # pos PROVE Directory!Next
  OBVIOUS
<1>1. PICK s \in Sessions : Commit(s)
  BY DEF Next, Step, vars, tables, Call, RowNeedsPosition, CreateLabel, RowsDone, Check,
         Lock, SecondCheck, AssignPosition, PositionsDone, Abort
<1>2. /\ Busy(s) /\ metric[s] \in Metrics
      /\ pos \in [Metrics -> [Keys -> Nat]]
      /\ pos' = [pos EXCEPT ![metric[s]] = Seen(s)]
  BY <1>1 DEF Commit, Busy, Seen, IndInv, CallOK, TypeOK
<1> DEFINE m == metric[s]
<1>3. pos'[m] = Seen(s) /\ \A n \in Metrics \ {m} : pos'[n] = pos[n]
  BY <1>2
<1>4. Directory!Compact(pos'[m])
  BY <1>2, <1>3 DEF IndInv, NewPositionsOK
<1>5. ASSUME NEW k \in Keys
      PROVE  /\ pos[m][k] # 0 => pos'[m][k] = pos[m][k]
             /\ pos[m][k] = 0 /\ pos'[m][k] # 0 /\ k # NameKey =>
                  \A j \in Keys : pos[m][j] < pos'[m][k]
  <2>1. pos'[m][k] = PosSeen(s, k)
    BY <1>3 DEF Seen
  <2>2. added[s][k] # 0 =>
          /\ pos[m][k] = 0
          /\ k # NameKey => \A j \in Keys : pos[m][j] < added[s][k]
    BY <1>2 DEF IndInv, NewPositionsOK
  <2> QED BY <2>1, <2>2 DEF PosSeen
<1>6. Directory!Extends(pos[m], pos'[m])
  BY <1>5 DEF Directory!Extends
<1> QED BY <1>2, <1>3, <1>4, <1>6 DEF Directory!Next

\* The committed positions of a metric only grow, by keys placed right after the ones that
\* are there: no interleaving or failure moves, repeats or skips a position.
THEOREM Appended == Spec => PositionsAppended
<1>1. Init => Directory!Init
  BY DEF Init, Directory!Init, NoPositions, Directory!NoPositions
<1> QED BY <1>1, StepAppends, Invariance, PTL DEF Spec, PositionsAppended, Directory!Spec
=============================================================================
