---------------------------- MODULE LabelCatalog ----------------------------
(***************************************************************************)
(* Labels, label keys and the positions of keys in a metric's label        *)
(* arrays, created by concurrent sessions: get_or_create_label_ids and the *)
(* two get_or_create_label_array, with get_new_pos_for_key and             *)
(* get_new_label_id below them.  (001-base.sql.)                           *)
(*                                                                         *)
(* A call is a transaction.  Its statement joins label and                 *)
(* label_key_position as of one snapshot and calls functions for what it   *)
(* misses there; those are volatile and see whatever is committed when     *)
(* they run.  INSERT ... ON CONFLICT DO NOTHING waits for a session that   *)
(* inserted the same key and did not commit; LOCK TABLE waits for the      *)
(* holder.                                                                 *)
(***************************************************************************)
EXTENDS Integers

CONSTANTS
  Sessions,     \* sessions of the connectors
  Metrics,
  MaxKey,       \* keys are numbered in alphabetical order
  NameKey,      \* '__name__'
  MaxLabel,     \* labels (key, value) are numbered in the order of both
  KeyOf,        \* KeyOf[l]: the key of label l; the one of NameKey
                \* stands for the own name of whichever metric a call is for
  StorageRank,  \* StorageRank[k]: place of key k in a jsonb object
  Requests,     \* label sets that calls come with
  NULL

Keys     == 0..MaxKey
Labels   == 1..MaxLabel
Variants == {"ids", "array", "jsonb"}

ASSUME SizeAssumption == MaxKey \in Nat /\ MaxLabel \in Nat /\ NameKey \in Keys
ASSUME KeyOfAssumption ==
  /\ KeyOf \in [Labels -> Keys]
  /\ \A l, m \in Labels : l < m => KeyOf[l] <= KeyOf[m]
ASSUME StorageAssumption == StorageRank \in [Keys -> Nat]
\* A label set has one value per key.
ASSUME RequestsAssumption ==
  \A ls \in Requests :
    /\ ls \subseteq Labels /\ ls # {}
    /\ \A l, m \in ls : KeyOf[l] = KeyOf[m] => l = m
ASSUME NullAssumption == NULL \notin Sessions /\ NULL \notin Metrics

VARIABLES
  \* the database, as committed
  label,         \* labels with a row in label
  label_key,     \* keys with a row in label_key
  pos,           \* pos[m][k]: label_key_position, 0 if absent
  holder,        \* holder[m]: who has LOCKed prom_data_series.<m>
  \* a session s in a call
  pc,            \* pc[s]: how far it is
  variant,       \* variant[s]: the function it called
  metric,        \* metric[s]: metric_name
  rows,          \* rows[s]: labels of the statement's rows to come
  fresh,         \* fresh[s]: labels that the statement's snapshot lacks
  nopos,         \* nopos[s]: keys without a position there
  wanted,        \* wanted[s]: key_name_array, the elements to come
  max_position,  \* max_position[s]: the next position to give
  created,       \* created[s]: labels it inserted and did not commit
  keyed,         \* keyed[s]: label keys likewise
  added          \* added[s][k]: positions likewise

tables == <<label, label_key, pos>>
call   == <<variant, metric, fresh>>
writes == <<created, keyed, added>>
vars   == <<tables, holder, pc, call, rows, nopos, wanted, max_position, writes>>

NoPositions == [k \in Keys |-> 0]

\* The metrics are there, made with the labels of their names (make_metric_table).
Init ==
  /\ label = {l \in Labels : KeyOf[l] = NameKey}
  /\ label_key = {}
  /\ pos = [m \in Metrics |-> NoPositions]
  /\ holder = [m \in Metrics |-> NULL]
  /\ pc = [s \in Sessions |-> "idle"]
  /\ variant = [s \in Sessions |-> NULL]
  /\ metric = [s \in Sessions |-> NULL]
  /\ rows = [s \in Sessions |-> {}]
  /\ fresh = [s \in Sessions |-> {}]
  /\ nopos = [s \in Sessions |-> {}]
  /\ wanted = [s \in Sessions |-> {}]
  /\ max_position = [s \in Sessions |-> 0]
  /\ created = [s \in Sessions |-> {}]
  /\ keyed = [s \in Sessions |-> {}]
  /\ added = [s \in Sessions |-> NoPositions]

-----------------------------------------------------------------------------
(* What a session sees and in which order it works *)

\* A session's own writes are visible to it.
PosSeen(s, k) == IF added[s][k] # 0 THEN added[s][k] ELSE pos[metric[s]][k]

\* ORDER BY kv.key, kv.value; but ORDER BY l.key in the jsonb variant, where l.key
\* is NULL for the labels to be created: they come last, as they are stored.
Before(s, l, m) ==
  IF variant[s] # "jsonb" THEN l < m
  ELSE \/ l \notin fresh[s] /\ (m \in fresh[s] \/ KeyOf[l] < KeyOf[m])
       \/ /\ l \in fresh[s] /\ m \in fresh[s]
          /\ StorageRank[KeyOf[l]] < StorageRank[KeyOf[m]]

\* (mutant) without the ORDER BY
AnyRow(s, l) == l \in rows[s]
IsNextRow(s, l) == l \in rows[s] /\ \A m \in rows[s] \ {l} : Before(s, l, m)
IsNextKey(s, k) == k \in wanted[s] /\ \A j \in wanted[s] : k <= j

\* SELECT max(pos) + 1, or 2: element 1 is reserved.
IsNextPosition(s, n) ==
  /\ n > 1
  /\ \A k \in Keys : PosSeen(s, k) < n
  /\ n > 2 => \E k \in Keys : PosSeen(s, k) = n - 1

\* (mutant) the lock of the metric name's position table does not exclude anyone
FreeAnyway(s) == TRUE
PartitionFree(s) == holder[metric[s]] \in {NULL, s}

\* (mutant) the second check is left out
NeverPlaced(s, k) == FALSE
Placed(s, k) == PosSeen(s, k) # 0

LabelFree(s, l) == \A t \in Sessions \ {s} : l \notin created[t]
KeyFree(s, k)   == \A t \in Sessions \ {s} : k \notin keyed[t]

-----------------------------------------------------------------------------
(* Sessions *)

Goes(s, from, to) == pc[s] = from /\ pc' = [pc EXCEPT ![s] = to]

\* The transaction ends: locks and variables are gone.
Ends(s) ==
  /\ pc' = [pc EXCEPT ![s] = "idle"]
  /\ variant' = [variant EXCEPT ![s] = NULL]
  /\ metric' = [metric EXCEPT ![s] = NULL]
  /\ rows' = [rows EXCEPT ![s] = {}]
  /\ fresh' = [fresh EXCEPT ![s] = {}]
  /\ nopos' = [nopos EXCEPT ![s] = {}]
  /\ wanted' = [wanted EXCEPT ![s] = {}]
  /\ max_position' = [max_position EXCEPT ![s] = 0]
  /\ created' = [created EXCEPT ![s] = {}]
  /\ keyed' = [keyed EXCEPT ![s] = {}]
  /\ added' = [added EXCEPT ![s] = NoPositions]
  /\ holder' = [m \in Metrics |-> IF holder[m] = s THEN NULL ELSE holder[m]]

\* The statement's snapshot.  get_or_create_label_ids asks for all positions at the
\* end, the other two for one at a time.
Call(s, v, m, ls) ==
  /\ Goes(s, "idle", "rows")
  /\ variant' = [variant EXCEPT ![s] = v]
  /\ metric' = [metric EXCEPT ![s] = m]
  /\ rows' = [rows EXCEPT ![s] = ls]
  /\ fresh' = [fresh EXCEPT ![s] = ls \ label]
  /\ LET ks == {KeyOf[l] : l \in ls}
     IN  /\ nopos' = [nopos EXCEPT ![s] = {k \in ks : pos[m][k] = 0}]
         /\ wanted' = [wanted EXCEPT ![s] = IF v = "ids" THEN ks ELSE {}]
  /\ UNCHANGED <<tables, holder, max_position, writes>>

\* A row whose key has no position calls get_or_create_label_key_pos first.
RowNeedsPosition(s) ==
  /\ variant[s] # "ids"
  /\ Goes(s, "rows", "check")
  /\ \E l \in rows[s] :
       /\ IsNextRow(s, l)
       /\ KeyOf[l] \in nopos[s]
       /\ wanted' = [wanted EXCEPT ![s] = {KeyOf[l]}]
  /\ UNCHANGED <<tables, holder, call, rows, nopos, max_position, writes>>

\* A row whose label is missing calls get_or_create_label_id: the label may exist by
\* now, is inserted, or is being inserted by another session and waited for.
CreateLabel(s) ==
  /\ pc[s] = "rows"
  /\ \E l \in rows[s] :
       /\ IsNextRow(s, l)
       /\ variant[s] = "ids" \/ KeyOf[l] \notin nopos[s]
       /\ \/ /\ l \in label \/ l \notin fresh[s]
             /\ UNCHANGED created
          \/ /\ l \in fresh[s] \ label
             /\ LabelFree(s, l)
             /\ created' = [created EXCEPT ![s] = @ \cup {l}]
       /\ rows' = [rows EXCEPT ![s] = @ \ {l}]
  /\ UNCHANGED <<tables, holder, pc, call, nopos, wanted, max_position, keyed, added>>

\* All rows are there: get_or_create_label_ids asks for the positions it misses.
RowsDone(s) ==
  /\ rows[s] = {}
  /\ Goes(s, "rows", IF nopos[s] # {} THEN "check" ELSE "done")
  /\ UNCHANGED <<tables, holder, call, rows, nopos, wanted, max_position, writes>>

\* get_new_pos_for_key: the optimistic check,
Check(s) ==
  /\ pc[s] = "check"
  /\ \/ /\ \A k \in wanted[s] : PosSeen(s, k) # 0
        /\ Goes(s, "check", "rows")
        /\ nopos' = [nopos EXCEPT ![s] = @ \ wanted[s]]
        /\ wanted' = [wanted EXCEPT ![s] = {}]
     \/ /\ \E k \in wanted[s] : PosSeen(s, k) = 0
        /\ Goes(s, "check", "lock")
        /\ UNCHANGED <<nopos, wanted>>
  /\ UNCHANGED <<tables, holder, call, rows, max_position, writes>>

\* LOCK TABLE prom_data_series.<m> and the next position,
Lock(s) ==
  /\ Goes(s, "lock", "assign")
  /\ PartitionFree(s)
  /\ holder' = [holder EXCEPT ![metric[s]] = s]
  /\ \E n \in {2} \cup {PosSeen(s, k) + 1 : k \in Keys} :
       /\ IsNextPosition(s, n)
       /\ max_position' = [max_position EXCEPT ![s] = n]
  /\ UNCHANGED <<tables, call, rows, nopos, wanted, writes>>

\* the second check,
SecondCheck(s) ==
  /\ pc[s] = "assign"
  /\ \E k \in wanted[s] :
       /\ IsNextKey(s, k)
       /\ Placed(s, k)
       /\ wanted' = [wanted EXCEPT ![s] = @ \ {k}]
       /\ nopos' = [nopos EXCEPT ![s] = @ \ {k}]
  /\ UNCHANGED <<tables, holder, pc, call, rows, max_position, writes>>

\* a new key: get_or_create_label_key, which may wait, and its position,
AssignPosition(s) ==
  /\ pc[s] = "assign"
  /\ \E k \in wanted[s] :
       /\ IsNextKey(s, k)
       /\ ~Placed(s, k)
       /\ k \in label_key \/ KeyFree(s, k)
       /\ keyed' = [keyed EXCEPT ![s] = @ \cup ({k} \ label_key)]
       /\ IF k = NameKey
            THEN /\ added' = [added EXCEPT ![s][k] = 1]
                 /\ UNCHANGED max_position
            ELSE /\ added' = [added EXCEPT ![s][k] = max_position[s]]
                 /\ max_position' = [max_position EXCEPT ![s] = @ + 1]
       /\ wanted' = [wanted EXCEPT ![s] = @ \ {k}]
       /\ nopos' = [nopos EXCEPT ![s] = @ \ {k}]
  /\ UNCHANGED <<tables, holder, pc, call, rows, created>>

\* and the return (the views are replaced with the new columns).
PositionsDone(s) ==
  /\ wanted[s] = {}
  /\ Goes(s, "assign", "rows")
  /\ UNCHANGED <<tables, holder, call, rows, nopos, wanted, max_position, writes>>

Commit(s) ==
  /\ pc[s] = "done"
  /\ label' = label \cup created[s]
  /\ label_key' = label_key \cup keyed[s]
  /\ pos' = [pos EXCEPT ![metric[s]] = [k \in Keys |-> PosSeen(s, k)]]
  /\ Ends(s)

\* The transaction fails: an error, a lost connection, a deadlock's victim.
Abort(s) ==
  /\ pc[s] # "idle"
  /\ Ends(s)
  /\ UNCHANGED tables

Step(s) ==
  \/ RowNeedsPosition(s) \/ CreateLabel(s) \/ RowsDone(s)
  \/ Check(s) \/ Lock(s) \/ SecondCheck(s) \/ AssignPosition(s)
  \/ PositionsDone(s) \/ Commit(s)

Next ==
  \E s \in Sessions :
    \/ \E v \in Variants, m \in Metrics, ls \in Requests : Call(s, v, m, ls)
    \/ Step(s)
    \/ Abort(s)

Spec == Init /\ [][Next]_vars

-----------------------------------------------------------------------------
(* Waiting *)

WaitsForLabel(s, t) ==
  /\ pc[s] = "rows"
  /\ \E l \in rows[s] : /\ IsNextRow(s, l)
                        /\ variant[s] = "ids" \/ KeyOf[l] \notin nopos[s]
                        /\ l \in fresh[s] \ label
                        /\ l \in created[t]

WaitsForPartition(s, t) == pc[s] = "lock" /\ holder[metric[s]] = t

WaitsForKey(s, t) ==
  /\ pc[s] = "assign"
  /\ \E k \in wanted[s] : /\ IsNextKey(s, k)
                          /\ ~Placed(s, k)
                          /\ k \notin label_key
                          /\ k \in keyed[t]

Waits(s, t) ==
  s # t /\ (WaitsForLabel(s, t) \/ WaitsForPartition(s, t) \/ WaitsForKey(s, t))

\* Each of a set of sessions waits for another one of the set.
Deadlocked(C) == C # {} /\ \A s \in C : \E t \in C : Waits(s, t)

-----------------------------------------------------------------------------
(* Properties *)

\* Type invariant.
TypeOK ==
  /\ label \subseteq Labels
  /\ label_key \subseteq Keys
  /\ pos \in [Metrics -> [Keys -> Nat]]
  /\ holder \in [Metrics -> Sessions \cup {NULL}]
  /\ pc \in [Sessions -> {"idle", "rows", "check", "lock", "assign", "done"}]
  /\ variant \in [Sessions -> Variants \cup {NULL}]
  /\ metric \in [Sessions -> Metrics \cup {NULL}]
  /\ rows \in [Sessions -> SUBSET Labels]
  /\ fresh \in [Sessions -> SUBSET Labels]
  /\ nopos \in [Sessions -> SUBSET Keys]
  /\ wanted \in [Sessions -> SUBSET Keys]
  /\ max_position \in [Sessions -> Nat]
  /\ created \in [Sessions -> SUBSET Labels]
  /\ keyed \in [Sessions -> SUBSET Keys]
  /\ added \in [Sessions -> [Keys -> Nat]]

\* No session inserts the position of a key that another session of the metric has
\* inserted or committed: 'Could not find a new position' is never raised.
NoPositionConflict ==
  \A s \in Sessions, k \in Keys : added[s][k] # 0 =>
    /\ pos[metric[s]][k] = 0
    /\ \A t \in Sessions \ {s} : metric[t] = metric[s] => added[t][k] = 0

\* Sessions in get_or_create_label_ids never deadlock: a deadlock takes one of the
\* other two functions.
IdsNeverDeadlock ==
  \A C \in SUBSET Sessions : Deadlocked(C) => \E s \in C : variant[s] # "ids"

\* No calls deadlock ("needs to order by key to prevent deadlocks"; "Canonical lock
\* ordering": labels before the series partition).
NeverDeadlock == \A C \in SUBSET Sessions : ~Deadlocked(C)

-----------------------------------------------------------------------------
(* Implementation of KeyPositions *)

Directory == INSTANCE KeyPositions

\* Whatever sessions do and where they fail, committed positions never change, are
\* distinct and compact, and new keys come after the old ones.
PositionsAppended == Directory!Spec

-----------------------------------------------------------------------------
(* The inductive invariant *)

Busy(s)  == pc[s] # "idle"
Holds(s) == holder[metric[s]] = s
Seen(s)  == [k \in Keys |-> PosSeen(s, k)]

\* Only a call has variables, locks and writes.
CallOK(s) ==
  IF Busy(s) THEN metric[s] \in Metrics /\ variant[s] \in Variants
  ELSE rows[s] = {} /\ created[s] = {} /\ keyed[s] = {} /\ added[s] = NoPositions

HolderOK == \A m \in Metrics, s \in Sessions :
  holder[m] = s => Busy(s) /\ metric[s] = m

\* Who gives positions holds the partition,
LockOK(s) ==
  /\ pc[s] = "assign" => Holds(s)
  /\ keyed[s] # {} => Holds(s)
  /\ \A k \in Keys : added[s][k] # 0 => Holds(s)

\* to keys without one, after all that the metric has and leaving no gap.
NewPositionsOK(s) == Busy(s) =>
  /\ \A k \in Keys : added[s][k] # 0 =>
       /\ pos[metric[s]][k] = 0
       /\ k # NameKey => \A j \in Keys : pos[metric[s]][j] < added[s][k]
  /\ Directory!Compact(Seen(s))
  /\ pc[s] = "assign" => IsNextPosition(s, max_position[s])

\* get_or_create_label_ids: labels in order, then the partition, then keys in order.
IdsInOrder(s) == Busy(s) /\ variant[s] = "ids" =>
  /\ rows[s] # {} => pc[s] = "rows"
  /\ \A l \in created[s], m \in rows[s] : l < m
  /\ nopos[s] \subseteq wanted[s]
  /\ Holds(s) => pc[s] \in {"rows", "assign", "done"}
  /\ Holds(s) /\ pc[s] = "rows" => rows[s] = {} /\ wanted[s] = {}
  /\ \A j \in keyed[s], k \in wanted[s] : j < k

\* The inductive invariant behind the properties above.
IndInv ==
  /\ TypeOK
  /\ HolderOK
  /\ \A m \in Metrics : Directory!Compact(pos[m])
  /\ \A s \in Sessions :
       CallOK(s) /\ LockOK(s) /\ NewPositionsOK(s) /\ IdsInOrder(s)
=============================================================================
