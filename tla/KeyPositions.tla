---------------------------- MODULE KeyPositions ----------------------------
(***************************************************************************)
(* What label_key_position promises: for each metric the keys of its       *)
(* series have positions in the label array, a position once given never   *)
(* changes, and new keys come right after the old ones, so that the views  *)
(* of a metric only get columns appended.  (001-base.sql.)                 *)
(***************************************************************************)
EXTENDS Integers

CONSTANTS Metrics, Keys, NameKey

VARIABLE pos  \* pos[m][k], 0 if k has no position in m

NoPositions == [k \in Keys |-> 0]

\* Element 1 is the metric name's; the others are distinct and leave no gap.
Compact(p) ==
  /\ p[NameKey] \in {0, 1}
  /\ \A k \in Keys \ {NameKey} : p[k] # 0 =>
       /\ p[k] > 1
       /\ p[k] > 2 => \E j \in Keys \ {NameKey} : p[j] = p[k] - 1
       /\ \A j \in Keys : j # k => p[j] # p[k]

Extends(p, q) ==
  \A k \in Keys :
    /\ p[k] # 0 => q[k] = p[k]
    /\ p[k] = 0 /\ q[k] # 0 /\ k # NameKey => \A j \in Keys : p[j] < q[k]

Init == pos = [m \in Metrics |-> NoPositions]

Next == \E m \in Metrics :
  /\ Extends(pos[m], pos'[m])
  /\ Compact(pos'[m])
  /\ \A n \in Metrics \ {m} : pos'[n] = pos[n]

Spec == Init /\ [][Next]_pos
=============================================================================
