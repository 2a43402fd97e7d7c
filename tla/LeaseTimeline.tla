--------------------------- MODULE LeaseTimeline ---------------------------
(***************************************************************************)
(* What high availability promises for one cluster of Prometheus replicas: *)
(* every instant of the cluster's timeline gets samples of one replica     *)
(* only, and an instant once given to a replica stays with it.  (004-ha.)  *)
(***************************************************************************)
EXTENDS Integers

CONSTANTS Times, Replicas

VARIABLE owners  \* owners[t]: the replicas whose samples at t were ingested

Init == owners = [t \in Times |-> {}]

Claim(r, span) ==
  /\ \A t \in span : owners[t] \subseteq {r}
  /\ owners' = [t \in Times |-> IF t \in span THEN {r} ELSE owners[t]]

Next == \E r \in Replicas, span \in SUBSET Times : Claim(r, span)

Spec == Init /\ [][Next]_owners
=============================================================================
