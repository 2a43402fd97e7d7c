------------------------------ MODULE HALease ------------------------------
(***************************************************************************)
(* Leases of a cluster of Prometheus replicas: connectors call             *)
(* update_lease and try_change_leader for the replica whose samples they   *)
(* hold, a trigger keeps the log of leases.  (004-ha.sql.)                 *)
(*                                                                         *)
(* A call is a transaction of several statements under READ COMMITTED:     *)
(* each SELECT sees the row as committed at that moment, each UPDATE       *)
(* evaluates its WHERE on the row's latest version and is the last write   *)
(* of its transaction, which keeps the row locked until it ends; so from   *)
(* the writing statement on a call is one step.  Clusters are independent: *)
(* there is one here.                                                      *)
(***************************************************************************)
EXTENDS Integers

CONSTANTS
  Sessions,   \* database sessions of the connectors
  Replicas,   \* names of the replicas (writer, leader_name)
  MaxTime,    \* bound on the timestamps of the samples
  Timeout,    \* ha_lease_timeout
  Refresh,    \* ha_lease_refresh
  AnyCaller,  \* try_change_leader is called whatever the caller knows of the lease
  NULL

Times  == 0..MaxTime
Bounds == 0..(MaxTime + Timeout)

ASSUME TimesAssumption == MaxTime \in Nat
\* The defaults are 1m and 10s.
ASSUME LeaseAssumption ==
  Timeout \in Nat /\ Refresh \in Nat /\ Refresh < Timeout
ASSUME CallerAssumption == AnyCaller \in BOOLEAN
ASSUME NullAssumption == NULL \notin Int /\ NULL \notin Replicas

VARIABLES
  \* the row of ha_leases; leader_name = NULL while there is none
  leader_name, lease_start, lease_until,
  logs,      \* ha_leases_logs: lines [leader, start, until], until = NULL if open
  \* a session s in a call
  pc,        \* pc[s]: the statement it comes to
  writer,    \* writer[s]: parameter writer, or new_leader
  min_time,  \* min_time[s]: earliest sample of its batch
  max_time,  \* max_time[s]: latest sample of its batch
  accepted   \* history: accepted[r], instants at which samples of r were ingested

lease == <<leader_name, lease_start, lease_until, logs>>
call  == <<writer, min_time, max_time>>
vars  == <<lease, pc, call, accepted>>

Init ==
  /\ leader_name = NULL /\ lease_start = 0 /\ lease_until = 0
  /\ logs = {}
  /\ pc = [s \in Sessions |-> "idle"]
  /\ writer = [s \in Sessions |-> NULL]
  /\ min_time = [s \in Sessions |-> 0]
  /\ max_time = [s \in Sessions |-> 0]
  /\ accepted = [r \in Replicas |-> {}]

-----------------------------------------------------------------------------
(* Operators on the row and the log *)

\* new_lease_timeout; (mutant) one more, as if lease_until were inclusive
NewTimeoutInclusive(latest) == latest + Timeout + 1
NewTimeout(latest) == latest + Timeout

\* IF new_lease_timeout > lease_until + lease_refresh
NeedsExtension(latest) == NewTimeout(latest) > lease_until + Refresh

\* WHERE lease_until <= max_time; (mutant) left out
ExpiredUnchecked(latest) == TRUE
IsExpired(latest) == lease_until <= latest

\* ha_leases_audit_fn closes the line of the lease that ends,
\* (mutant) at its start
LineClosedAtStart(line) ==
  IF line.leader = leader_name /\ line.start = lease_start /\ line.until = NULL
    THEN [line EXCEPT !.until = lease_start] ELSE line
LineClosed(line) ==
  IF line.leader = leader_name /\ line.start = lease_start /\ line.until = NULL
    THEN [line EXCEPT !.until = lease_until] ELSE line

\* and logs the new one, unless the leader stays the same.
Audited(leader, from) ==
  IF leader = leader_name
    THEN logs
    ELSE {LineClosed(line) : line \in logs}
           \cup {[leader |-> leader, start |-> from, until |-> NULL]}

-----------------------------------------------------------------------------
(* Sessions *)

Goes(s, from, to) == pc[s] = from /\ pc' = [pc EXCEPT ![s] = to]

Ends(s) ==
  /\ pc' = [pc EXCEPT ![s] = "idle"]
  /\ writer' = [writer EXCEPT ![s] = NULL]
  /\ min_time' = [min_time EXCEPT ![s] = 0]
  /\ max_time' = [max_time EXCEPT ![s] = 0]

Calls(s, statement, r, earliest, latest) ==
  /\ Goes(s, "idle", statement)
  /\ earliest <= latest
  /\ writer' = [writer EXCEPT ![s] = r]
  /\ min_time' = [min_time EXCEPT ![s] = earliest]
  /\ max_time' = [max_time EXCEPT ![s] = latest]
  /\ UNCHANGED <<lease, accepted>>

\* A connector that is returned its own lease ingests the batch from lease_start.
Ingests(s, from) ==
  accepted' = [accepted EXCEPT ![writer[s]] =
                 @ \cup {t \in min_time[s]..max_time[s] : from <= t}]

CallUpdateLease(s, r, earliest, latest) == Calls(s, "select", r, earliest, latest)

\* It asks for the lead when the lease it read is another's and has expired.  There
\* is a lease, for leases are never deleted.  (Before the first one the UPDATE and
\* the STRICT SELECT find no row, and the call raises an error that changes nothing.)
CallTryChangeLeader(s, r, earliest, latest) ==
  /\ leader_name # NULL
  /\ AnyCaller \/ (leader_name # r /\ IsExpired(latest))
  /\ Calls(s, "change", r, earliest, latest)

\* update_lease, the first SELECT: NOT FOUND,
SelectNotFound(s) ==
  /\ leader_name = NULL
  /\ Goes(s, "select", "insert")
  /\ UNCHANGED <<lease, call, accepted>>

\* LEADER_HAS_CHANGED,
SelectOther(s) ==
  /\ pc[s] = "select"
  /\ leader_name \notin {NULL, writer[s]}
  /\ Ends(s)
  /\ UNCHANGED <<lease, accepted>>

\* or the lease is the writer's, long enough or not.
SelectOwn(s) ==
  /\ leader_name = writer[s]
  /\ Goes(s, "select", IF NeedsExtension(max_time[s]) THEN "extend" ELSE "return")
  /\ UNCHANGED <<lease, call, accepted>>

\* INSERT ... ON CONFLICT DO NOTHING
InsertLease(s) ==
  /\ pc[s] = "insert"
  /\ leader_name = NULL
  /\ leader_name' = writer[s]
  /\ lease_start' = min_time[s]
  /\ lease_until' = NewTimeout(max_time[s])
  /\ logs' = Audited(writer[s], min_time[s])
  /\ Ingests(s, min_time[s])
  /\ Ends(s)

\* and after a conflict the SELECT "needed due to on-conflict clause".
InsertConflict(s) ==
  /\ leader_name # NULL
  /\ Goes(s, "insert", "select")
  /\ UNCHANGED <<lease, call, accepted>>

\* The UPDATE finds the lease still the writer's and still too short,
ExtendLease(s) ==
  /\ pc[s] = "extend"
  /\ leader_name = writer[s]
  /\ NeedsExtension(max_time[s])
  /\ lease_until' = NewTimeout(max_time[s])
  /\ Ingests(s, lease_start)
  /\ Ends(s)
  /\ UNCHANGED <<leader_name, lease_start, logs>>

\* or a concurrent update,
ExtendNotFound(s) ==
  /\ ~(leader_name = writer[s] /\ NeedsExtension(max_time[s]))
  /\ Goes(s, "extend", "recheck")
  /\ UNCHANGED <<lease, call, accepted>>

\* after which it reads the lease again; (mutant) and looks at the leader only
RecheckLeader(s) == leader_name = writer[s]
RecheckPasses(s) == leader_name = writer[s] /\ ~IsExpired(max_time[s])

Recheck(s) ==
  /\ pc[s] = "recheck"
  /\ \/ /\ RecheckPasses(s)
        /\ Goes(s, "recheck", "return")
        /\ UNCHANGED call
     \/ /\ ~RecheckPasses(s)
        /\ Ends(s)
  /\ UNCHANGED <<lease, accepted>>

\* try_change_leader: the UPDATE finds the lease expired,
ChangeLeader(s) ==
  /\ pc[s] = "change"
  /\ IsExpired(max_time[s])
  /\ leader_name' = writer[s]
  /\ lease_start' = lease_until
  /\ lease_until' = NewTimeout(max_time[s])
  /\ logs' = Audited(writer[s], lease_until)
  /\ Ingests(s, lease_until)
  /\ Ends(s)

\* or not.
ChangeNotFound(s) ==
  /\ ~IsExpired(max_time[s])
  /\ Goes(s, "change", "return")
  /\ UNCHANGED <<lease, call, accepted>>

\* Both functions end with a SELECT of whatever the lease is by then.
ReturnLease(s) ==
  /\ pc[s] = "return"
  /\ \/ leader_name = writer[s] /\ Ingests(s, lease_start)
     \/ leader_name # writer[s] /\ UNCHANGED accepted
  /\ Ends(s)
  /\ UNCHANGED lease

\* The connection is lost.
SessionLost(s) ==
  /\ pc[s] # "idle"
  /\ Ends(s)
  /\ UNCHANGED <<lease, accepted>>

Next ==
  \E s \in Sessions :
    \/ \E r \in Replicas, earliest, latest \in Times :
         \/ CallUpdateLease(s, r, earliest, latest)
         \/ CallTryChangeLeader(s, r, earliest, latest)
    \/ SelectNotFound(s) \/ SelectOther(s) \/ SelectOwn(s)
    \/ InsertLease(s) \/ InsertConflict(s)
    \/ ExtendLease(s) \/ ExtendNotFound(s) \/ Recheck(s)
    \/ ChangeLeader(s) \/ ChangeNotFound(s)
    \/ ReturnLease(s) \/ SessionLost(s)

Spec == Init /\ [][Next]_vars

-----------------------------------------------------------------------------
(* Properties *)

Lines == [leader : Replicas, start : Bounds, until : Bounds \cup {NULL}]

\* Type invariant; a lease never reaches beyond the latest sample plus timeout.
TypeOK ==
  /\ leader_name \in Replicas \cup {NULL}
  /\ lease_start \in Bounds
  /\ lease_until \in Bounds
  /\ logs \subseteq Lines
  /\ pc \in [Sessions -> {"idle", "select", "insert", "extend", "recheck",
                          "change", "return"}]
  /\ writer \in [Sessions -> Replicas \cup {NULL}]
  /\ min_time \in [Sessions -> Times]
  /\ max_time \in [Sessions -> Times]
  /\ accepted \in [Replicas -> SUBSET Times]

\* Two lines of the log that were closed do not overlap, and no lease in the log
\* begins inside a closed line: for an instant the log names one past leader.
LogLinesDisjoint ==
  \A line, other \in logs :
    line.until # NULL /\ line # other =>
      \/ other.start >= line.until
      \/ /\ other.start < line.start
         /\ other.until = NULL \/ other.until <= line.start

\* Every instant ingested for a replica lies in a line of the log that names it:
\* from the log one can tell whose samples are in the database.
AcceptedIsLogged ==
  \A r \in Replicas : \A t \in accepted[r] :
    \E line \in logs : /\ line.leader = r
                       /\ line.start <= t
                       /\ line.until = NULL \/ t < line.until

\* An open line of the log is the current leader's ("leader changed, set lease
\* until to existing log line").
OpenLineIsLeaders ==
  \A line \in logs : line.until = NULL => line.leader = leader_name

\* A lease never shrinks, and a new one begins where the last one ends: no sample
\* time is covered by two leases, none falls between two.
LeasesAbut ==
  [][leader_name # NULL =>
       /\ lease_until <= lease_until'
       /\ lease_start' \in {lease_start, lease_until}
       /\ leader_name' # leader_name => lease_start' = lease_until]_vars

\* The log's primary key never rejects the line of a new leader (which would
\* fail the takeover).
NewLineHasNewKey ==
  [][leader_name' # leader_name =>
       ~\E line \in logs : line.leader = leader_name' /\ line.start = lease_start'
    ]_vars

-----------------------------------------------------------------------------
(* Implementation of LeaseTimeline *)

Owners == [t \in Times |-> {r \in Replicas : t \in accepted[r]}]

Timeline == INSTANCE LeaseTimeline WITH owners <- Owners

\* Whatever the interleaving of calls, samples of two replicas are never ingested
\* for one instant of the cluster's timeline.
OneReplicaPerInstant == Timeline!Spec

-----------------------------------------------------------------------------
(* The inductive invariant *)

\* A session's parameters are those of its call.
CallsOK ==
  \A s \in Sessions : pc[s] # "idle" =>
    writer[s] \in Replicas /\ min_time[s] <= max_time[s]

\* A lease that was begun ends after its start.
LeaseOK == IF leader_name = NULL THEN logs = {} ELSE lease_start < lease_until

\* Only calls that found a lease come this far, and a call about to return found
\* one that lasts beyond its samples; leases only get longer.
ReturnsCovered ==
  \A s \in Sessions :
    /\ pc[s] \in {"extend", "recheck", "change", "return"} => leader_name # NULL
    /\ pc[s] = "return" => max_time[s] < lease_until

\* Instants from lease_start on belong to the leader alone, below lease_until.
AcceptedByLease ==
  \A r \in Replicas : \A t \in accepted[r] :
    /\ leader_name # NULL
    /\ t < lease_start \/ (r = leader_name /\ t < lease_until)

\* The leader has an open line, starts are distinct, and no line that was closed
\* goes beyond the lease's start.
LogOK ==
  /\ \A line \in logs : /\ line.start <= lease_start
                        /\ line.until # NULL => line.until <= lease_start
  /\ \A line, other \in logs : line.start = other.start => line = other
  /\ leader_name # NULL =>
       \E line \in logs : /\ line.leader = leader_name
                          /\ line.start <= lease_start
                          /\ line.until = NULL

\* One replica per instant, as a state predicate.
AcceptedDisjoint ==
  \A r, q \in Replicas : r # q => accepted[r] \cap accepted[q] = {}

IndInv == /\ TypeOK
          /\ CallsOK
          /\ LeaseOK
          /\ ReturnsCovered
          /\ AcceptedByLease
          /\ AcceptedDisjoint
          /\ LogOK
          /\ LogLinesDisjoint
          /\ AcceptedIsLogged
=============================================================================
