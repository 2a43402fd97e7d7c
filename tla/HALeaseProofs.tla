--------------------------- MODULE HALeaseProofs ---------------------------
(***************************************************************************)
(* Proofs about HALease, for any number of sessions, replicas and instants *)
(* and any lease_timeout longer than lease_refresh: its invariant, and     *)
(* that it implements LeaseTimeline.                                       *)
(***************************************************************************)
EXTENDS HALease, TLAPS

USE TimesAssumption, LeaseAssumption, NullAssumption
    DEF Times, Bounds, lease, call, Goes, Ends

\* A step is a call that begins or one statement of a session, or changes nothing.
LEMMA NextCases ==
  ASSUME [Next]_vars
  PROVE  \/ \E s \in Sessions :
              \/ \E statement \in {"select", "change"}, r \in Replicas,
                    earliest, latest \in Times :
                   /\ Calls(s, statement, r, earliest, latest)
                   /\ statement = "change" => leader_name # NULL
              \/ SelectNotFound(s) \/ SelectOther(s) \/ SelectOwn(s)
              \/ InsertLease(s) \/ InsertConflict(s)
              \/ ExtendLease(s) \/ ExtendNotFound(s) \/ Recheck(s)
              \/ ChangeLeader(s) \/ ChangeNotFound(s)
              \/ ReturnLease(s) \/ SessionLost(s)
         \/ UNCHANGED vars
  BY DEF Next, CallUpdateLease, CallTryChangeLeader

\* The trigger only adds and closes lines.
LEMMA AuditedLines ==
  ASSUME TypeOK, NEW r \in Replicas, NEW from \in Bounds
  PROVE  Audited(r, from) \subseteq Lines
  BY DEF TypeOK, Audited, LineClosed, Lines

LEMMA TypeStep ==
  ASSUME TypeOK, CallsOK, [Next]_vars
  PROVE  TypeOK'
  <1> USE DEF TypeOK, CallsOK
  <1>1. ASSUME NEW s \in Sessions, NEW statement \in {"select", "change"},
               NEW r \in Replicas, NEW earliest \in Times, NEW latest \in Times,
               Calls(s, statement, r, earliest, latest)
        PROVE  TypeOK'
    BY <1>1 DEF Calls
  <1>2. ASSUME NEW s \in Sessions,
               \/ SelectNotFound(s) \/ SelectOther(s) \/ SelectOwn(s)
               \/ InsertConflict(s) \/ ExtendNotFound(s) \/ ChangeNotFound(s)
               \/ Recheck(s) \/ SessionLost(s)
        PROVE  TypeOK'
    BY <1>2 DEF SelectNotFound, SelectOther, SelectOwn, InsertConflict,
                ExtendNotFound, ChangeNotFound, Recheck, SessionLost
  <1>3. ASSUME NEW s \in Sessions, InsertLease(s)
        PROVE  TypeOK'
    <2>1. Audited(writer[s], min_time[s]) \subseteq Lines
      BY <1>3, AuditedLines DEF InsertLease
    <2> QED
      BY <1>3, <2>1 DEF InsertLease, Ingests, NewTimeout
  <1>4. ASSUME NEW s \in Sessions, ExtendLease(s)
        PROVE  TypeOK'
    BY <1>4 DEF ExtendLease, Ingests, NewTimeout
  <1>5. ASSUME NEW s \in Sessions, ChangeLeader(s)
        PROVE  TypeOK'
    <2>1. Audited(writer[s], lease_until) \subseteq Lines
      BY <1>5, AuditedLines DEF ChangeLeader
    <2> QED
      BY <1>5, <2>1 DEF ChangeLeader, Ingests, NewTimeout
  <1>6. ASSUME NEW s \in Sessions, ReturnLease(s)
        PROVE  TypeOK'
    BY <1>6 DEF ReturnLease, Ingests
  <1>7. ASSUME UNCHANGED vars
        PROVE  TypeOK'
    BY <1>7 DEF vars
  <1> QED
    BY <1>1, <1>2, <1>3, <1>4, <1>5, <1>6, <1>7, NextCases

LEMMA CallsStep ==
  ASSUME TypeOK, CallsOK, [Next]_vars
  PROVE  CallsOK'
  <1> USE DEF TypeOK, CallsOK
  <1>1. ASSUME NEW s \in Sessions, NEW statement \in {"select", "change"},
               NEW r \in Replicas, NEW earliest \in Times, NEW latest \in Times,
               Calls(s, statement, r, earliest, latest)
        PROVE  CallsOK'
    BY <1>1 DEF Calls
  <1>2. ASSUME NEW s \in Sessions,
               \/ SelectNotFound(s) \/ SelectOwn(s) \/ InsertConflict(s)
               \/ ExtendNotFound(s) \/ ChangeNotFound(s) \/ Recheck(s)
        PROVE  CallsOK'
    BY <1>2 DEF SelectNotFound, SelectOwn, InsertConflict, ExtendNotFound,
                ChangeNotFound, Recheck
  <1>3. ASSUME NEW s \in Sessions, Ends(s)
        PROVE  CallsOK'
    BY <1>3
  <1> HIDE DEF Ends
  <1>4. ASSUME UNCHANGED vars
        PROVE  CallsOK'
    BY <1>4 DEF vars
  <1> QED
    BY <1>1, <1>2, <1>3, <1>4, NextCases
       DEF SelectOther, InsertLease, ExtendLease, ChangeLeader, ReturnLease,
           SessionLost

\* Only four statements change the lease or what is ingested.
LEMMA LeaseCases ==
  ASSUME [Next]_vars
  PROVE  \/ \E s \in Sessions : InsertLease(s) \/ ExtendLease(s)
                               \/ ChangeLeader(s) \/ ReturnLease(s)
         \/ UNCHANGED <<lease, accepted>>
  BY NextCases
     DEF vars, Calls, SelectNotFound, SelectOther, SelectOwn, InsertConflict,
         ExtendNotFound, Recheck, ChangeNotFound, SessionLost

LEMMA LeaseStep ==
  ASSUME TypeOK, CallsOK, LeaseOK, [Next]_vars
  PROVE  LeaseOK'
  <1> USE DEF TypeOK, CallsOK, LeaseOK
  <1>1. ASSUME NEW s \in Sessions, InsertLease(s)
        PROVE  LeaseOK'
    BY <1>1 DEF InsertLease, NewTimeout
  <1>2. ASSUME NEW s \in Sessions, ExtendLease(s)
        PROVE  LeaseOK'
    BY <1>2 DEF ExtendLease, NewTimeout, NeedsExtension
  <1>3. ASSUME NEW s \in Sessions, ChangeLeader(s)
        PROVE  LeaseOK'
    BY <1>3 DEF ChangeLeader, NewTimeout, IsExpired
  <1>4. ASSUME NEW s \in Sessions, ReturnLease(s)
        PROVE  LeaseOK'
    BY <1>4 DEF ReturnLease
  <1>5. ASSUME UNCHANGED <<lease, accepted>>
        PROVE  LeaseOK'
    BY <1>5
  <1> QED
    BY <1>1, <1>2, <1>3, <1>4, <1>5, LeaseCases

\* While there is a lease its end only moves on, and a call about to return has
\* found an end beyond its samples.
LEMMA LeaseGrows ==
  ASSUME TypeOK, CallsOK, ReturnsCovered, leader_name # NULL, [Next]_vars
  PROVE  leader_name' # NULL /\ lease_until <= lease_until'
  <1> USE DEF TypeOK, CallsOK
  <1>1. ASSUME NEW s \in Sessions, ExtendLease(s)
        PROVE  leader_name' # NULL /\ lease_until <= lease_until'
    BY <1>1 DEF ExtendLease, NewTimeout, NeedsExtension
  <1>2. ASSUME NEW s \in Sessions, ChangeLeader(s)
        PROVE  leader_name' # NULL /\ lease_until <= lease_until'
    BY <1>2 DEF ChangeLeader, NewTimeout, IsExpired
  <1> QED
    BY <1>1, <1>2, LeaseCases DEF InsertLease, ReturnLease

LEMMA ReturnsStep ==
  ASSUME TypeOK, CallsOK, ReturnsCovered, [Next]_vars
  PROVE  ReturnsCovered'
  <1> USE DEF TypeOK, CallsOK
  <1>1. ASSUME NEW s \in Sessions, NEW statement \in {"select", "change"},
               NEW r \in Replicas, NEW earliest \in Times, NEW latest \in Times,
               Calls(s, statement, r, earliest, latest),
               statement = "change" => leader_name # NULL
        PROVE  ReturnsCovered'
    BY <1>1 DEF Calls, ReturnsCovered
  <1>2. ASSUME NEW s \in Sessions, SelectNotFound(s) \/ InsertConflict(s)
        PROVE  ReturnsCovered'
    BY <1>2 DEF SelectNotFound, InsertConflict, ReturnsCovered
  <1>3. ASSUME NEW s \in Sessions, SelectOwn(s)
        PROVE  ReturnsCovered'
    <2>1. leader_name # NULL
      BY <1>3 DEF SelectOwn
    <2>2. ~NeedsExtension(max_time[s]) => max_time[s] < lease_until
      BY DEF NeedsExtension, NewTimeout
    <2> QED
      BY <1>3, <2>1, <2>2 DEF SelectOwn, ReturnsCovered
  <1>4. ASSUME NEW s \in Sessions, ExtendNotFound(s)
        PROVE  ReturnsCovered'
    BY <1>4 DEF ExtendNotFound, ReturnsCovered
  <1>5. ASSUME NEW s \in Sessions, ChangeNotFound(s)
        PROVE  ReturnsCovered'
    BY <1>5 DEF ChangeNotFound, IsExpired, ReturnsCovered
  <1>6. ASSUME NEW s \in Sessions, Recheck(s)
        PROVE  ReturnsCovered'
    BY <1>6 DEF Recheck, RecheckPasses, IsExpired, ReturnsCovered
  <1>7. ASSUME NEW s \in Sessions, Ends(s)
        PROVE  ReturnsCovered'
    <2>1. leader_name # NULL => leader_name' # NULL /\ lease_until <= lease_until'
      BY LeaseGrows
    <2>2. lease_until' \in Int
      BY TypeStep
    <2> QED
      BY <1>7, <2>1, <2>2 DEF ReturnsCovered
  <1> HIDE DEF Ends
  <1>8. ASSUME UNCHANGED vars
        PROVE  ReturnsCovered'
    BY <1>8 DEF vars, ReturnsCovered
  <1> QED
    BY <1>1, <1>2, <1>3, <1>4, <1>5, <1>6, <1>7, <1>8, NextCases
       DEF SelectOther, InsertLease, ExtendLease, ChangeLeader, ReturnLease,
           SessionLost

\* Whatever is ingested in a step belongs to the lease after the step.
LEMMA IngestedUnderLease ==
  ASSUME TypeOK, CallsOK, ReturnsCovered, [Next]_vars, accepted' # accepted
  PROVE  \E s \in Sessions : /\ writer[s] \in Replicas
                             /\ leader_name' = writer[s]
                             /\ max_time[s] < lease_until'
                             /\ Ingests(s, lease_start')
  <1> USE DEF TypeOK, CallsOK
  <1>1. ASSUME NEW s \in Sessions, InsertLease(s)
        PROVE  /\ writer[s] \in Replicas
               /\ leader_name' = writer[s]
               /\ max_time[s] < lease_until'
               /\ Ingests(s, lease_start')
    BY <1>1 DEF InsertLease, NewTimeout, Ingests
  <1>2. ASSUME NEW s \in Sessions, ExtendLease(s)
        PROVE  /\ writer[s] \in Replicas
               /\ leader_name' = writer[s]
               /\ max_time[s] < lease_until'
               /\ Ingests(s, lease_start')
    BY <1>2 DEF ExtendLease, NewTimeout, Ingests
  <1>3. ASSUME NEW s \in Sessions, ChangeLeader(s)
        PROVE  /\ writer[s] \in Replicas
               /\ leader_name' = writer[s]
               /\ max_time[s] < lease_until'
               /\ Ingests(s, lease_start')
    BY <1>3 DEF ChangeLeader, NewTimeout, Ingests
  <1>4. ASSUME NEW s \in Sessions, ReturnLease(s)
        PROVE  /\ writer[s] \in Replicas
               /\ leader_name' = writer[s]
               /\ max_time[s] < lease_until'
               /\ Ingests(s, lease_start')
    BY <1>4 DEF ReturnLease, ReturnsCovered, Ingests
  <1> QED
    BY <1>1, <1>2, <1>3, <1>4, LeaseCases

LEMMA IngestedInstants ==
  ASSUME TypeOK, CallsOK, NEW s \in Sessions, NEW from \in Int, Ingests(s, from),
         writer[s] \in Replicas, NEW r \in Replicas, NEW t \in accepted'[r]
  PROVE  \/ t \in accepted[r]
         \/ r = writer[s] /\ t \in Times /\ from <= t /\ t <= max_time[s]
  BY DEF TypeOK, CallsOK, Ingests

\* A lease keeps its holder; the next one starts where it ends.
LEMMA LeaseMoves ==
  ASSUME TypeOK, ReturnsCovered, leader_name # NULL, [Next]_vars
  PROVE  \/ lease_start' = lease_until
         \/ lease_start' = lease_start /\ leader_name' = leader_name
  BY LeaseCases
     DEF InsertLease, ExtendLease, ChangeLeader, ReturnLease

LEMMA AcceptedStep ==
  ASSUME TypeOK, CallsOK, LeaseOK, ReturnsCovered, AcceptedByLease, [Next]_vars
  PROVE  AcceptedByLease'
  <1> SUFFICES ASSUME NEW r \in Replicas, NEW t \in accepted'[r]
               PROVE  /\ leader_name' # NULL
                      /\ t < lease_start' \/ (r = leader_name' /\ t < lease_until')
    BY DEF AcceptedByLease
  <1>1. lease_start \in Int /\ lease_until \in Int
    BY DEF TypeOK
  <1>2. lease_start' \in Int /\ lease_until' \in Int
    BY TypeStep DEF TypeOK
  <1>3. CASE t \in accepted[r]
    <2>1. /\ leader_name # NULL
          /\ t \in Times
          /\ t < lease_start \/ (r = leader_name /\ t < lease_until)
      BY <1>3 DEF AcceptedByLease, TypeOK
    <2>2. leader_name' # NULL /\ lease_until <= lease_until'
      BY <2>1, LeaseGrows
    <2>3. lease_start < lease_until
      BY <2>1 DEF LeaseOK
    <2> QED
      BY <1>1, <1>2, <2>1, <2>2, <2>3, LeaseMoves
  <1>4. CASE t \notin accepted[r]
    <2>1. PICK s \in Sessions : /\ writer[s] \in Replicas
                               /\ leader_name' = writer[s]
                               /\ max_time[s] < lease_until'
                               /\ Ingests(s, lease_start')
      BY <1>4, IngestedUnderLease
    <2>2. r = writer[s] /\ t \in Times /\ t <= max_time[s]
      BY <1>2, <1>4, <2>1, IngestedInstants
    <2>3. max_time[s] \in Times
      BY DEF TypeOK
    <2> QED
      BY <1>2, <2>1, <2>2, <2>3
  <1> QED
    BY <1>3, <1>4

\* What a step ingests was not ingested for another replica: other replicas have
\* instants before lease_start' only.
LEMMA IngestedIsFree ==
  ASSUME TypeOK, CallsOK, LeaseOK, ReturnsCovered, AcceptedByLease, [Next]_vars,
         NEW r \in Replicas, NEW t \in accepted'[r], t \notin accepted[r],
         NEW q \in Replicas, q # r
  PROVE  t \notin accepted'[q]
  <1>1. PICK s \in Sessions : /\ writer[s] \in Replicas
                             /\ leader_name' = writer[s]
                             /\ max_time[s] < lease_until'
                             /\ Ingests(s, lease_start')
    BY IngestedUnderLease
  <1>2. lease_start' \in Int
    BY TypeStep DEF TypeOK
  <1>3. r = writer[s] /\ t \in Times /\ lease_start' <= t
    BY <1>1, <1>2, IngestedInstants
  <1>4. SUFFICES ASSUME t \in accepted'[q]
                 PROVE  FALSE
    OBVIOUS
  <1>5. t < lease_start' \/ q = leader_name'
    BY <1>4, AcceptedStep DEF AcceptedByLease
  <1> QED
    BY <1>1, <1>2, <1>3, <1>5

LEMMA DisjointStep ==
  ASSUME TypeOK, CallsOK, LeaseOK, ReturnsCovered, AcceptedByLease,
         AcceptedDisjoint, [Next]_vars
  PROVE  AcceptedDisjoint'
  BY IngestedIsFree DEF AcceptedDisjoint

\* The log changes with the leader only: the open line that begins with the lease
\* is closed, and a line of the new leader begins with the new lease.
LEMMA LogMoves ==
  ASSUME TypeOK, CallsOK, LeaseOK, ReturnsCovered, [Next]_vars
  PROVE  \/ logs' = logs /\ lease_start' = lease_start /\ leader_name' = leader_name
         \/ /\ logs' = logs
            /\ leader_name # NULL
            /\ leader_name' = leader_name
            /\ lease_start' = lease_until
         \/ /\ leader_name = NULL
            /\ logs = {}
            /\ leader_name' \in Replicas
            /\ logs' = {[leader |-> leader_name', start |-> lease_start', until |-> NULL]}
         \/ /\ leader_name # NULL
            /\ leader_name' \in Replicas \ {leader_name}
            /\ lease_start' = lease_until
            /\ logs' = {LineClosed(line) : line \in logs} \cup
                 {[leader |-> leader_name', start |-> lease_start', until |-> NULL]}
  <1> USE DEF TypeOK, CallsOK
  <1>1. ASSUME NEW s \in Sessions, InsertLease(s)
        PROVE  /\ leader_name = NULL
               /\ logs = {}
               /\ leader_name' \in Replicas
               /\ logs' = {[leader |-> leader_name', start |-> lease_start',
                            until |-> NULL]}
    BY <1>1 DEF InsertLease, Audited, LeaseOK
  <1>2. ASSUME NEW s \in Sessions, ExtendLease(s) \/ ReturnLease(s)
        PROVE  logs' = logs /\ lease_start' = lease_start /\ leader_name' = leader_name
    BY <1>2 DEF ExtendLease, ReturnLease
  <1>3. ASSUME NEW s \in Sessions, ChangeLeader(s), writer[s] = leader_name
        PROVE  /\ logs' = logs
               /\ leader_name # NULL
               /\ leader_name' = leader_name
               /\ lease_start' = lease_until
    BY <1>3 DEF ChangeLeader, Audited, ReturnsCovered
  <1>4. ASSUME NEW s \in Sessions, ChangeLeader(s), writer[s] # leader_name
        PROVE  /\ leader_name # NULL
               /\ leader_name' \in Replicas \ {leader_name}
               /\ lease_start' = lease_until
               /\ logs' = {LineClosed(line) : line \in logs} \cup
                    {[leader |-> leader_name', start |-> lease_start', until |-> NULL]}
    BY <1>4 DEF ChangeLeader, Audited, ReturnsCovered
  <1> QED
    BY <1>1, <1>2, <1>3, <1>4, LeaseCases

\* Closing a line leaves its leader and its start alone.
LEMMA ClosedLine ==
  ASSUME TypeOK, NEW line \in logs
  PROVE  /\ LineClosed(line) \in Lines
         /\ LineClosed(line).leader = line.leader
         /\ LineClosed(line).start = line.start
         /\ LineClosed(line).until =
              IF line.leader = leader_name /\ line.start = lease_start
                   /\ line.until = NULL
                THEN lease_until ELSE line.until
  BY DEF TypeOK, Lines, LineClosed

LEMMA LogStep ==
  ASSUME TypeOK, CallsOK, LeaseOK, ReturnsCovered, LogOK, [Next]_vars
  PROVE  LogOK'
  <1> DEFINE new == [leader |-> leader_name', start |-> lease_start', until |-> NULL]
  <1>1. lease_start \in Int /\ lease_until \in Int
        /\ lease_start' \in Int /\ lease_until' \in Int
    BY TypeStep DEF TypeOK
  <1>2. \A line \in logs : line.start \in Int /\ (line.until # NULL => line.until \in Int)
    BY DEF TypeOK, Lines
  <1>3. CASE logs' = logs /\ lease_start' = lease_start /\ leader_name' = leader_name
    BY <1>3 DEF LogOK
  <1>4. CASE /\ logs' = logs
             /\ leader_name # NULL
             /\ leader_name' = leader_name
             /\ lease_start' = lease_until
    <2>1. lease_start < lease_until
      BY <1>4 DEF LeaseOK
    <2> QED
      BY <1>1, <1>2, <1>4, <2>1 DEF LogOK
  <1>5. CASE leader_name = NULL /\ logs' = {new}
    BY <1>1, <1>5 DEF LogOK
  <1>6. CASE /\ leader_name # NULL
             /\ lease_start' = lease_until
             /\ logs' = {LineClosed(line) : line \in logs} \cup {new}
    <2>1. lease_start < lease_until
      BY <1>6 DEF LeaseOK
    <2>2. \A line \in logs : line.start < lease_start'
      BY <1>1, <1>2, <1>6, <2>1 DEF LogOK
    <2>3. ASSUME NEW line \in logs'
          PROVE  /\ line.start <= lease_start'
                 /\ line.until # NULL => line.until <= lease_start'
      <3>1. CASE line = new
        BY <1>1, <3>1
      <3>2. CASE \E old \in logs : line = LineClosed(old)
        <4>1. PICK old \in logs : line = LineClosed(old)
          BY <3>2
        <4>2. /\ line.start = old.start
              /\ line.until = lease_until \/ line.until = old.until
          BY <4>1, ClosedLine
        <4>3. old.until # NULL => old.until <= lease_start
          BY DEF LogOK
        <4> QED
          BY <1>1, <1>2, <1>6, <2>1, <2>2, <4>2, <4>3
      <3> QED
        BY <1>6, <3>1, <3>2
    <2>4. ASSUME NEW line \in logs', NEW other \in logs', line.start = other.start
          PROVE  line = other
      <3>1. \A x \in logs' : x # new => \E old \in logs : x = LineClosed(old)
                                                        /\ x.start = old.start
        BY <1>6, ClosedLine
      <3>2. \A x \in logs' : x # new => x.start < lease_start'
        BY <2>2, <3>1
      <3>3. line = new <=> other = new
        BY <1>1, <2>4, <3>2
      <3>4. CASE line # new /\ other # new
        BY <2>4, <3>1, <3>4 DEF LogOK
      <3> QED
        BY <3>3, <3>4
    <2>5. new \in logs' /\ new.leader = leader_name' /\ new.until = NULL
          /\ new.start <= lease_start'
      BY <1>1, <1>6
    <2> QED
      BY <2>3, <2>4, <2>5 DEF LogOK
  <1> QED
    BY <1>3, <1>4, <1>5, <1>6, LogMoves

LEMMA DisjointLinesStep ==
  ASSUME TypeOK, CallsOK, LeaseOK, ReturnsCovered, LogOK, LogLinesDisjoint,
         [Next]_vars
  PROVE  LogLinesDisjoint'
  <1> DEFINE new == [leader |-> leader_name', start |-> lease_start', until |-> NULL]
             Apart(line, other) ==
               \/ other.start >= line.until
               \/ /\ other.start < line.start
                  /\ other.until = NULL \/ other.until <= line.start
  <1>1. lease_start \in Int /\ lease_until \in Int /\ lease_start' \in Int
    BY TypeStep DEF TypeOK
  <1>2. \A line \in logs : line.start \in Int /\ (line.until # NULL => line.until \in Int)
    BY DEF TypeOK, Lines
  <1>3. CASE logs' = logs
    BY <1>3 DEF LogLinesDisjoint
  <1>4. CASE leader_name = NULL /\ logs' = {new}
    BY <1>4 DEF LogLinesDisjoint
  <1>5. CASE /\ leader_name # NULL
             /\ lease_start' = lease_until
             /\ logs' = {LineClosed(line) : line \in logs} \cup {new}
    <2>1. lease_start < lease_until
      BY <1>5 DEF LeaseOK
    <2>2. ASSUME NEW old \in logs
          PROVE  /\ old.start <= lease_start
                 /\ old.until # NULL => old.until <= lease_start
      BY DEF LogOK
    <2>3. ASSUME NEW line \in logs, NEW other \in logs, line # other,
                 LineClosed(line).until # NULL
          PROVE  Apart(LineClosed(line), LineClosed(other))
      <3>1. line.start # other.start
        BY <2>3 DEF LogOK
      <3>2. line.until # NULL => Apart(line, other)
        BY <2>3 DEF LogLinesDisjoint
      <3>3. /\ LineClosed(line).start = line.start
            /\ LineClosed(other).start = other.start
        BY ClosedLine
      <3>4. CASE line.until = NULL
        <4>1. line.start = lease_start /\ LineClosed(line).until = lease_until
          BY <2>3, <3>4, ClosedLine
        <4>2. other.start < lease_start /\ LineClosed(other).until = other.until
          BY <1>1, <1>2, <2>2, <3>1, <4>1, ClosedLine
        <4> QED
          BY <1>1, <1>2, <2>2, <3>3, <4>1, <4>2
      <3>5. CASE line.until # NULL
        <4>1. LineClosed(line).until = line.until
          BY <3>5, ClosedLine
        <4>2. CASE LineClosed(other).until = other.until
          BY <3>2, <3>3, <3>5, <4>1, <4>2
        <4>3. CASE LineClosed(other).until # other.until
          <5>1. other.start = lease_start
            BY <4>3, ClosedLine
          <5> QED
            BY <1>1, <1>2, <2>2, <3>2, <3>3, <3>5, <4>1, <5>1
        <4> QED
          BY <4>2, <4>3
      <3> QED
        BY <3>4, <3>5
    <2>4. ASSUME NEW line \in logs, LineClosed(line).until # NULL
          PROVE  Apart(LineClosed(line), new)
      <3>1. LineClosed(line).until \in {line.until, lease_until}
        BY ClosedLine
      <3> QED
        BY <1>1, <1>2, <1>5, <2>1, <2>2, <2>4, <3>1
    <2>5. \A line \in logs' : line = new \/ \E old \in logs : line = LineClosed(old)
      BY <1>5
    <2>6. SUFFICES ASSUME NEW line \in logs', NEW other \in logs',
                          line.until # NULL, line # other
                   PROVE  Apart(line, other)
      BY DEF LogLinesDisjoint
    <2>7. PICK old \in logs : line = LineClosed(old)
      BY <2>5, <2>6
    <2>8. CASE other = new
      BY <2>4, <2>6, <2>7, <2>8
    <2>9. CASE \E x \in logs : other = LineClosed(x)
      BY <2>3, <2>6, <2>7, <2>9
    <2> QED
      BY <2>5, <2>8, <2>9
  <1> QED
    BY <1>3, <1>4, <1>5, LogMoves

LEMMA LoggedStep ==
  ASSUME TypeOK, CallsOK, LeaseOK, ReturnsCovered, AcceptedByLease, LogOK,
         AcceptedIsLogged, [Next]_vars
  PROVE  AcceptedIsLogged'
  <1> DEFINE Logs(line, r, t) == /\ line.leader = r
                                 /\ line.start <= t
                                 /\ line.until = NULL \/ t < line.until
  <1> SUFFICES ASSUME NEW r \in Replicas, NEW t \in accepted'[r]
               PROVE  \E line \in logs' : Logs(line, r, t)
    BY DEF AcceptedIsLogged
  <1>1. CASE t \in accepted[r]
    <2>1. PICK line \in logs : Logs(line, r, t)
      BY <1>1 DEF AcceptedIsLogged
    <2>2. CASE logs' = logs
      BY <2>1, <2>2
    <2>3. CASE logs' # logs
      <3>1. LineClosed(line) \in logs'
        BY <2>1, <2>3, LogMoves
      <3>2. t < lease_until \/ line.start # lease_start \/ line.leader # leader_name
        <4>1. /\ t \in Int /\ lease_start \in Int /\ lease_until \in Int
              /\ t < lease_start \/ (r = leader_name /\ t < lease_until)
          BY <1>1 DEF AcceptedByLease, TypeOK
        <4>2. leader_name # NULL => lease_start < lease_until
          BY DEF LeaseOK
        <4>3. leader_name # NULL
          BY <1>1 DEF AcceptedByLease
        <4> QED
          BY <4>1, <4>2, <4>3
      <3>3. Logs(LineClosed(line), r, t)
        BY <2>1, <3>2, ClosedLine
      <3> QED
        BY <3>1, <3>3
    <2> QED
      BY <2>2, <2>3
  <1>2. CASE t \notin accepted[r]
    <2>1. PICK s \in Sessions : /\ writer[s] \in Replicas
                               /\ leader_name' = writer[s]
                               /\ max_time[s] < lease_until'
                               /\ Ingests(s, lease_start')
      BY <1>2, IngestedUnderLease
    <2>2. lease_start' \in Int
      BY TypeStep DEF TypeOK
    <2>3. r = leader_name' /\ t \in Times /\ lease_start' <= t
      BY <1>2, <2>1, <2>2, IngestedInstants
    <2>4. PICK line \in logs' : /\ line.leader = leader_name'
                               /\ line.start <= lease_start'
                               /\ line.until = NULL
      BY <2>3, LogStep DEF LogOK
    <2>5. line.start \in Int
      BY <2>4, TypeStep DEF TypeOK, Lines
    <2> QED
      BY <2>2, <2>3, <2>4, <2>5
  <1> QED
    BY <1>1, <1>2

LEMMA InitIndInv ==
  ASSUME Init
  PROVE  IndInv
  BY DEF Init, IndInv, TypeOK, CallsOK, LeaseOK, ReturnsCovered, AcceptedByLease,
         AcceptedDisjoint, LogOK, LogLinesDisjoint, AcceptedIsLogged

LEMMA StepIndInv ==
  ASSUME IndInv, [Next]_vars
  PROVE  IndInv'
  BY TypeStep, CallsStep, LeaseStep, ReturnsStep, AcceptedStep, DisjointStep,
     LogStep, DisjointLinesStep, LoggedStep
     DEF IndInv

-----------------------------------------------------------------------------
\* The invariant holds in every state of every number of concurrent calls.
THEOREM Invariant == Spec => []IndInv
  <1>1. Init => IndInv
    BY InitIndInv
  <1>2. IndInv /\ [Next]_vars => IndInv'
    BY StepIndInv
  <1> QED
    BY <1>1, <1>2, PTL DEF Spec

\* update_lease, try_change_leader and the trigger keep their types.
THEOREM TypeCorrect == Spec => []TypeOK
  <1>1. IndInv => TypeOK
    BY DEF IndInv
  <1> QED
    BY <1>1, Invariant, PTL

\* Lines of ha_leases_logs that were closed do not overlap.
THEOREM LogIsDisjoint == Spec => []LogLinesDisjoint
  <1>1. IndInv => LogLinesDisjoint
    BY DEF IndInv
  <1> QED
    BY <1>1, Invariant, PTL

\* ha_leases_logs names the replica of every instant ingested.
THEOREM IngestsAreLogged == Spec => []AcceptedIsLogged
  <1>1. IndInv => AcceptedIsLogged
    BY DEF IndInv
  <1> QED
    BY <1>1, Invariant, PTL

\* Leases follow each other without overlap and without gap.
THEOREM LeasesFollow == Spec => LeasesAbut
  <1>1. ASSUME IndInv, [Next]_vars
        PROVE  [leader_name # NULL =>
                  /\ lease_until <= lease_until'
                  /\ lease_start' \in {lease_start, lease_until}
                  /\ leader_name' # leader_name => lease_start' = lease_until]_vars
    BY <1>1, LeaseGrows, LeaseMoves DEF IndInv
  <1> QED
    BY <1>1, Invariant, PTL DEF Spec, LeasesAbut

\* The trigger's INSERT of a new leader's line meets no line with its key.
THEOREM TakeoversAreLogged == Spec => NewLineHasNewKey
  <1>1. ASSUME IndInv, [Next]_vars, leader_name' # leader_name, NEW line \in logs
        PROVE  line.start # lease_start'
    <2>1. leader_name # NULL /\ lease_start' = lease_until
      BY <1>1, LogMoves DEF IndInv
    <2>2. line.start <= lease_start /\ lease_start < lease_until
      BY <1>1, <2>1 DEF IndInv, LogOK, LeaseOK
    <2>3. line.start \in Int /\ lease_start \in Int /\ lease_until \in Int
      BY <1>1 DEF IndInv, TypeOK, Lines
    <2> QED
      BY <2>1, <2>2, <2>3
  <1>2. ASSUME IndInv, [Next]_vars
        PROVE  [leader_name' # leader_name =>
                  ~\E line \in logs :
                     line.leader = leader_name' /\ line.start = lease_start']_vars
    BY <1>1, <1>2
  <1> QED
    BY <1>2, Invariant, PTL DEF Spec, NewLineHasNewKey

\* Calls of update_lease and try_change_leader implement the timeline: each step
\* claims the instants it ingests for one replica, or claims none.
THEOREM ImplementsTimeline == Spec => OneReplicaPerInstant
  <1>1. Init => Timeline!Init
    BY DEF Init, Timeline!Init, Owners
  <1>2. ASSUME IndInv, [Next]_vars
        PROVE  [Timeline!Next]_Owners
    <2>1. CASE accepted' = accepted
      BY <2>1 DEF Owners
    <2>2. CASE accepted' # accepted
      <3>1. PICK s \in Sessions : /\ writer[s] \in Replicas
                                 /\ leader_name' = writer[s]
                                 /\ max_time[s] < lease_until'
                                 /\ Ingests(s, lease_start')
        BY <1>2, <2>2, IngestedUnderLease DEF IndInv
      <3> DEFINE r == writer[s]
                 span == accepted'[r]
      <3>2. /\ accepted \in [Replicas -> SUBSET Times]
            /\ accepted' \in [Replicas -> SUBSET Times]
            /\ \A q \in Replicas \ {r} : accepted'[q] = accepted[q]
            /\ accepted[r] \subseteq span
        BY <1>2, <3>1, StepIndInv DEF IndInv, TypeOK, Ingests
      <3>3. AcceptedDisjoint'
        BY <1>2, StepIndInv DEF IndInv
      <3>4. \A t \in span : Owners[t] \subseteq {r}
        BY <3>1, <3>2, <3>3 DEF Owners, AcceptedDisjoint
      <3>5. Owners' = [t \in Times |-> IF t \in span THEN {r} ELSE Owners[t]]
        BY <3>1, <3>2, <3>3 DEF Owners, AcceptedDisjoint
      <3>6. Timeline!Claim(r, span)
        BY <3>4, <3>5 DEF Timeline!Claim
      <3> QED
        BY <3>1, <3>2, <3>6 DEF Timeline!Next
    <2> QED
      BY <2>1, <2>2
  <1> QED
    BY <1>1, <1>2, Invariant, PTL DEF Spec, OneReplicaPerInstant, Timeline!Spec
=============================================================================
