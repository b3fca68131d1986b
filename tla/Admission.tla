----------------------------- MODULE Admission -----------------------------
(***************************************************************************)
(* Cross-process admission of live subscriptions: the sorted set of        *)
(* connection ids in Redis, scored by last heartbeat, and the counter of   *)
(* the process that takes over when a Redis call fails.                    *)
(*                                                                         *)
(* A score is only ever compared with the staleness limit, so the set is   *)
(* its members and those of them that are stale.                           *)
(***************************************************************************)
EXTENDS Integers, FiniteSets

CONSTANTS
  Conns,           \* connections, each with its own id
  Hosts,           \* server processes
  Host,            \* Host[c]: the process that serves c
  MaxConnections,  \* config.maxConnections
  MaxStalls,       \* bound: heartbeats of live connections that come too late
  MaxOutages       \* bound: Redis calls that fail

ASSUME AdmissionAssumption ==
  /\ IsFiniteSet(Conns)
  /\ Host \in [Conns -> Hosts]
  /\ MaxConnections \in Nat
  /\ MaxStalls \in Nat
  /\ MaxOutages \in Nat

VARIABLES
  members,  \* the sorted set kiln:fsr:connections
  stale,    \* its members whose score is older than staleMs
  phase,    \* where each connection is
  count,    \* activeConnectionsCount of each process
  stalls, outages

admissionVars == <<members, stale, phase, count, stalls, outages>>

\* "gone" is refused or closed or never opened; "dead" died with its process.
Phases == {"gone", "prune", "add", "count", "handback", "open", "closing",
           "local", "dead"}

AdmissionTypeOK ==
  /\ members \subseteq Conns
  /\ stale \subseteq members
  /\ phase \in [Conns -> Phases]
  /\ count \in [Hosts -> 0..MaxConnections]
  /\ stalls \in Nat
  /\ outages \in Nat

AdmissionInit ==
  /\ members = {} /\ stale = {}
  /\ phase = [c \in Conns |-> "gone"]
  /\ count = [h \in Hosts |-> 0]
  /\ stalls = 0 /\ outages = 0

Open == {c \in Conns : phase[c] = "open"}

\* The connections that hold a slot of the set, or are about to.
Claiming == {c \in Conns : phase[c] \in {"count", "handback", "open"}}

Goto(c, s) == phase' = [phase EXCEPT ![c] = s]

Touch(c) == members' = members \union {c} /\ stale' = stale \ {c}
Remove(c) == members' = members \ {c} /\ stale' = stale \ {c}

-----------------------------------------------------------------------------
(* admit(): prune, claim, count, and hand back.  Each Redis call is a step *)
(* of its own, between those of other processes.                           *)

\* A subscription arrives with a new random id.
Arrive(c) ==
  /\ phase[c] \in {"gone", "dead"}
  /\ c \notin members
  /\ Goto(c, "prune")
  /\ UNCHANGED <<members, stale, count, stalls, outages>>

\* (Mistake: nothing removes what a dead process left in the set.)
PruneNothing(c) ==
  /\ phase[c] = "prune"
  /\ Goto(c, "add")
  /\ UNCHANGED <<members, stale, count, stalls, outages>>

\* ZREMRANGEBYSCORE.
PruneStale(c) ==
  /\ phase[c] = "prune"
  /\ members' = members \ stale
  /\ stale' = {}
  /\ Goto(c, "add")
  /\ UNCHANGED <<count, stalls, outages>>

\* ZADD, the claim.
Claim(c) ==
  /\ phase[c] = "add"
  /\ Touch(c)
  /\ Goto(c, "count")
  /\ UNCHANGED <<count, stalls, outages>>

\* (Mistake: the claim itself is not counted.)
OverLimitByOne == Cardinality(members) > MaxConnections + 1

\* count > maxConnections, after the claim.
OverLimit == Cardinality(members) > MaxConnections

\* ZCARD decides.
Count(c) ==
  /\ phase[c] = "count"
  /\ Goto(c, IF OverLimit THEN "handback" ELSE "open")
  /\ UNCHANGED <<members, stale, count, stalls, outages>>

\* ZREM, and the stream answers SERVICE_UNAVAILABLE.
HandBack(c) ==
  /\ phase[c] = "handback"
  /\ Remove(c)
  /\ Goto(c, "gone")
  /\ UNCHANGED <<count, stalls, outages>>

\* (Mistake: the process admits one connection too many.)
LocalRoomPlusOne(h) == count[h] <= MaxConnections

\* admitConnectionLocal has room.
LocalRoom(h) == count[h] < MaxConnections

\* A call of admit() fails: the process's own counter decides.  What reached
\* the set before the failure stays there, without a heartbeat.
AdmitFails(c) ==
  LET h == Host[c] IN
  /\ outages < MaxOutages
  /\ outages' = outages + 1
  /\ phase[c] \in {"prune", "add", "count", "handback"}
  /\ IF LocalRoom(h)
     THEN Goto(c, "local") /\ count' = [count EXCEPT ![h] = @ + 1]
     ELSE Goto(c, "gone") /\ UNCHANGED count
  /\ UNCHANGED <<members, stale, stalls>>

-----------------------------------------------------------------------------
(* The life of a connection.                                               *)

\* The heartbeat timer.  It is cleared only after release() has returned.
Heartbeat(c) ==
  /\ phase[c] \in {"open", "closing"}
  /\ Touch(c)
  /\ UNCHANGED <<phase, count, stalls, outages>>

\* The stream ends, at the latest when its TTL does: release() sends ZREM.
Release(c) ==
  /\ phase[c] = "open"
  /\ Remove(c)
  /\ Goto(c, "closing")
  /\ UNCHANGED <<count, stalls, outages>>

\* The ZREM fails: the member ages out.
ReleaseFails(c) ==
  /\ outages < MaxOutages
  /\ outages' = outages + 1
  /\ phase[c] = "open"
  /\ Goto(c, "closing")
  /\ UNCHANGED <<members, stale, count, stalls>>

\* The timers are cleared.
Closed(c) ==
  /\ phase[c] = "closing"
  /\ Goto(c, "gone")
  /\ UNCHANGED <<members, stale, count, stalls, outages>>

\* releaseConnectionLocal.
ReleaseLocal(c) ==
  LET h == Host[c] IN
  /\ phase[c] = "local"
  /\ count' = [count EXCEPT ![h] = IF @ > 0 THEN @ - 1 ELSE 0]
  /\ Goto(c, "gone")
  /\ UNCHANGED <<members, stale, stalls, outages>>

\* A process dies with its connections; the set keeps their members.
Crash(h) ==
  /\ \E c \in Conns : Host[c] = h /\ phase[c] \notin {"gone", "dead"}
  /\ phase' = [c \in Conns |-> IF Host[c] = h /\ phase[c] # "gone" THEN "dead" ELSE phase[c]]
  /\ count' = [count EXCEPT ![h] = 0]
  /\ UNCHANGED <<members, stale, stalls, outages>>

\* staleMs pass without a heartbeat for a member nobody refreshes.
Ages(c) ==
  /\ c \in members \ stale
  /\ c \notin Claiming
  /\ stale' = stale \union {c}
  /\ UNCHANGED <<members, phase, count, stalls, outages>>

\* The same for a live connection, whose process is stalled.
Stall(c) ==
  /\ stalls < MaxStalls
  /\ stalls' = stalls + 1
  /\ c \in (members \ stale) \intersect Claiming
  /\ stale' = stale \union {c}
  /\ UNCHANGED <<members, phase, count, outages>>

\* The key's own expiry, after two staleMs without any heartbeat.
KeyExpires ==
  /\ members # {}
  /\ members = stale
  /\ members' = {} /\ stale' = {}
  /\ UNCHANGED <<phase, count, stalls, outages>>

-----------------------------------------------------------------------------
Admit(c) == PruneStale(c) \/ Claim(c) \/ Count(c) \/ HandBack(c)

Leave(c) == Release(c) \/ Closed(c) \/ ReleaseLocal(c)

AdmissionNext ==
  \/ \E c \in Conns :
       \/ Arrive(c) \/ Admit(c) \/ Leave(c) \/ Heartbeat(c) \/ Ages(c)
       \/ AdmitFails(c) \/ ReleaseFails(c) \/ Stall(c)
  \/ \E h \in Hosts : Crash(h)
  \/ KeyExpires

AdmissionSpec == AdmissionInit /\ [][AdmissionNext]_admissionVars

\* Redis answers, time passes, every stream has a TTL, and clients reconnect.
AdmissionFairness ==
  /\ \A c \in Conns : /\ WF_admissionVars(Arrive(c)) /\ WF_admissionVars(Admit(c))
                      /\ WF_admissionVars(Leave(c)) /\ WF_admissionVars(Ages(c))
  /\ WF_admissionVars(KeyExpires)

AdmissionFairSpec == AdmissionSpec /\ AdmissionFairness

-----------------------------------------------------------------------------
(* Properties.                                                             *)

\* No heartbeat came too late and no Redis call failed.
Calm == stalls = 0 /\ outages = 0

\* However the admissions of all processes interleave, and whatever crashed
\* connections left behind, no more than maxConnections are open at once.
NeverOvershoots == Calm => Cardinality(Open) <= MaxConnections

\* A member of the set that no live connection refreshes.
Orphan(c) == c \in members /\ phase[c] \in {"gone", "local", "dead"}

\* Crash recovery happens on its own: what a dead process, a failed call or a
\* late heartbeat left in the set does not hold its slot forever.
OrphansReclaimed == \A c \in Conns : Orphan(c) ~> ~Orphan(c)
=============================================================================
