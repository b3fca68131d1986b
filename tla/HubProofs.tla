------------------------------ MODULE HubProofs ------------------------------
(***************************************************************************)
(* Theorems about the two halves of hub.ts, for every set of connections,  *)
(* processes and slots, every limit and every capacity.                    *)
(*                                                                         *)
(* Admission: as long as no heartbeat is late and no Redis call fails, no  *)
(* more than maxConnections streams are open in the whole cluster.  ZCARD  *)
(* is asked after the claim, and every connection that is open, or has     *)
(* claimed and not yet been told, is a member of the set that no prune can *)
(* remove (Accounted).  So the count that admits a connection is at least  *)
(* the number then open, that one included.                                *)
(*                                                                         *)
(* HubStream: the stream implements SlotDelivery, and one that waits owes  *)
(* nothing.  What is handed over is older than what waits in the queue,    *)
(* which is in the order of emission and newer than what the page shows;   *)
(* so the page never goes back, and a patch it has applied is nowhere on   *)
(* its way again.  Unless the stream has lagged, the newest patch of every *)
(* slot the page is owed is on its way.                                    *)
(***************************************************************************)
EXTENDS Admission, HubStream, FiniteSetTheorems, TLAPS

-----------------------------------------------------------------------------
(* Admission.                                                              *)

\* Whoever holds a slot, or is about to, is a fresh member of the set.
Accounted == Calm => Claiming \subseteq members \ stale

AdmissionInv == AdmissionTypeOK /\ Accounted /\ NeverOvershoots

\* The open connections are finitely many, and fewer when there are fewer.
LEMMA OpenFinite ==
  ASSUME NEW S \in SUBSET Conns, NEW T \in SUBSET S
  PROVE  /\ Cardinality(S) \in Nat
         /\ Cardinality(T) \in Nat
         /\ Cardinality(T) <= Cardinality(S)
<1>1. IsFiniteSet(S)
  BY FS_Subset, AdmissionAssumption
<1>2. IsFiniteSet(T) /\ Cardinality(T) <= Cardinality(S)
  BY <1>1, FS_Subset
<1>3. QED
  BY <1>1, <1>2, FS_CardinalityType

\* The initial states satisfy the inductive invariant.
LEMMA InitAdmission == AdmissionInit => AdmissionInv
<1> SUFFICES ASSUME AdmissionInit PROVE AdmissionInv
  OBVIOUS
<1>1. AdmissionTypeOK
  BY AdmissionAssumption DEF AdmissionInit, AdmissionTypeOK, Phases
<1>2. Open = {} /\ Claiming = {}
  BY DEF AdmissionInit, Open, Claiming
<1>3. Accounted
  BY <1>2 DEF Accounted
<1>4. NeverOvershoots
  BY <1>2, FS_EmptySet, AdmissionAssumption DEF NeverOvershoots
<1>5. QED
  BY <1>1, <1>3, <1>4 DEF AdmissionInv

\* Every step keeps the types.
LEMMA StepAdmissionTypeOK == AdmissionTypeOK /\ [AdmissionNext]_admissionVars => AdmissionTypeOK'
<1> SUFFICES ASSUME AdmissionTypeOK, [AdmissionNext]_admissionVars PROVE AdmissionTypeOK'
  OBVIOUS
<1> USE AdmissionAssumption DEF AdmissionTypeOK
<1>a. ASSUME NEW c \in Conns, NEW s \in Phases, Goto(c, s)
      PROVE  phase' \in [Conns -> Phases]
  BY <1>a DEF Goto
<1>b. ASSUME NEW c \in Conns, Touch(c) \/ Remove(c)
      PROVE  members' \subseteq Conns /\ stale' \subseteq members'
  BY <1>b DEF Touch, Remove
<1>1. ASSUME NEW c \in Conns, Arrive(c) \/ PruneStale(c) \/ Closed(c)
      PROVE  AdmissionTypeOK'
  BY <1>1 DEF Arrive, PruneStale, Closed, Goto, Phases
<1>2. ASSUME NEW c \in Conns,
             \/ Claim(c) \/ HandBack(c) \/ Release(c) \/ Heartbeat(c)
      PROVE  AdmissionTypeOK'
  <2>1. members' \subseteq Conns /\ stale' \subseteq members'
    BY <1>2, <1>b DEF Claim, HandBack, Release, Heartbeat
  <2>2. phase' \in [Conns -> Phases]
    BY <1>2, <1>a DEF Claim, HandBack, Release, Heartbeat, Phases
  <2>3. QED
    BY <1>2, <2>1, <2>2 DEF Claim, HandBack, Release, Heartbeat
<1>3. ASSUME NEW c \in Conns, Count(c) PROVE AdmissionTypeOK'
  BY <1>3 DEF Count, Goto, Phases
<1>4. ASSUME NEW c \in Conns, AdmitFails(c) PROVE AdmissionTypeOK'
  <2>1. Host[c] \in Hosts
    OBVIOUS
  <2>2. count' \in [Hosts -> 0..MaxConnections]
    BY <1>4, <2>1 DEF AdmitFails, LocalRoom
  <2>3. phase' \in [Conns -> Phases]
    BY <1>4, <1>a DEF AdmitFails, Phases
  <2>4. QED
    BY <1>4, <2>2, <2>3 DEF AdmitFails
<1>5. ASSUME NEW c \in Conns, ReleaseLocal(c) PROVE AdmissionTypeOK'
  <2>1. count' \in [Hosts -> 0..MaxConnections]
    BY <1>5 DEF ReleaseLocal
  <2>2. phase' \in [Conns -> Phases]
    BY <1>5, <1>a DEF ReleaseLocal, Phases
  <2>3. QED
    BY <1>5, <2>1, <2>2 DEF ReleaseLocal
<1>6. ASSUME NEW c \in Conns, Ages(c) \/ Stall(c) \/ ReleaseFails(c) PROVE AdmissionTypeOK'
  BY <1>6 DEF Ages, Stall, ReleaseFails, Goto, Phases
<1>7. ASSUME NEW h \in Hosts, Crash(h) PROVE AdmissionTypeOK'
  BY <1>7 DEF Crash, Phases
<1>8. CASE KeyExpires
  BY <1>8 DEF KeyExpires
<1>9. CASE UNCHANGED admissionVars
  BY <1>9 DEF admissionVars
<1>10. QED
  BY <1>1, <1>2, <1>3, <1>4, <1>5, <1>6, <1>7, <1>8, <1>9 DEF AdmissionNext, Admit, Leave

\* A calm state is reached from calm states only.
LEMMA CalmBefore == AdmissionTypeOK /\ [AdmissionNext]_admissionVars /\ Calm' => Calm
  BY DEF AdmissionTypeOK, Calm, AdmissionNext, Admit, Leave, Arrive, PruneStale, Claim, Count,
         HandBack, Release, Closed, ReleaseLocal, Heartbeat, Ages, AdmitFails,
         ReleaseFails, Stall, Crash, KeyExpires, admissionVars

\* Nobody's place in the set is taken away while it counts.
LEMMA StepAccounted == AdmissionTypeOK /\ Accounted /\ [AdmissionNext]_admissionVars => Accounted'
<1> SUFFICES ASSUME AdmissionTypeOK, Accounted, [AdmissionNext]_admissionVars, Calm'
             PROVE  Claiming' \subseteq members' \ stale'
  BY DEF Accounted
<1>a. Calm /\ Claiming \subseteq members \ stale
  BY CalmBefore DEF Accounted
<1>b. phase \in [Conns -> Phases] /\ stalls \in Nat /\ outages \in Nat
  BY DEF AdmissionTypeOK
<1>1. ASSUME NEW c \in Conns, Arrive(c) \/ PruneStale(c) \/ Closed(c) \/ ReleaseLocal(c)
      PROVE  Claiming' \subseteq members' \ stale'
  <2>1. Claiming' \subseteq Claiming
    BY <1>1, <1>b DEF Arrive, PruneStale, Closed, ReleaseLocal, Goto, Claiming
  <2>2. QED
    BY <1>1, <1>a, <2>1 DEF Arrive, PruneStale, Closed, ReleaseLocal
<1>2. ASSUME NEW c \in Conns, Claim(c) \/ Heartbeat(c)
      PROVE  Claiming' \subseteq members' \ stale'
  <2>1. Claiming' \subseteq Claiming \union {c}
    BY <1>2, <1>b DEF Claim, Heartbeat, Goto, Claiming
  <2>2. QED
    BY <1>2, <1>a, <2>1 DEF Claim, Heartbeat, Touch
<1>3. ASSUME NEW c \in Conns, HandBack(c) \/ Release(c)
      PROVE  Claiming' \subseteq members' \ stale'
  <2>1. Claiming' \subseteq Claiming \ {c}
    BY <1>3, <1>b DEF HandBack, Release, Goto, Claiming
  <2>2. QED
    BY <1>3, <1>a, <2>1 DEF HandBack, Release, Remove
<1>4. ASSUME NEW c \in Conns, Count(c)
      PROVE  Claiming' \subseteq members' \ stale'
  <2>1. Claiming' \subseteq Claiming
    BY <1>4, <1>b DEF Count, Goto, Claiming
  <2>2. QED
    BY <1>4, <1>a, <2>1 DEF Count
<1>5. ASSUME NEW c \in Conns, AdmitFails(c) \/ ReleaseFails(c) \/ Stall(c)
      PROVE  FALSE
  BY <1>5, <1>a, <1>b DEF AdmitFails, ReleaseFails, Stall, Calm
<1>6. ASSUME NEW c \in Conns, Ages(c)
      PROVE  Claiming' \subseteq members' \ stale'
  BY <1>6, <1>a DEF Ages, Claiming
<1>7. ASSUME NEW h \in Hosts, Crash(h)
      PROVE  Claiming' \subseteq members' \ stale'
  <2>1. Claiming' \subseteq Claiming
    BY <1>7, <1>b DEF Crash, Claiming
  <2>2. QED
    BY <1>7, <1>a, <2>1 DEF Crash
<1>8. CASE KeyExpires
  BY <1>8, <1>a DEF KeyExpires, Claiming
<1>9. CASE UNCHANGED admissionVars
  BY <1>9, <1>a DEF admissionVars, Claiming
<1>10. QED
  BY <1>1, <1>2, <1>3, <1>4, <1>5, <1>6, <1>7, <1>8, <1>9 DEF AdmissionNext, Admit, Leave

\* A connection opens only if the set, which accounts for every open one and
\* for itself, is within the limit.
LEMMA StepNeverOvershoots == AdmissionInv /\ [AdmissionNext]_admissionVars => NeverOvershoots'
<1> SUFFICES ASSUME AdmissionInv, [AdmissionNext]_admissionVars, Calm'
             PROVE  Cardinality(Open') <= MaxConnections
  BY DEF NeverOvershoots
<1>a. /\ AdmissionTypeOK
      /\ phase \in [Conns -> Phases]
      /\ Claiming \subseteq members
      /\ Cardinality(Open) <= MaxConnections
      /\ MaxConnections \in Nat
  BY CalmBefore, AdmissionAssumption DEF AdmissionInv, AdmissionTypeOK, Accounted, NeverOvershoots
<1>b. ASSUME Open' \subseteq Open PROVE Cardinality(Open') <= MaxConnections
  <2>1. Open \in SUBSET Conns /\ Open' \in SUBSET Open
    BY <1>b DEF Open
  <2>2. /\ Cardinality(Open) \in Nat
        /\ Cardinality(Open') \in Nat
        /\ Cardinality(Open') <= Cardinality(Open)
    BY <2>1, OpenFinite
  <2>3. QED
    BY <1>a, <2>2
<1>1. ASSUME NEW c \in Conns, Count(c)
      PROVE  Cardinality(Open') <= MaxConnections
  <2>1. CASE OverLimit
    <3>1. Open' \subseteq Open
      BY <1>1, <1>a, <2>1 DEF Count, Goto, Open
    <3>2. QED
      BY <3>1, <1>b
  <2>2. CASE ~OverLimit
    <3>1. Open' \subseteq Claiming
      BY <1>1, <1>a, <2>2 DEF Count, Goto, Open, Claiming
    <3>2. members \in SUBSET Conns /\ Open' \in SUBSET members
      BY <1>a, <3>1 DEF AdmissionTypeOK
    <3>3. /\ Cardinality(members) \in Nat
          /\ Cardinality(Open') \in Nat
          /\ Cardinality(Open') <= Cardinality(members)
      BY <3>2, OpenFinite
    <3>4. ~(Cardinality(members) > MaxConnections)
      BY <2>2 DEF OverLimit
    <3>5. QED
      BY <1>a, <3>3, <3>4
  <2>3. QED
    BY <2>1, <2>2
<1>2. ASSUME NEW c \in Conns,
             \/ Arrive(c) \/ PruneStale(c) \/ Claim(c) \/ HandBack(c)
             \/ Release(c) \/ Closed(c) \/ ReleaseLocal(c)
             \/ AdmitFails(c) \/ ReleaseFails(c)
      PROVE  Open' \subseteq Open
  BY <1>2, <1>a DEF Arrive, PruneStale, Claim, HandBack, Release, Closed,
                    ReleaseLocal, AdmitFails, ReleaseFails, Goto, Open
<1>3. ASSUME NEW c \in Conns, Heartbeat(c) \/ Ages(c) \/ Stall(c)
      PROVE  Open' \subseteq Open
  BY <1>3 DEF Heartbeat, Ages, Stall, Open
<1>4. ASSUME NEW h \in Hosts, Crash(h) PROVE Open' \subseteq Open
  BY <1>4, <1>a DEF Crash, Open
<1>5. CASE KeyExpires \/ UNCHANGED admissionVars
  BY <1>5, <1>b DEF KeyExpires, admissionVars, Open
<1>6. QED
  BY <1>1, <1>2, <1>3, <1>4, <1>5, <1>b DEF AdmissionNext, Admit, Leave

\* Every state of Admission has its type.
THEOREM AdmissionTypeCorrect == AdmissionSpec => []AdmissionTypeOK
<1>1. AdmissionInit => AdmissionTypeOK
  BY InitAdmission DEF AdmissionInv
<1>2. QED
  BY <1>1, StepAdmissionTypeOK, PTL DEF AdmissionSpec

\* maxConnections holds across processes, whatever the interleaving of their
\* admissions and whatever crashed connections left in the set.
THEOREM LimitHolds == AdmissionSpec => []NeverOvershoots
<1>1. AdmissionInv /\ [AdmissionNext]_admissionVars => AdmissionInv'
  BY StepAdmissionTypeOK, StepAccounted, StepNeverOvershoots DEF AdmissionInv
<1>2. AdmissionInv => NeverOvershoots
  BY DEF AdmissionInv
<1>3. QED
  BY InitAdmission, <1>1, <1>2, PTL DEF AdmissionSpec

-----------------------------------------------------------------------------
(* The stream of one subscriber.                                           *)

\* The patches for the page wait in the order of their emission.
Sorted(q) == \A i, j \in Mine(q) : i < j => q[i].n < q[j].n

Newest(s) == [slot |-> s, n |-> newest[s]]

\* What is on its way is newer than what the page shows, and goes from old to
\* new.
QueueInv ==
  /\ Active => Sorted(queue)
  /\ \A p \in OnItsWay : shown[p.slot] < p.n /\ p.n <= newest[p.slot]
  /\ pc = "patch" => /\ patch.slot \in Slots
                     /\ \A p \in Waiting(queue) : patch.n < p.n

\* What is owed is on its way, unless the stream has lagged; a stream that
\* waits has an empty queue; one that has ended owes nothing.
OwedInv ==
  /\ Active /\ ~lagged /\ pc # "resync" =>
       \A s \in Slots : Owed(s, shown) => Newest(s) \in OnItsWay
  /\ pc = "waiting" => queue = <<>> /\ ~lagged
  /\ ~Active => \A s \in Slots : ~Owed(s, shown)

IInv == TypeOK /\ QueueInv /\ OwedInv

-----------------------------------------------------------------------------
(* Types.                                                                  *)

\* The initial states satisfy the inductive invariant.
LEMMA InitIInv == Init => IInv
<1> SUFFICES ASSUME Init PROVE IInv
  OBVIOUS
<1>1. TypeOK
  <2>1. queue \in Seq(Patch) /\ Len(queue) <= Capacity
    BY HubAssumption DEF Init
  <2>2. {lagged, keepalive, over, busy} \subseteq BOOLEAN
    BY DEF Init
  <2>3. pc \in States /\ patch \in Patch
    BY HubAssumption DEF Init, States, Patch, Noise
  <2>4. sent \in 0..MaxSent /\ {newest, shown, lost} \subseteq [Slots -> 0..sent]
    BY HubAssumption DEF Init
  <2>5. QED
    BY <2>1, <2>2, <2>3, <2>4 DEF TypeOK
<1>2. ~Active /\ OnItsWay = {} /\ \A s \in Slots : ~Owed(s, shown)
  BY DEF Init, Active, OnItsWay, Owed
<1>3. QED
  BY <1>1, <1>2 DEF Init, IInv, QueueInv, OwedInv

\* The queue with a patch pushed holds patches, and stays bounded.
LEMMA PushedIsQueue ==
  ASSUME NEW q \in Seq(Patch), Len(q) <= Capacity, NEW p \in Patch
  PROVE  Pushed(q, p) \in Seq(Patch) /\ Len(Pushed(q, p)) <= Capacity
<1>1. CASE Len(q) >= Capacity
  <2>1. q # <<>>
    BY <1>1, HubAssumption
  <2>2. Tail(q) \in Seq(Patch) /\ Len(Tail(q)) = Len(q) - 1
    BY <2>1
  <2>3. Pushed(q, p) = Append(Tail(q), p)
    BY <1>1 DEF Pushed
  <2>4. QED
    BY <2>2, <2>3
<1>2. CASE ~(Len(q) >= Capacity)
  <2>1. Pushed(q, p) = Append(q, p)
    BY <1>2 DEF Pushed
  <2>2. QED
    BY <2>1, <1>2, HubAssumption
<1>3. QED
  BY <1>1, <1>2

\* The body of the outer loop and that of the inner one keep the types.
LEMMA LoopTypes ==
  ASSUME TypeOK, NEW q \in Seq(Patch), Len(q) <= Capacity, Loop(q) \/ Deliver(q)
  PROVE  /\ queue' \in Seq(Patch) /\ Len(queue') <= Capacity
         /\ {lagged', keepalive'} \subseteq BOOLEAN
         /\ pc' \in States /\ patch' \in Patch
<1> USE HubAssumption DEF TypeOK, States, Yields
<1>1. CASE Deliver(q)
  <2>1. PICK first \in Mine(q) : Deliver(q)!(first)
    BY <1>1 DEF Deliver
  <2>2. first \in 1..Len(q)
    BY DEF Mine
  <2>3. SubSeq(q, first + 1, Len(q)) \in Seq(Patch)
        /\ Len(SubSeq(q, first + 1, Len(q))) = Len(q) - first
    BY <2>2
  <2>4. QED
    BY <2>1, <2>2, <2>3
<1>2. CASE Wait(q)
  BY <1>2 DEF Wait
<1>3. CASE Close(q)
  BY <1>3 DEF Close
<1>4. CASE Resync
  <2>1. queue' = <<>> /\ lagged' = FALSE /\ pc' = "resync"
        /\ keepalive' = keepalive /\ patch' = patch
    BY <1>4 DEF Resync
  <2>2. <<>> \in Seq(Patch) /\ Len(<<>>) <= Capacity
    OBVIOUS
  <2>3. QED
    BY <2>1, <2>2
<1>5. CASE KeepAlive(q)
  BY <1>5 DEF KeepAlive
<1>6. QED
  BY <1>1, <1>2, <1>3, <1>4, <1>5 DEF Loop

\* The counts of the page keep their types.
LEMMA StepPageTypes ==
  ASSUME TypeOK, [Next]_vars, pc = "patch" => patch.slot \in Slots /\ patch.n <= sent
  PROVE  sent' \in 0..MaxSent /\ {newest', shown', lost'} \subseteq [Slots -> 0..sent']
<1> USE HubAssumption DEF TypeOK
<1>a. ASSUME NEW sh, Forsake(sh) PROVE lost' \in [Slots -> 0..sent]
  BY <1>a DEF Forsake
<1>1. ASSUME NEW s \in Slots, Emit(s)
      PROVE  sent' \in 0..MaxSent /\ {newest', shown', lost'} \subseteq [Slots -> 0..sent']
  <2>1. sent' = sent + 1 /\ sent < MaxSent /\ sent' \in 0..sent' /\ 0..sent \subseteq 0..sent'
    BY <1>1 DEF Emit
  <2>2. newest' \in [Slots -> 0..sent'] /\ shown' \in [Slots -> 0..sent']
    BY <1>1, <2>1 DEF Emit
  <2>3. lost' \in [Slots -> 0..sent']
    BY <1>1, <2>1 DEF Emit
  <2>4. QED
    BY <2>1, <2>2, <2>3
<1>2. CASE Pull
  <2>1. shown' \in [Slots -> 0..sent]
    <3>1. CASE pc = "patch"
      <4>1. patch.n \in 0..sent
        BY <3>1 DEF Patch
      <4>2. QED
        BY <1>2, <3>1, <4>1 DEF Pull
    <3>2. CASE pc # "patch"
      BY <1>2, <3>2 DEF Pull
    <3>3. QED
      BY <3>1, <3>2
  <2>2. lost' \in [Slots -> 0..sent]
    BY <1>2, <1>a DEF Pull
  <2>3. QED
    BY <1>2, <2>1, <2>2 DEF Pull
<1>3. CASE Wake \/ PullResync \/ Return
  BY <1>3, <1>a DEF Wake, PullResync, Return
<1>4. CASE EmitOther \/ Settle \/ KeepaliveFires \/ TimeIsUp \/ Released \/ Connect
  BY <1>4 DEF EmitOther, Settle, KeepaliveFires, TimeIsUp, Released, Connect, pageVars
<1>5. CASE UNCHANGED vars
  BY <1>5 DEF vars, pageVars
<1>6. QED
  BY <1>1, <1>2, <1>3, <1>4, <1>5 DEF Next, Stream

\* Every step keeps the types.
LEMMA StepTypeOK == TypeOK /\ QueueInv /\ [Next]_vars => TypeOK'
<1> SUFFICES ASSUME TypeOK, QueueInv, [Next]_vars PROVE TypeOK'
  OBVIOUS
<1> USE HubAssumption
<1>0. sent' \in 0..MaxSent /\ {newest', shown', lost'} \subseteq [Slots -> 0..sent']
  <2>1. pc = "patch" => patch.slot \in Slots /\ patch.n <= sent
    <3>1. ASSUME pc = "patch" PROVE patch.slot \in Slots /\ patch.n <= newest[patch.slot]
      BY <3>1 DEF QueueInv, OnItsWay, Active
    <3>2. QED
      BY <3>1 DEF TypeOK, Patch
  <2>2. QED
    BY <2>1, StepPageTypes
<1>a. ASSUME NEW p \in Patch, OnPatch(queue, p)
      PROVE  /\ queue' \in Seq(Patch) /\ Len(queue') <= Capacity
             /\ lagged' \in BOOLEAN /\ pc' \in States
  BY <1>a, PushedIsQueue DEF OnPatch, TypeOK, Woken, States
<1>1. ASSUME NEW s \in Slots, Emit(s) PROVE TypeOK'
  <2>1. [slot |-> s, n |-> sent'] \in Patch
    BY <1>0 DEF Patch
  <2>2. /\ queue' \in Seq(Patch) /\ Len(queue') <= Capacity
        /\ lagged' \in BOOLEAN /\ pc' \in States
    <3>1. CASE pc \in {"closing", "closed"}
      BY <1>1, <3>1 DEF Emit, TypeOK
    <3>2. CASE pc \notin {"closing", "closed"}
      BY <1>1, <3>2, <2>1, <1>a DEF Emit
    <3>3. QED
      BY <3>1, <3>2
  <2>3. QED
    BY <1>0, <1>1, <2>2 DEF Emit, TypeOK
<1>2. CASE EmitOther
  <2>1. Noise \in Patch
    BY DEF Noise, Patch
  <2>2. QED
    BY <1>0, <1>2, <2>1, <1>a DEF EmitOther, TypeOK
<1>3. CASE Settle \/ KeepaliveFires \/ TimeIsUp
  BY <1>0, <1>3 DEF Settle, KeepaliveFires, TimeIsUp, TypeOK, streamVars, Woken, States
<1>4. CASE Wake
  BY <1>0, <1>4, LoopTypes DEF Wake, TypeOK
<1>5. CASE Pull
  <2>1. \E q \in Seq(Patch) : Len(q) <= Capacity /\ (Loop(q) \/ Deliver(q))
    <3>1. <<>> \in Seq(Patch) /\ Len(<<>>) <= Capacity
      OBVIOUS
    <3>2. QED
      BY <1>5, <3>1 DEF Pull, Drain, TypeOK
  <2>2. QED
    BY <1>0, <1>5, <2>1, LoopTypes DEF Pull, TypeOK
<1>6. CASE PullResync \/ Return \/ Released
  BY <1>0, <1>6 DEF PullResync, Return, Released, TypeOK, States
<1>7. CASE Connect
  <2>1. <<>> \in Seq(Patch) /\ Len(<<>>) <= Capacity /\ Noise \in Patch
    BY DEF Noise, Patch
  <2>2. {lagged', keepalive', over', busy'} \subseteq BOOLEAN /\ pc' \in States
    BY <1>7 DEF Connect, TypeOK, States, Yields
  <2>3. QED
    BY <1>0, <1>7, <2>1, <2>2 DEF Connect, TypeOK
<1>8. CASE UNCHANGED vars
  BY <1>0, <1>8 DEF vars, streamVars, TypeOK
<1>9. QED
  BY <1>1, <1>2, <1>3, <1>4, <1>5, <1>6, <1>7, <1>8 DEF Next, Stream

-----------------------------------------------------------------------------
(* The queue.                                                              *)

\* new is q with p behind its entries, d of which are dropped in front.
Follows(new, q, p, d) ==
  /\ d \in {0, 1} /\ DOMAIN new = 1..Len(new) /\ Len(new) \in Nat \ {0}
  /\ new[Len(new)] = p /\ Len(new) = Len(q) + 1 - d
  /\ \A i \in 1..(Len(new) - 1) : new[i] = q[i + d]
  /\ d = 1 => Len(q) >= Capacity

\* What is pushed comes last; a full queue loses its first entry.
LEMMA PushedAt ==
  ASSUME NEW q \in Seq(Patch), Len(q) <= Capacity, NEW p \in Patch
  PROVE  \E d : Follows(Pushed(q, p), q, p, d)
<1> DEFINE new == Pushed(q, p)
<1>0. new \in Seq(Patch)
  BY PushedIsQueue
<1>1. CASE Len(q) >= Capacity
  <2>1. Tail(q) \in Seq(Patch) /\ Len(Tail(q)) = Len(q) - 1
    BY <1>1, HubAssumption
  <2>2. \A i \in 1..(Len(q) - 1) : Tail(q)[i] = q[i + 1]
    BY <1>1, HubAssumption
  <2>3. new = Append(Tail(q), p)
    BY <1>1 DEF Pushed
  <2>4. Len(new) = Len(q) /\ new[Len(new)] = p
        /\ \A i \in 1..(Len(q) - 1) : new[i] = Tail(q)[i]
    BY <2>1, <2>3
  <2>5. Len(new) = Len(q) + 1 - 1 /\ \A i \in 1..(Len(new) - 1) : new[i] = q[i + 1]
    BY <2>2, <2>4
  <2>6. Follows(new, q, p, 1)
    BY <1>0, <1>1, <2>4, <2>5, HubAssumption DEF Follows
  <2>7. QED
    BY <2>6
<1>2. CASE ~(Len(q) >= Capacity)
  <2>1. new = Append(q, p)
    BY <1>2 DEF Pushed
  <2>2. Len(new) = Len(q) + 1 - 0 /\ new[Len(new)] = p
        /\ \A i \in 1..(Len(new) - 1) : new[i] = q[i + 0]
    BY <2>1
  <2>3. Follows(new, q, p, 0)
    BY <1>0, <1>2, <2>2 DEF Follows
  <2>4. QED
    BY <2>3
<1>3. QED
  BY <1>1, <1>2

\* What waits for the page once p is pushed, which is newer than what waited or
\* of another route: p, and all that waited unless the queue was full.
LEMMA PushedWaits ==
  ASSUME NEW q \in Seq(Patch), Len(q) <= Capacity, NEW p \in Patch, Sorted(q),
         p.slot # Other => \A x \in Waiting(q) : x.n < p.n
  PROVE  LET new == Pushed(q, p)
             mine == IF p.slot = Other THEN {} ELSE {p}
         IN  /\ Sorted(new)
             /\ mine \subseteq Waiting(new) /\ Waiting(new) \subseteq Waiting(q) \union mine
             /\ Len(q) < Capacity => Waiting(new) = Waiting(q) \union mine
<1> DEFINE new == Pushed(q, p)
           mine == IF p.slot = Other THEN {} ELSE {p}
<1>c. PICK d : Follows(new, q, p, d)
  BY PushedAt
<1> HIDE DEF new
<1>1. /\ d \in {0, 1} /\ Len(new) = Len(q) + 1 - d /\ Len(q) \in Nat
      /\ d = 1 => Len(q) >= Capacity
      /\ DOMAIN new = 1..Len(new) /\ Len(new) \in Nat \ {0} /\ DOMAIN q = 1..Len(q)
      /\ new[Len(new)] = p
  BY <1>c DEF Follows
<1>2. \A i \in 1..(Len(new) - 1) : i + d \in DOMAIN q
  BY <1>1
<1>3. \A i \in 1..(Len(new) - 1) : new[i] = q[i + d]
  BY <1>c DEF Follows
<1>4. Sorted(new)
  <2> SUFFICES ASSUME NEW i \in Mine(new), NEW j \in Mine(new), i < j
               PROVE  new[i].n < new[j].n
    BY DEF Sorted
  <2>1. i \in 1..(Len(new) - 1) /\ i + d \in Mine(q) /\ new[i] = q[i + d]
    <3>1. i \in 1..(Len(new) - 1)
      BY <1>1 DEF Mine
    <3>2. QED
      BY <3>1, <1>2, <1>3 DEF Mine
  <2>2. CASE j = Len(new)
    <3>1. new[j] = p /\ p.slot # Other
      BY <1>1, <2>2 DEF Mine
    <3>2. new[i] \in Waiting(q)
      BY <2>1 DEF Waiting
    <3>3. QED
      BY <3>1, <3>2
  <2>3. CASE j # Len(new)
    <3>1. j \in 1..(Len(new) - 1) /\ i + d < j + d
      BY <1>1, <2>3 DEF Mine
    <3>2. j + d \in Mine(q) /\ new[j] = q[j + d]
      BY <3>1, <1>2, <1>3 DEF Mine
    <3>3. QED
      BY <2>1, <3>1, <3>2 DEF Sorted
  <2>4. QED
    BY <2>2, <2>3
<1>5. mine \subseteq Waiting(new)
  <2>1. ASSUME p.slot # Other PROVE p \in Waiting(new)
    BY <1>1, <2>1 DEF Waiting, Mine
  <2>2. QED
    BY <2>1
<1>6. ASSUME NEW i \in Mine(new) PROVE new[i] \in Waiting(q) \union mine
  <2>1. CASE i = Len(new)
    BY <1>1, <2>1 DEF Mine
  <2>2. CASE i # Len(new)
    <3>1. i \in 1..(Len(new) - 1)
      BY <1>1, <2>2 DEF Mine
    <3>2. i + d \in Mine(q) /\ new[i] = q[i + d]
      BY <3>1, <1>2, <1>3 DEF Mine
    <3>3. QED
      BY <3>2 DEF Waiting
  <2>3. QED
    BY <2>1, <2>2
<1>7. Waiting(new) \subseteq Waiting(q) \union mine
  BY <1>6 DEF Waiting
<1>8. ASSUME Len(q) < Capacity, NEW i \in Mine(q) PROVE q[i] \in Waiting(new)
  <2>1. d = 0 /\ i \in 1..(Len(new) - 1)
    BY <1>1, <1>8, HubAssumption DEF Mine
  <2>2. new[i] = q[i] /\ i \in Mine(new)
    BY <2>1, <1>1, <1>3 DEF Mine
  <2>3. QED
    BY <2>2 DEF Waiting
<1>9. Len(q) < Capacity => Waiting(new) = Waiting(q) \union mine
  <2>1. ASSUME Len(q) < Capacity PROVE Waiting(q) \subseteq Waiting(new)
    BY <1>8, <2>1 DEF Waiting
  <2>2. QED
    BY <2>1, <1>5, <1>7
<1>10. QED
  BY <1>4, <1>5, <1>7, <1>9 DEF new

\* What is handed over waited, is the oldest that did, and does not any more.
LEMMA DeliverTakes ==
  ASSUME NEW q \in Seq(Patch), Sorted(q), Deliver(q)
  PROVE  /\ patch' \in Waiting(q) /\ patch' \in Patch /\ patch'.slot \in Slots
         /\ Waiting(queue') = Waiting(q) \ {patch'}
         /\ \A p \in Waiting(queue') : patch'.n < p.n
         /\ Sorted(queue')
         /\ pc' = "patch" /\ lagged' = lagged
<1>1. PICK first \in Mine(q) : Deliver(q)!(first)
  BY DEF Deliver
<1>2. first \in 1..Len(q) /\ q[first].slot # Other /\ q[first] \in Patch
  BY DEF Mine
<1>3. /\ DOMAIN queue' = 1..(Len(q) - first)
      /\ \A i \in DOMAIN queue' : i + first \in DOMAIN q /\ queue'[i] = q[i + first]
  BY <1>1, <1>2
<1>4. patch' = q[first] /\ patch' \in Waiting(q) /\ patch' \in Patch /\ patch'.slot \in Slots
  BY <1>1, <1>2 DEF Waiting, Patch
<1>5. \A i \in Mine(queue') : i + first \in Mine(q) /\ queue'[i] = q[i + first] /\ i \in Nat \ {0}
  BY <1>2, <1>3 DEF Mine
<1>6. Sorted(queue')
  BY <1>2, <1>5 DEF Sorted
<1>7. \A p \in Waiting(queue') : p \in Waiting(q) /\ patch'.n < p.n
  <2> SUFFICES ASSUME NEW i \in Mine(queue') PROVE queue'[i] \in Waiting(q) /\ patch'.n < queue'[i].n
    BY DEF Waiting
  <2>1. first < i + first
    BY <1>2, <1>5
  <2>2. QED
    BY <1>4, <1>5, <2>1 DEF Sorted, Waiting
<1>8. \A p \in Waiting(q) : p # patch' => p \in Waiting(queue')
  <2> SUFFICES ASSUME NEW i \in Mine(q), q[i] # patch' PROVE q[i] \in Waiting(queue')
    BY DEF Waiting
  <2>1. i \in 1..Len(q) /\ first <= i /\ i # first
    BY <1>1, <1>4 DEF Mine
  <2>2. i - first \in DOMAIN queue' /\ (i - first) + first = i
    BY <1>2, <1>3, <2>1
  <2>3. i - first \in Mine(queue') /\ queue'[i - first] = q[i]
    BY <1>3, <2>2 DEF Mine
  <2>4. QED
    BY <2>3 DEF Waiting
<1>9. patch' \notin Waiting(queue')
  <2>1. patch'.n \in Nat
    BY <1>4, HubAssumption DEF Patch
  <2>2. QED
    BY <1>7, <2>1
<1>10. QED
  BY <1>1, <1>4, <1>6, <1>7, <1>8, <1>9

-----------------------------------------------------------------------------
(* The invariant, and the step of the abstract stream each step is.        *)

Lagging == Active /\ (lagged \/ pc = "resync")

Hand == IF pc = "patch" THEN {patch} ELSE {}

\* An entry for the page is of one of its slots.
LEMMA OfTheSlots ==
  ASSUME TypeOK, QueueInv
  PROVE  \A p \in OnItsWay : p.slot \in Slots /\ p.n \in Nat
<1>1. \A p \in Waiting(queue) : p.slot \in Slots /\ p.n \in Nat
  <2>1. queue \in Seq(Patch)
    BY DEF TypeOK
  <2>2. \A i \in DOMAIN queue : queue[i] \in Patch
    BY <2>1
  <2>3. \A p \in Patch : p.n \in Nat /\ (p.slot # Other => p.slot \in Slots)
    BY HubAssumption DEF Patch
  <2>4. QED
    BY <2>2, <2>3 DEF Waiting, Mine
<1>2. pc = "patch" => patch.slot \in Slots /\ patch.n \in Nat
  BY HubAssumption DEF TypeOK, Patch, QueueInv
<1>3. QED
  BY <1>1, <1>2 DEF OnItsWay

\* A patch is pushed and the generator woken: whatever has been emitted for the
\* page is on its way, or the queue was full and the stream lags.
LEMMA PushStep ==
  ASSUME IInv, Active, NEW p \in Patch, OnPatch(queue, p), patch' = patch,
         p.slot # Other => p.n = sent + 1
  PROVE  LET mine == IF p.slot = Other THEN {} ELSE {p} IN
         /\ Active' /\ Sorted(queue') /\ pc' # "waiting"
         /\ (pc' = "patch") = (pc = "patch") /\ (pc' = "resync") = (pc = "resync")
         /\ pc = "patch" => \A x \in Waiting(queue') : patch.n < x.n
         /\ mine \subseteq OnItsWay' /\ OnItsWay' \subseteq OnItsWay \union mine
         /\ \/ OnItsWay' = OnItsWay \union mine /\ lagged' = lagged
            \/ lagged'
<1> DEFINE mine == IF p.slot = Other THEN {} ELSE {p}
<1> USE DEF IInv
<1>1. /\ queue' = Pushed(queue, p) /\ lagged' = (lagged \/ Overflows) /\ pc' = Woken
  BY DEF OnPatch
<1>2. /\ Active' /\ pc' # "waiting"
      /\ (pc' = "patch") = (pc = "patch") /\ (pc' = "resync") = (pc = "resync")
  BY <1>1 DEF Woken, Active
<1>3. \A x \in OnItsWay : x.n <= sent
  <2>1. \A x \in OnItsWay : x.slot \in Slots /\ x.n \in Nat /\ x.n <= newest[x.slot]
    BY OfTheSlots DEF QueueInv
  <2>2. \A s \in Slots : newest[s] \in 0..sent
    BY DEF TypeOK
  <2>3. sent \in Nat
    BY HubAssumption DEF TypeOK
  <2>4. QED
    BY <2>1, <2>2, <2>3
<1>4. Waiting(queue) \subseteq OnItsWay /\ OnItsWay = Waiting(queue) \union Hand
  BY DEF OnItsWay, Hand
<1>5. p.slot # Other => \A x \in Waiting(queue) : x.n < p.n
  <2>1. sent \in Nat /\ \A x \in OnItsWay : x.n \in Nat
    BY OfTheSlots, HubAssumption DEF TypeOK
  <2>2. QED
    BY <1>3, <1>4, <2>1
<1>6. /\ Sorted(queue')
      /\ mine \subseteq Waiting(queue') /\ Waiting(queue') \subseteq Waiting(queue) \union mine
      /\ Len(queue) < Capacity => Waiting(queue') = Waiting(queue) \union mine
  BY <1>1, <1>5, PushedWaits DEF TypeOK, QueueInv
<1>7. OnItsWay' = Waiting(queue') \union Hand
  BY <1>2 DEF OnItsWay, Hand
<1>8. \/ OnItsWay' = OnItsWay \union mine /\ lagged' = lagged
      \/ lagged'
  <2>1. CASE Overflows
    BY <1>1, <2>1
  <2>2. CASE ~Overflows
    <3>1. Len(queue) < Capacity /\ lagged' = lagged
      BY <1>1, <2>2, HubAssumption DEF Overflows, TypeOK
    <3>2. QED
      BY <3>1, <1>4, <1>6, <1>7
  <2>3. QED
    BY <2>1, <2>2
<1>9. ASSUME pc = "patch", NEW x \in Waiting(queue') PROVE patch.n < x.n
  <2>1. CASE x \in Waiting(queue)
    BY <1>9, <2>1 DEF QueueInv
  <2>2. CASE x = p /\ p.slot # Other
    <3>1. patch \in OnItsWay
      BY <1>9 DEF OnItsWay
    <3>2. patch.n <= sent /\ patch.n \in Nat /\ sent \in Nat
      BY <3>1, <1>3, OfTheSlots, HubAssumption DEF TypeOK
    <3>3. QED
      BY <2>2, <3>2
  <2>3. QED
    BY <1>6, <2>1, <2>2
<1>10. QED
  BY <1>2, <1>4, <1>6, <1>7, <1>8, <1>9

\* A new patch of one of the page's slots.
LEMMA EmitStep ==
  ASSUME IInv, NEW s \in Slots, Emit(s)
  PROVE  QueueInv' /\ OwedInv' /\ Delivery!Emit(s)
<1> USE DEF IInv
<1>t. /\ sent \in Nat /\ sent' = sent + 1 /\ newest' = [newest EXCEPT ![s] = sent']
      /\ newest \in [Slots -> 0..sent] /\ lost \in [Slots -> 0..sent]
      /\ shown \in [Slots -> 0..sent] /\ shown' = shown
  BY HubAssumption DEF Emit, TypeOK
<1>1. CASE ~Active
  <2>1. pc' = pc /\ lost' = [lost EXCEPT ![s] = sent'] /\ UNCHANGED <<queue, lagged, patch>>
    BY <1>1 DEF Emit, Active
  <2>2. ~Active' /\ OnItsWay = {} /\ OnItsWay' = {}
    BY <1>1, <2>1 DEF Active, OnItsWay
  <2>3. \A t \in Slots : ~Owed(t, shown)'
    BY <1>1, <1>t, <2>1 DEF OwedInv, Owed
  <2>4. QueueInv' /\ OwedInv'
    BY <1>1, <2>1, <2>2, <2>3, <1>t DEF QueueInv, OwedInv, Active
  <2>5. Delivery!Emit(s)
    BY <1>1, <1>t, <2>1, <2>2 DEF Delivery!Emit, Active
  <2>6. QED
    BY <2>4, <2>5
<1>2. CASE Active
  <2> DEFINE p == [slot |-> s, n |-> sent']
  <2>1. p \in Patch /\ p.slot # Other /\ p.n = sent + 1
    <3>1. sent' \in 0..MaxSent
      BY <1>t, HubAssumption DEF Emit
    <3>2. QED
      BY <3>1, <1>t, HubAssumption DEF Patch
  <2>2. OnPatch(queue, p) /\ patch' = patch /\ lost' = lost
    BY <1>2 DEF Emit, Active
  <2>3. /\ Active' /\ Sorted(queue') /\ pc' # "waiting"
        /\ (pc' = "patch") = (pc = "patch") /\ (pc' = "resync") = (pc = "resync")
        /\ pc = "patch" => \A x \in Waiting(queue') : patch.n < x.n
        /\ p \in OnItsWay' /\ OnItsWay' \subseteq OnItsWay \union {p}
        /\ \/ OnItsWay' = OnItsWay \union {p} /\ lagged' = lagged
           \/ lagged'
    BY <1>2, <2>1, <2>2, PushStep
  <2>4. ASSUME NEW x \in OnItsWay' PROVE shown'[x.slot] < x.n /\ x.n <= newest'[x.slot]
    <3>1. CASE x = p
      BY <1>t, <3>1
    <3>2. CASE x \in OnItsWay
      <4>1. x.slot \in Slots /\ x.n \in Nat /\ shown[x.slot] < x.n /\ x.n <= newest[x.slot]
        BY <3>2, OfTheSlots DEF QueueInv
      <4>2. newest[x.slot] <= newest'[x.slot] /\ newest[x.slot] \in Nat /\ newest'[x.slot] \in Nat
        BY <1>t, <4>1
      <4>3. QED
        BY <1>t, <4>1, <4>2
    <3>3. QED
      BY <2>3, <3>1, <3>2
  <2>5. QueueInv'
    BY <2>2, <2>3, <2>4 DEF QueueInv
  <2>6. ASSUME ~lagged', pc' # "resync", NEW t \in Slots, Owed(t, shown)'
        PROVE  Newest(t)' \in OnItsWay'
    <3>1. OnItsWay' = OnItsWay \union {p} /\ ~lagged /\ pc # "resync"
      BY <2>3, <2>6
    <3>2. CASE t = s
      BY <1>t, <3>1, <3>2 DEF Newest
    <3>3. CASE t # s
      <4>1. newest'[t] = newest[t] /\ Owed(t, shown)
        BY <1>t, <2>2, <2>6, <3>3 DEF Owed
      <4>2. Newest(t) \in OnItsWay
        BY <1>2, <3>1, <4>1 DEF OwedInv
      <4>3. QED
        BY <3>1, <4>1, <4>2 DEF Newest
    <3>4. QED
      BY <3>2, <3>3
  <2>7. OwedInv'
    BY <2>3, <2>6 DEF OwedInv
  <2>8. Delivery!Emit(s)
    <3> DEFINE S == OnItsWay' \ {p}
    <3>1. p \notin OnItsWay
      <4>1. ASSUME p \in OnItsWay PROVE FALSE
        <5>1. sent + 1 <= newest[s] /\ newest[s] \in 0..sent
          BY <4>1, <1>t, <2>1 DEF QueueInv
        <5>2. QED
          BY <5>1, <1>t
      <4>2. QED
        BY <4>1
    <3>2. S \in SUBSET OnItsWay /\ OnItsWay' = S \union {p}
      BY <2>3
    <3>3. Delivery!Keep(S)
      <4>1. CASE OnItsWay' = OnItsWay \union {p} /\ lagged' = lagged
        <5>1. S = OnItsWay /\ Lagging' = Lagging
          BY <1>2, <2>3, <3>1, <4>1 DEF Lagging
        <5>2. QED
          BY <5>1 DEF Delivery!Keep, Lagging
      <4>2. CASE lagged'
        BY <2>3, <3>2, <4>2 DEF Delivery!Keep
      <4>3. QED
        BY <2>3, <4>1, <4>2
    <3>4. QED
      BY <1>2, <1>t, <2>3, <3>2, <3>3 DEF Delivery!Emit
  <2>9. QED
    BY <2>5, <2>7, <2>8
<1>3. QED
  BY <1>1, <1>2

\* A patch of another route.
LEMMA EmitOtherStep ==
  ASSUME IInv, EmitOther
  PROVE  QueueInv' /\ OwedInv' /\ Delivery!Work
<1> USE DEF IInv
<1>1. /\ Active /\ OnPatch(queue, Noise) /\ UNCHANGED <<patch, pageVars>>
      /\ Noise \in Patch /\ Noise.slot = Other
  BY HubAssumption DEF EmitOther, Active, Noise, Patch
<1>2. /\ Active' /\ Sorted(queue') /\ pc' # "waiting"
      /\ (pc' = "patch") = (pc = "patch") /\ (pc' = "resync") = (pc = "resync")
      /\ pc = "patch" => \A x \in Waiting(queue') : patch.n < x.n
      /\ OnItsWay' \subseteq OnItsWay
      /\ ((OnItsWay' = OnItsWay /\ lagged' = lagged) \/ lagged')
  BY <1>1, PushStep
<1>3. QueueInv'
  BY <1>1, <1>2 DEF QueueInv, pageVars
<1>4. OwedInv'
  BY <1>1, <1>2 DEF OwedInv, pageVars, Owed, Newest
<1>5. Delivery!Keep(OnItsWay')
  BY <1>1, <1>2 DEF Delivery!Keep
<1>6. QED
  BY <1>1, <1>2, <1>3, <1>4, <1>5 DEF Delivery!Work, pageVars

\* The body of the loops, what waits for the page being in q: what is handed
\* over is the oldest, and nothing is left behind unless the stream lags.
LEMMA LoopKeeps ==
  ASSUME NEW q \in Seq(Patch), Sorted(q), Loop(q) \/ Deliver(q)
  PROVE  /\ pc' \in {"patch", "waiting", "closing", "resync", "keepalive"}
         /\ pc' # "closing" =>
              /\ Sorted(queue')
              /\ pc' = "patch" => /\ patch'.slot \in Slots
                                  /\ \A p \in Waiting(queue') : patch'.n < p.n
              /\ \/ OnItsWay' = Waiting(q) /\ lagged' = lagged /\ pc' # "resync"
                 \/ OnItsWay' = {} /\ lagged /\ pc' = "resync"
              /\ pc' = "waiting" => queue' = <<>> /\ ~lagged /\ ~lagged' /\ Waiting(q) = {}
<1>0. Sorted(<<>>) /\ Waiting(<<>>) = {}
  BY DEF Sorted, Waiting, Mine
<1>1. CASE Deliver(q)
  <2>1. /\ patch' \in Waiting(q) /\ patch'.slot \in Slots
        /\ Waiting(queue') = Waiting(q) \ {patch'}
        /\ \A p \in Waiting(queue') : patch'.n < p.n
        /\ Sorted(queue') /\ pc' = "patch" /\ lagged' = lagged
    BY <1>1, DeliverTakes
  <2>2. OnItsWay' = Waiting(q)
    BY <2>1 DEF OnItsWay, Active
  <2>3. QED
    BY <2>1, <2>2
<1>2. CASE Wait(q) /\ ~lagged
  <2>1. /\ Mine(q) = {} /\ queue' = <<>> /\ pc' = "waiting" /\ lagged' = lagged
    BY <1>2 DEF Wait
  <2>2. Waiting(q) = {} /\ OnItsWay' = {}
    BY <1>0, <2>1 DEF OnItsWay, Active, Waiting
  <2>3. QED
    BY <1>0, <1>2, <2>1, <2>2
<1>3. CASE Close(q)
  BY <1>3 DEF Close
<1>4. CASE Resync /\ lagged
  <2>1. queue' = <<>> /\ pc' = "resync"
    BY <1>4 DEF Resync
  <2>2. OnItsWay' = {}
    BY <1>0, <2>1 DEF OnItsWay, Active
  <2>3. QED
    BY <1>0, <1>4, <2>1, <2>2
<1>5. CASE KeepAlive(q)
  <2>1. queue' = q /\ pc' = "keepalive" /\ lagged' = lagged
    BY <1>5 DEF KeepAlive
  <2>2. OnItsWay' = Waiting(q)
    BY <2>1 DEF OnItsWay, Active
  <2>3. QED
    BY <2>1, <2>2
<1>6. QED
  BY <1>1, <1>2, <1>3, <1>4, <1>5 DEF Loop

\* The stream has ended and nothing is owed any more.
LEMMA EndKeeps ==
  ASSUME TypeOK, ~Active', Forsake(shown'), newest' = newest
  PROVE  QueueInv' /\ OwedInv'
<1>1. \A s \in Slots : ~Owed(s, shown)'
  BY DEF Forsake, Owed
<1>2. OnItsWay' = {} /\ pc' \in {"closing", "closed"}
  BY DEF OnItsWay, Active
<1>3. QED
  BY <1>1, <1>2 DEF QueueInv, OwedInv, Active

\* The generator goes on and the page stays as it is.
LEMMA GoOnStep ==
  ASSUME IInv, Active, pc # "patch", pc # "resync", Loop(queue),
         UNCHANGED <<sent, newest, shown>>,
         IF pc' = "closing" THEN Forsake(shown') ELSE UNCHANGED lost
  PROVE  QueueInv' /\ OwedInv' /\ Delivery!Next
<1> USE DEF IInv
<1>1. queue \in Seq(Patch) /\ Sorted(queue) /\ OnItsWay = Waiting(queue)
  BY DEF TypeOK, QueueInv, OnItsWay
<1>2. CASE pc' = "closing"
  <2>1. ~Active' /\ OnItsWay' = {}
    BY <1>2 DEF Active, OnItsWay
  <2>2. Delivery!End
    BY <1>2, <2>1 DEF Delivery!End
  <2>3. QED
    BY <1>2, <2>1, <2>2, EndKeeps DEF Delivery!Next
<1>3. CASE pc' # "closing"
  <2>1. /\ pc' \in {"patch", "waiting", "resync", "keepalive"}
        /\ Sorted(queue')
        /\ pc' = "patch" => /\ patch'.slot \in Slots
                            /\ \A p \in Waiting(queue') : patch'.n < p.n
        /\ \/ OnItsWay' = OnItsWay /\ lagged' = lagged /\ pc' # "resync"
           \/ OnItsWay' = {} /\ lagged /\ pc' = "resync"
        /\ pc' = "waiting" => queue' = <<>> /\ ~lagged /\ ~lagged' /\ OnItsWay = {}
    BY <1>1, <1>3, LoopKeeps
  <2>2. Active'
    BY <2>1 DEF Active
  <2>3. QueueInv'
    BY <2>1 DEF QueueInv
  <2>4. OwedInv'
    BY <1>3, <2>1, <2>2 DEF OwedInv, Owed, Newest
  <2>5. CASE pc' = "waiting"
    <3>1. Lagging' = FALSE /\ Lagging = FALSE /\ OnItsWay = {} /\ OnItsWay' = {}
      BY <2>1, <2>5 DEF Lagging
    <3>2. Delivery!Rest
      BY <2>2, <2>5, <3>1 DEF Delivery!Rest, Lagging
    <3>3. QED
      BY <2>3, <2>4, <3>2 DEF Delivery!Next
  <2>6. CASE pc' # "waiting"
    <3>1. Delivery!Keep(OnItsWay')
      BY <2>1, <2>2 DEF Delivery!Keep
    <3>2. OnItsWay' \in SUBSET OnItsWay
      BY <2>1
    <3>3. Delivery!Work
      BY <2>2, <2>6, <3>1, <3>2 DEF Delivery!Work
    <3>4. QED
      BY <2>3, <2>4, <3>3 DEF Delivery!Next
  <2>7. QED
    BY <2>5, <2>6
<1>4. QED
  BY <1>2, <1>3

\* The page applies what was handed over, the oldest that is on its way.
LEMMA ApplyKeeps ==
  ASSUME IInv, pc = "patch", shown' = [shown EXCEPT ![patch.slot] = patch.n]
  PROVE  /\ OnItsWay \ {patch} = Waiting(queue)
         /\ Delivery!Apply(patch)
         /\ \A p \in Waiting(queue) : shown'[p.slot] < p.n /\ p.n <= newest[p.slot]
         /\ ~lagged => \A s \in Slots : Owed(s, shown') => Newest(s) \in Waiting(queue)
<1> USE DEF IInv
<1>1. OnItsWay = Waiting(queue) \union {patch} /\ Active
  BY DEF OnItsWay, Active
<1>2. /\ patch.slot \in Slots /\ patch.n \in Nat
      /\ \A p \in Waiting(queue) : /\ patch.n < p.n /\ p.slot \in Slots /\ p.n \in Nat
                                   /\ shown[p.slot] < p.n /\ p.n <= newest[p.slot]
      /\ shown[patch.slot] < patch.n /\ patch.n <= newest[patch.slot]
  BY <1>1, OfTheSlots DEF QueueInv
<1>3. patch \notin Waiting(queue)
  BY <1>2
<1>4. Delivery!Apply(patch)
  <2>1. \A q \in OnItsWay : patch.n <= q.n
    BY <1>1, <1>2
  <2>2. QED
    BY <1>1, <2>1 DEF Delivery!Apply
<1>5. \A s \in Slots : shown'[s] = IF s = patch.slot THEN patch.n ELSE shown[s]
  BY DEF TypeOK
<1>6. \A p \in Waiting(queue) : shown'[p.slot] < p.n /\ p.n <= newest[p.slot]
  BY <1>2, <1>5
<1>7. ASSUME ~lagged, NEW s \in Slots, Owed(s, shown') PROVE Newest(s) \in Waiting(queue)
  <2>1. newest[s] \in Nat /\ shown[s] \in Nat
    BY HubAssumption DEF TypeOK
  <2>2. Owed(s, shown)
    BY <1>2, <1>5, <1>7, <2>1 DEF Owed
  <2>3. Newest(s) \in OnItsWay
    BY <1>1, <1>7, <2>2 DEF OwedInv
  <2>4. Newest(s) # patch
    BY <1>5, <1>7 DEF Owed, Newest
  <2>5. QED
    BY <1>1, <2>3, <2>4
<1>8. QED
  BY <1>1, <1>3, <1>4, <1>6, <1>7

\* The consumer pulls: the page has applied the event, and the generator goes on.
LEMMA PullStep ==
  ASSUME IInv, Pull
  PROVE  QueueInv' /\ OwedInv' /\ Delivery!Next
<1> USE DEF IInv
<1>1. CASE pc # "patch"
  BY <1>1, GoOnStep DEF Pull, Active
<1>2. CASE pc = "patch"
  <2>1. /\ Drain /\ shown' = [shown EXCEPT ![patch.slot] = patch.n] /\ Active
        /\ UNCHANGED <<sent, newest>> /\ queue \in Seq(Patch) /\ Sorted(queue)
    BY <1>2 DEF Pull, Active, QueueInv, TypeOK
  <2>2. /\ OnItsWay \ {patch} = Waiting(queue)
        /\ Delivery!Apply(patch) /\ patch \in OnItsWay
        /\ \A p \in Waiting(queue) : shown'[p.slot] < p.n /\ p.n <= newest[p.slot]
        /\ ~lagged => \A s \in Slots : Owed(s, shown') => Newest(s) \in Waiting(queue)
    BY <1>2, <2>1, ApplyKeeps DEF OnItsWay
  <2>3. PICK q \in Seq(Patch) : Sorted(q) /\ Waiting(q) = Waiting(queue) /\ (Loop(q) \/ Deliver(q))
    <3>1. CASE Deliver(queue)
      BY <2>1, <3>1
    <3>2. CASE Mine(queue) = {} /\ Loop(<<>>)
      <4>1. <<>> \in Seq(Patch) /\ Sorted(<<>>) /\ Waiting(<<>>) = Waiting(queue)
        BY <3>2 DEF Sorted, Waiting, Mine
      <4>2. QED
        BY <3>2, <4>1
    <3>3. QED
      BY <2>1, <3>1, <3>2 DEF Drain
  <2>4. CASE pc' = "closing"
    <3>1. ~Active' /\ OnItsWay' = {} /\ Forsake(shown')
      BY <1>2, <2>4 DEF Pull, Active, OnItsWay
    <3>2. Delivery!End
      BY <2>1, <2>2, <2>4, <3>1 DEF Delivery!End
    <3>3. QED
      BY <2>1, <3>1, <3>2, EndKeeps DEF Delivery!Next
  <2>5. CASE pc' # "closing"
    <3>1. /\ pc' \in {"patch", "waiting", "resync", "keepalive"}
          /\ Sorted(queue')
          /\ pc' = "patch" => /\ patch'.slot \in Slots
                              /\ \A p \in Waiting(queue') : patch'.n < p.n
          /\ \/ OnItsWay' = Waiting(queue) /\ lagged' = lagged /\ pc' # "resync"
             \/ OnItsWay' = {} /\ lagged /\ pc' = "resync"
          /\ pc' = "waiting" => queue' = <<>> /\ ~lagged /\ ~lagged' /\ Waiting(queue) = {}
      BY <2>3, <2>5, LoopKeeps
    <3>2. Active' /\ lost' = lost
      BY <2>5, <3>1 DEF Active, Pull
    <3>3. QueueInv'
      BY <2>1, <2>2, <3>1 DEF QueueInv
    <3>4. OwedInv'
      <4>1. ASSUME ~lagged', pc' # "resync", NEW s \in Slots, Owed(s, shown)'
            PROVE  Newest(s)' \in OnItsWay'
        <5>1. Owed(s, shown') /\ ~lagged /\ OnItsWay' = Waiting(queue)
          BY <2>1, <3>1, <3>2, <4>1 DEF Owed
        <5>2. QED
          BY <2>1, <2>2, <5>1 DEF Newest
      <4>2. QED
        BY <3>1, <3>2, <4>1 DEF OwedInv
    <3>5. CASE OnItsWay' = Waiting(queue) /\ lagged' = lagged /\ pc' # "resync"
      <4>1. Lagging' = Lagging /\ (pc' = "waiting" => ~Lagging)
        BY <1>2, <2>1, <3>1, <3>2, <3>5 DEF Lagging
      <4>2. Delivery!Arrive
        BY <2>1, <2>2, <3>1, <3>2, <3>5, <4>1 DEF Delivery!Arrive, Lagging
      <4>3. QED
        BY <3>3, <3>4, <4>2 DEF Delivery!Next
    <3>6. CASE OnItsWay' = {} /\ lagged /\ pc' = "resync"
      <4>1. Mine(queue) = {}
        BY <2>1, <3>6 DEF Drain, Deliver
      <4>2. Waiting(queue) = {} /\ Lagging' = Lagging
        BY <2>1, <3>2, <3>6, <4>1 DEF Waiting, Lagging
      <4>3. Delivery!Arrive
        BY <2>1, <2>2, <3>1, <3>2, <3>6, <4>2 DEF Delivery!Arrive, Lagging
      <4>4. QED
        BY <3>3, <3>4, <4>3 DEF Delivery!Next
    <3>7. QED
      BY <3>1, <3>5, <3>6
  <2>6. QED
    BY <2>4, <2>5
<1>3. QED
  BY <1>1, <1>2

\* Every step keeps the invariant, and is a step of the abstract stream or
\* invisible to it.
LEMMA Step == IInv /\ [Next]_vars => IInv' /\ [Delivery!Next]_(Delivery!vars)
<1> SUFFICES ASSUME IInv, [Next]_vars
             PROVE  IInv' /\ (Delivery!Next \/ UNCHANGED Delivery!vars)
  OBVIOUS
<1>0. TypeOK'
  BY StepTypeOK DEF IInv
<1>a. Delivery!vars = <<Active, sent, newest, shown, OnItsWay, Lagging, pc = "waiting">>
  BY DEF Delivery!vars, Lagging
<1>b. SUFFICES QueueInv' /\ OwedInv' /\ (Delivery!Next \/ UNCHANGED Delivery!vars)
  BY <1>0 DEF IInv
<1>c. ASSUME UNCHANGED <<queue, lagged, patch, pageVars>>, Active' = Active,
             (pc' = "patch") = (pc = "patch"), (pc' = "resync") = (pc = "resync"),
             pc' = "waiting" => pc = "waiting"
      PROVE  /\ QueueInv' /\ OwedInv' /\ OnItsWay' = OnItsWay /\ Lagging' = Lagging
  <2>1. OnItsWay' = OnItsWay /\ Lagging' = Lagging
    BY <1>c DEF OnItsWay, Lagging
  <2>2. UNCHANGED <<sent, newest, shown, lost>>
    BY <1>c DEF pageVars
  <2>3. QueueInv'
    BY <1>c, <2>1, <2>2 DEF QueueInv, IInv
  <2>4. OwedInv'
    BY <1>c, <2>1, <2>2 DEF OwedInv, IInv, Owed, Newest
  <2>5. QED
    BY <2>1, <2>3, <2>4
<1>1. ASSUME NEW s \in Slots, Emit(s) PROVE QueueInv' /\ OwedInv' /\ Delivery!Next
  BY <1>1, EmitStep DEF Delivery!Next
<1>2. CASE EmitOther
  BY <1>2, EmitOtherStep DEF Delivery!Next
<1>3. CASE Settle \/ Released \/ UNCHANGED vars
  <2>1. /\ UNCHANGED <<queue, lagged, patch, pageVars>> /\ Active' = Active
        /\ (pc' = "patch") = (pc = "patch") /\ (pc' = "resync") = (pc = "resync")
        /\ (pc' = "waiting") = (pc = "waiting")
    BY <1>3 DEF Settle, Released, vars, streamVars, Active
  <2>2. Delivery!vars' = Delivery!vars
    <3>1. OnItsWay' = OnItsWay /\ Lagging' = Lagging /\ UNCHANGED <<sent, newest, shown>>
      BY <2>1, <1>c DEF pageVars
    <3>2. QED
      BY <1>a, <2>1, <3>1 DEF Delivery!vars, Lagging
  <2>3. QED
    BY <2>1, <2>2, <1>c
<1>4. CASE KeepaliveFires \/ TimeIsUp
  <2>1. /\ UNCHANGED <<queue, lagged, patch, pageVars>>
        /\ Active /\ Active' /\ pc' # "waiting"
        /\ (pc' = "patch") = (pc = "patch") /\ (pc' = "resync") = (pc = "resync")
    BY <1>4 DEF KeepaliveFires, TimeIsUp, Active, Woken
  <2>2. QueueInv' /\ OwedInv' /\ OnItsWay' = OnItsWay /\ Lagging' = Lagging
    BY <2>1, <1>c
  <2>3. Delivery!Keep(OnItsWay)
    BY <2>2 DEF Delivery!Keep, Lagging
  <2>4. Delivery!Work
    BY <2>1, <2>2, <2>3 DEF Delivery!Work, pageVars
  <2>5. QED
    BY <2>2, <2>4 DEF Delivery!Next
<1>5. CASE Wake
  BY <1>5, GoOnStep DEF Wake, Active
<1>6. CASE Pull
  BY <1>6, PullStep
<1>7. CASE PullResync \/ Return
  <2>1. /\ Active /\ ~Active' /\ OnItsWay' = {} /\ UNCHANGED <<sent, newest, shown>>
        /\ Forsake(shown') /\ pc' # "waiting"
    BY <1>7 DEF PullResync, Return, Active, OnItsWay, Yields
  <2>2. Delivery!End
    BY <2>1 DEF Delivery!End
  <2>3. QED
    BY <2>1, <2>2, EndKeeps DEF IInv, Delivery!Next
<1>8. CASE Connect
  <2>1. /\ queue' = <<>> /\ pc' = "ready" /\ ~lagged' /\ UNCHANGED pageVars
        /\ pc = "closed" /\ ~Active /\ Active'
    BY <1>8 DEF Connect, Active
  <2>2. Sorted(<<>>) /\ OnItsWay' = {} /\ OnItsWay = {} /\ ~Lagging /\ ~Lagging'
    BY <2>1 DEF Sorted, OnItsWay, Waiting, Mine, Lagging
  <2>3. \A s \in Slots : ~Owed(s, shown)'
    BY <2>1 DEF IInv, OwedInv, pageVars, Owed
  <2>4. QueueInv' /\ OwedInv'
    BY <2>1, <2>2, <2>3 DEF QueueInv, OwedInv
  <2>5. Delivery!Open
    BY <2>1, <2>2 DEF Delivery!Open, Lagging, pageVars
  <2>6. QED
    BY <2>4, <2>5 DEF Delivery!Next
<1>9. QED
  BY <1>1, <1>2, <1>3, <1>4, <1>5, <1>6, <1>7, <1>8 DEF Next, Stream

-----------------------------------------------------------------------------
(* Theorems.                                                               *)

\* The inductive invariant holds.
LEMMA Invariance == Spec => []IInv
<1>1. IInv /\ [Next]_vars => IInv'
  BY Step
<1>2. QED
  BY <1>1, InitIInv, PTL DEF Spec

\* The types of the stream and of its page: the queue holds what it may hold.
THEOREM TypeCorrect == Spec => []TypeOK
<1>1. IInv => TypeOK
  BY DEF IInv
<1>2. QED
  BY <1>1, Invariance, PTL

\* A stream that waits owes the page nothing but what was emitted while the
\* page had no stream, or by a stream that has ended.
THEOREM SilenceIsComplete == Spec => []NothingLostSilently
<1>1. IInv => NothingLostSilently
  <2> SUFFICES ASSUME IInv, pc = "waiting" PROVE \A s \in Slots : ~Owed(s, shown)
    BY DEF NothingLostSilently
  <2>1. queue = <<>> /\ ~lagged /\ Active
    BY DEF IInv, OwedInv, Active
  <2>2. OnItsWay = {}
    BY <2>1 DEF OnItsWay, Waiting, Mine
  <2>3. QED
    BY <2>1, <2>2 DEF IInv, OwedInv
<1>2. QED
  BY <1>1, Invariance, PTL

\* The stream with queue, timers and generator implements SlotDelivery.
THEOREM StreamDelivers == Spec => DeliversLatest
<1>1. Init => Delivery!Init
  BY DEF Init, Delivery!Init, OnItsWay, Active
<1>2. IInv /\ [Next]_vars => [Delivery!Next]_(Delivery!vars)
  BY Step
<1>3. QED
  BY <1>1, <1>2, Invariance, PTL DEF Spec, DeliversLatest, Delivery!Spec
=============================================================================
