--------------------------- MODULE FreshnessProofs ---------------------------
(***************************************************************************)
(* Freshness, for every set of slots, writes, processes and requests: the  *)
(* version protocol of kiln_fsr never swallows an invalidation.            *)
(*                                                                         *)
(* VersionGuardsRead is not inductive alone: an UPDATE that bumps version  *)
(* must be known to move it away from every version a tick or a render     *)
(* still carries.  VersionsBehind says so: a carried version is one the    *)
(* row has had, and versions only grow.                                    *)
(*                                                                         *)
(* What a reader gets is another matter: the flag says a value was         *)
(* computed, not that it reached the artifact.                             *)
(***************************************************************************)
EXTENDS Freshness, TLAPS

\* The versions carried by ticks and renders are not ahead of their rows.
VersionsBehind ==
  \A s \in Slots :
    /\ \A p \in Procs :
         s \in watch[p].todo => row[s].known /\ watch[p].ver[s] <= row[s].version
    /\ \A r \in Requests :
         s \in req[r].seen => row[s].known /\ req[r].ver[s] <= row[s].version

\* Only a row that exists can be stale.
StaleRowsExist == \A s \in Slots : row[s].stale => row[s].known

IInv == TypeOK /\ StaleRowsExist /\ VersionsBehind /\ VersionGuardsRead

-----------------------------------------------------------------------------
(* The statements on one row.                                              *)

\* Every statement of FsrStore keeps a row a row, never makes a known row
\* unknown and never lowers the version of a known row.
LEMMA RowStatements ==
  /\ InsertedRow \in Row
  /\ \A r \in Row :
       /\ InvalidatedRow(r) \in Row
       /\ InvalidatedRow(r).known = r.known
       /\ InvalidatedRow(r).version = r.version + 1
       /\ TombstonedRow(r) \in Row
       /\ TombstonedRow(r).known = r.known
       /\ TombstonedRow(r).version = r.version
       /\ ~TombstonedRow(r).stale
       /\ ClaimedRow(r) \in Row
       /\ ClaimedRow(r).known = r.known
       /\ ClaimedRow(r).version = r.version
       /\ ClaimedRow(r).stale = r.stale
       /\ \A v \in Nat :
            /\ FreshRow(r, v) \in Row
            /\ FreshRow(r, v).known = r.known
            /\ FreshRow(r, v).version = r.version + 1
       /\ \A expected \in SUBSET Nat :
            /\ UpsertedRow(r, expected) \in Row
            /\ UpsertedRow(r, expected).known
            /\ r.known => UpsertedRow(r, expected).version = r.version
<1> USE DEF Row
<1>1. InsertedRow \in Row
  BY DEF InsertedRow
<1>2. ASSUME NEW r \in Row
      PROVE  /\ InvalidatedRow(r) \in Row
             /\ InvalidatedRow(r).known = r.known
             /\ InvalidatedRow(r).version = r.version + 1
  <2>1. r.version + 1 \in Nat
    OBVIOUS
  <2>2. QED
    BY <2>1 DEF InvalidatedRow
<1>3. ASSUME NEW r \in Row
      PROVE  /\ TombstonedRow(r) \in Row
             /\ TombstonedRow(r).known = r.known
             /\ TombstonedRow(r).version = r.version
             /\ ~TombstonedRow(r).stale
  BY DEF TombstonedRow
<1>4. ASSUME NEW r \in Row
      PROVE  /\ ClaimedRow(r) \in Row
             /\ ClaimedRow(r).known = r.known
             /\ ClaimedRow(r).version = r.version
             /\ ClaimedRow(r).stale = r.stale
  BY DEF ClaimedRow
<1>5. ASSUME NEW r \in Row, NEW v \in Nat
      PROVE  /\ FreshRow(r, v) \in Row
             /\ FreshRow(r, v).known = r.known
             /\ FreshRow(r, v).version = r.version + 1
  <2>1. (IF r.version = v THEN FALSE ELSE r.stale) \in BOOLEAN
    BY Zenon
  <2>2. r.version + 1 \in Nat
    OBVIOUS
  <2>3. QED
    BY <2>1, <2>2 DEF FreshRow
<1>6. ASSUME NEW r \in Row, NEW expected \in SUBSET Nat
      PROVE  /\ UpsertedRow(r, expected) \in Row
             /\ UpsertedRow(r, expected).known
             /\ r.known => UpsertedRow(r, expected).version = r.version
  <2>1. CASE ~r.known
    BY <2>1, <1>1 DEF InsertedRow, UpsertedRow
  <2>2. CASE r.known
    <3>1. (IF r.version \in expected THEN FALSE ELSE r.stale) \in BOOLEAN
      BY Zenon
    <3>2. QED
      BY <2>2, <3>1 DEF UpsertedRow
  <2>3. QED
    BY <2>1, <2>2
<1> HIDE DEF Row
<1>7. QED
  BY <1>1, <1>2, <1>3, <1>4, <1>5, <1>6

\* What load() returns is a value, and it covers every applied invalidation.
LEMMA LoadCoversDue ==
  ASSUME TypeOK, NEW s \in Slots
  PROVE  /\ LoadFrom(committed) \in Value
         /\ Nothing \in Value
         /\ Due(s) \subseteq LoadFrom(committed)[s]
  BY DEF TypeOK, LoadFrom, Value, Nothing, Due
-----------------------------------------------------------------------------
(* Type correctness.                                                       *)

\* Changing fields of a request to values of their types gives a request.
LEMMA RequestUpdates ==
  \A q \in Req : \A pc \in ReqPc :
    /\ [q EXCEPT !.pc = pc] \in Req
    /\ \A todo \in SUBSET Slots : [q EXCEPT !.pc = pc, !.todo = todo] \in Req
    /\ \A seen \in SUBSET Slots : \A ver \in [Slots -> Nat] :
         [q EXCEPT !.pc = pc, !.seen = seen, !.ver = ver] \in Req
    /\ \A val \in Value :
         /\ [q EXCEPT !.pc = pc, !.val = val] \in Req
         /\ \A floor \in SUBSET Writes :
              [q EXCEPT !.pc = pc, !.val = val, !.floor = floor] \in Req
<1> TAKE q \in Req
<1> TAKE pc \in ReqPc
<1> USE DEF Req
<1>1. [q EXCEPT !.pc = pc] \in Req
  OBVIOUS
<1>2. ASSUME NEW todo \in SUBSET Slots
      PROVE  [q EXCEPT !.pc = pc, !.todo = todo] \in Req
  OBVIOUS
<1>3. ASSUME NEW seen \in SUBSET Slots, NEW ver \in [Slots -> Nat]
      PROVE  [q EXCEPT !.pc = pc, !.seen = seen, !.ver = ver] \in Req
  OBVIOUS
<1>4. ASSUME NEW val \in Value
      PROVE  [q EXCEPT !.pc = pc, !.val = val] \in Req
  OBVIOUS
<1>5. ASSUME NEW val \in Value, NEW floor \in SUBSET Writes
      PROVE  [q EXCEPT !.pc = pc, !.val = val, !.floor = floor] \in Req
  OBVIOUS
<1> HIDE DEF Req
<1>6. QED
  BY <1>1, <1>2, <1>3, <1>4, <1>5

\* The initial states have their types.
LEMMA InitTypeOK == Init => TypeOK
<1> SUFFICES ASSUME Init PROVE TypeOK
  OBVIOUS
<1> USE FreshnessAssumption
<1>1. Nothing \in Value
  BY DEF Nothing, LoadFrom, Value
<1>2. InsertedRow \in Row /\ AbsentRow \in Row
  BY DEF InsertedRow, AbsentRow, Row
<1>3. row \in [Slots -> Row]
  BY <1>2 DEF Init
<1>4. IdleTick \in Tick
  BY <1>1 DEF IdleTick, Tick, WatchPc
<1>5. watch \in [Procs -> Tick]
  BY <1>4 DEF Init
<1>6. req \in [Requests -> Req]
  <2>1. ASSUME NEW p \in Procs
        PROVE  [pc |-> "none", proc |-> p, seen |-> {},
                ver |-> [s \in Slots |-> 0], val |-> Nothing,
                todo |-> {}, hit |-> FALSE, checked |-> FALSE,
                floor |-> {}] \in Req
    BY <1>1 DEF Req, ReqPc
  <2>2. QED
    BY <2>1 DEF Init
<1>7. QED
  BY <1>1, <1>3, <1>5, <1>6 DEF Init, TypeOK

\* So does every state a step leads to.
LEMMA StepTypeOK == TypeOK /\ [Next]_vars => TypeOK'
<1> SUFFICES ASSUME TypeOK, [Next]_vars PROVE TypeOK'
  OBVIOUS
<1> USE FreshnessAssumption
<1> USE DEF TypeOK
<1>a. /\ Nothing \in Value
      /\ LoadFrom(committed) \in Value
  BY DEF Nothing, LoadFrom, Value
<1>b. IdleTick \in Tick
  BY <1>a DEF IdleTick, Tick, WatchPc
<1>1. ASSUME NEW w \in Writes, Commit(w) PROVE TypeOK'
  BY <1>1 DEF Commit
<1>2. ASSUME NEW w \in Writes, Invalidate(w) PROVE TypeOK'
  <2>1. row' \in [Slots -> Row]
    BY <1>2, RowStatements DEF Invalidate
  <2>2. QED
    BY <1>2, <2>1 DEF Invalidate, Announced
<1>3. ASSUME NEW w \in Writes, TombstoneDependents(w) PROVE TypeOK'
  <2>1. row' \in [Slots -> Row]
    BY <1>3, RowStatements DEF TombstoneDependents
  <2>2. QED
    BY <1>3, <2>1 DEF TombstoneDependents, Announced
<1>4. CASE MarkActive \/ ActiveWindowLapses
  BY <1>4 DEF MarkActive, ActiveWindowLapses
<1>5. ASSUME NEW s \in Slots, RevalidateTimerLapses(s) \/ ClaimExpires(s)
      PROVE TypeOK'
  <2>1. /\ [row[s] EXCEPT !.due = TRUE] \in Row
        /\ [row[s] EXCEPT !.claimed = FALSE] \in Row
    BY DEF Row
  <2>2. row' \in [Slots -> Row]
    BY <1>5, <2>1 DEF RevalidateTimerLapses, ClaimExpires
  <2>3. QED
    BY <1>5, <2>2 DEF RevalidateTimerLapses, ClaimExpires
<1>6. ASSUME NEW p \in Procs, ClaimStale(p) PROVE TypeOK'
  <2> DEFINE claim == {s \in Slots : Claimable(s)}
             ver == [s \in Slots |-> row[s].version]
  <2>1. row' \in [Slots -> Row]
    BY <1>6, RowStatements DEF ClaimStale
  <2>2. ver \in [Slots -> Nat]
    BY DEF Row
  <2>3. [IdleTick EXCEPT !.pc = "load", !.claim = claim, !.todo = claim,
                         !.ver = ver] \in Tick
    <3> HIDE DEF claim, ver
    <3>1. claim \in SUBSET Slots
      BY DEF claim
    <3>2. QED
      BY <1>b, <2>2, <3>1 DEF Tick, WatchPc
  <2>4. watch' \in [Procs -> Tick]
    BY <1>6, <2>3 DEF ClaimStale
  <2>5. QED
    BY <1>6, <2>1, <2>4 DEF ClaimStale
<1>7. ASSUME NEW p \in Procs, RunLoader(p) PROVE TypeOK'
  <2>1. [watch[p] EXCEPT !.pc = "snapshot", !.val = LoadFrom(committed)] \in Tick
    <3> DEFINE tick == watch[p]
               val == LoadFrom(committed)
    <3>1. tick \in Tick /\ val \in Value
      BY <1>a
    <3> HIDE DEF tick, val
    <3>2. [tick EXCEPT !.pc = "snapshot", !.val = val] \in Tick
      BY <3>1 DEF Tick, WatchPc
    <3>3. QED
      BY <3>2 DEF tick, val
  <2>2. watch' \in [Procs -> Tick]
    BY <1>7, <2>1 DEF RunLoader
  <2>3. QED
    BY <1>7, <2>2 DEF RunLoader
<1>8. ASSUME NEW p \in Procs, ReadSnapshot(p) PROVE TypeOK'
  <2>1. watch' \in [Procs -> Tick]
    BY <1>8, <1>b DEF ReadSnapshot, Tick, WatchPc
  <2>2. QED
    BY <1>8, <2>1 DEF ReadSnapshot
<1>c. ASSUME NEW p \in Procs, NEW s \in Slots, Emit(p, s)
      PROVE  pushed' \in Value /\ streamed' \subseteq WriteBack
  <2>1. watch[p] \in Tick
    OBVIOUS
  <2>2. pushed' \in Value
    BY <1>c, <2>1 DEF Emit, Value, Tick
  <2>3. watch[p].val[s] \in SUBSET Writes
    BY <2>1 DEF Tick, Value
  <2>4. Queued(s, watch[p].val[s]) \in WriteBack
    BY <2>3, <1>a DEF Queued, WriteBack
  <2>5. QED
    BY <1>c, <2>2, <2>4 DEF Emit, Streamed
<1>9. ASSUME NEW p \in Procs, NEW s \in Slots,
             MarkFresh(p, s) \/ MarkFails(p, s)
      PROVE  TypeOK'
  <2>1. watch[p] \in Tick /\ watch[p].ver[s] \in Nat
    BY DEF Tick
  <2>2. row' \in [Slots -> Row]
    <3>1. CASE MarkFresh(p, s)
      BY <3>1, <2>1, RowStatements DEF MarkFresh
    <3>2. CASE MarkFails(p, s)
      BY <3>2 DEF MarkFails
    <3>3. QED
      BY <1>9, <3>1, <3>2
  <2>3. pushed' \in Value /\ streamed' \subseteq WriteBack
    BY <1>9, <1>c DEF MarkFresh, MarkFails
  <2>4. watch' \in [Procs -> Tick]
    <3>1. CASE MarkFresh(p, s)
      BY <3>1, <2>1 DEF MarkFresh, Tick, WatchPc
    <3>2. CASE MarkFails(p, s)
      BY <3>2, <1>b DEF MarkFails
    <3>3. QED
      BY <1>9, <3>1, <3>2
  <2>5. QED
    BY <1>9, <2>2, <2>3, <2>4 DEF MarkFresh, MarkFails
<1>10. ASSUME NEW p \in Procs, WriteSnapshot(p) PROVE TypeOK'
  <2>1. artifact' \in Value
    BY <1>10 DEF WriteSnapshot, Value, Tick
  <2>2. watch' \in [Procs -> Tick]
    BY <1>10, <1>b DEF WriteSnapshot
  <2>3. QED
    BY <1>10, <2>1, <2>2 DEF WriteSnapshot
<1>11. ASSUME NEW p \in Procs, LoaderThrows(p) \/ RefreshFails(p)
       PROVE TypeOK'
  BY <1>11, <1>b DEF LoaderThrows, RefreshFails
<1>12. ASSUME NEW p \in Procs, Restart(p) PROVE TypeOK'
  <2>1. req' \in [Requests -> Req]
    <3>1. "lost" \in ReqPc
      BY DEF ReqPc
    <3>2. \A r \in Requests : [req[r] EXCEPT !.pc = "lost"] \in Req
      BY <3>1, RequestUpdates
    <3>3. QED
      BY <1>12, <3>2 DEF Restart
  <2>2. QED
    BY <1>12, <1>b, <2>1 DEF Restart
<1>13. ASSUME NEW r \in Requests, Arrive(r) PROVE TypeOK'
  <2>1. req' \in [Requests -> Req]
    <3> DEFINE val == IF baked THEN artifact ELSE Nothing
    <3>1. PICK pc \in IF baked THEN {"check"} ELSE {"versions", "answer"} :
            req' = [req EXCEPT ![r].pc = pc, ![r].val = val, ![r].floor = applied]
      BY <1>13 DEF Arrive
    <3>2. req' = [req EXCEPT ![r] =
                    [req[r] EXCEPT !.pc = pc, !.val = val, !.floor = applied]]
      BY <3>1
    <3>6. pc \in ReqPc /\ val \in Value /\ applied \in SUBSET Writes
      BY <1>a DEF ReqPc
    <3> HIDE DEF val
    <3>3. req[r] \in Req
      OBVIOUS
    <3>4. [req[r] EXCEPT !.pc = pc, !.val = val, !.floor = applied] \in Req
      BY <3>6, <3>3, RequestUpdates, Zenon
    <3>5. QED
      BY <3>2, <3>4
  <2>2. QED
    BY <1>13, <2>1 DEF Arrive
<1>14. ASSUME NEW r \in Requests, CheckDormant(r) PROVE TypeOK'
  <2>1. PICK local \in {active, FALSE}, kind \in {"html", "listed", "json"} :
          LET rebuild == ~local /\ DormantStale
              serve == ~rebuild /\ kind # "html"
              fresh == IF kind = "json" THEN "answer" ELSE "versions" IN
          /\ baked' = (baked /\ ~rebuild)
          /\ req' = [req EXCEPT ![r].pc = IF serve THEN "done" ELSE fresh,
                                ![r].val = IF serve THEN @ ELSE Nothing,
                                ![r].hit = ~rebuild,
                                ![r].checked = ~local]
    BY <1>14 DEF CheckDormant
  <2> DEFINE rebuild == ~local /\ DormantStale
             serve == ~rebuild /\ kind # "html"
             fresh == IF kind = "json" THEN "answer" ELSE "versions"
  <2>2. (~rebuild) \in BOOLEAN /\ (~local) \in BOOLEAN
    OBVIOUS
  <2>3. (IF serve THEN req[r].val ELSE Nothing) \in Value
    BY <1>a DEF Req
  <2>4. req' \in [Requests -> Req]
    <3> DEFINE pc == IF serve THEN "done" ELSE fresh
               val == IF serve THEN req[r].val ELSE Nothing
               hit == ~rebuild
               checked == ~local
    <3>1. pc \in ReqPc /\ val \in Value /\ hit \in BOOLEAN /\ checked \in BOOLEAN
      BY <2>2, <2>3 DEF ReqPc
    <3>2. req' = [req EXCEPT ![r] =
                    [req[r] EXCEPT !.pc = pc, !.val = val, !.hit = hit,
                                   !.checked = checked]]
      BY <2>1
    <3> HIDE DEF pc, val, hit, checked
    <3>3. [req[r] EXCEPT !.pc = pc, !.val = val, !.hit = hit,
                         !.checked = checked] \in Req
      <4> DEFINE q == req[r]
      <4>1. q \in Req
        OBVIOUS
      <4> HIDE DEF q
      <4>2. [q EXCEPT !.pc = pc, !.val = val, !.hit = hit,
                      !.checked = checked] \in Req
        BY <3>1, <4>1 DEF Req
      <4>3. QED
        BY <4>2 DEF q
    <3>4. QED
      BY <3>2, <3>3
  <2>5. artifact' \in Value
    BY <1>14, <1>a DEF CheckDormant
  <2>6. QED
    BY <1>14, <2>1, <2>4, <2>5 DEF CheckDormant
<1>15. ASSUME NEW r \in Requests, FetchSlotVersions(r) PROVE TypeOK'
  <2>1. [s \in Slots |-> row[s].version] \in [Slots -> Nat]
    BY DEF Row
  <2>2. {s \in Slots : row[s].known} \in SUBSET Slots
    OBVIOUS
  <2>3. req' \in [Requests -> Req]
    <3> DEFINE seen == {s \in Slots : row[s].known}
               ver == [s \in Slots |-> row[s].version]
    <3>1. req' = [req EXCEPT ![r] =
                    [req[r] EXCEPT !.pc = "load", !.seen = seen, !.ver = ver]]
      BY <1>15 DEF FetchSlotVersions
    <3> HIDE DEF seen, ver
    <3>2. [req[r] EXCEPT !.pc = "load", !.seen = seen, !.ver = ver] \in Req
      <4>1. "load" \in ReqPc
        BY DEF ReqPc
      <4>2. QED
        BY <2>1, <2>2, <4>1, RequestUpdates, Zenon DEF seen, ver
    <3>3. QED
      BY <3>1, <3>2
  <2>4. QED
    BY <1>15, <2>3 DEF FetchSlotVersions
<1>16. ASSUME NEW r \in Requests, LoadPageProps(r) PROVE TypeOK'
  <2>1. req' \in [Requests -> Req]
    <3>1. req' = [req EXCEPT ![r] =
                    [req[r] EXCEPT !.pc = "bake", !.val = LoadFrom(committed)]]
      BY <1>16 DEF LoadPageProps
    <3>2. [req[r] EXCEPT !.pc = "bake", !.val = LoadFrom(committed)] \in Req
      <4>1. "bake" \in ReqPc
        BY DEF ReqPc
      <4>2. QED
        BY <1>a, <4>1, RequestUpdates, Zenon
    <3>3. QED
      BY <3>1, <3>2
  <2>2. registered' \in [Procs -> BOOLEAN]
    BY <1>16 DEF LoadPageProps
  <2>3. QED
    BY <1>16, <2>1, <2>2 DEF LoadPageProps
<1>17. ASSUME NEW r \in Requests, Bake(r) PROVE TypeOK'
  <2>1. req' \in [Requests -> Req]
    <3>1. req' = [req EXCEPT ![r] = [req[r] EXCEPT !.pc = "upsert", !.todo = Slots]]
      BY <1>17 DEF Bake
    <3>2. [req[r] EXCEPT !.pc = "upsert", !.todo = Slots] \in Req
      <4>1. "upsert" \in ReqPc /\ Slots \in SUBSET Slots
        BY DEF ReqPc
      <4>2. QED
        BY <4>1, RequestUpdates, Zenon
    <3>3. QED
      BY <3>1, <3>2
  <2>2. artifact' \in Value
    BY <1>17 DEF Bake, Req
  <2>3. QED
    BY <1>17, <2>1, <2>2 DEF Bake
<1>18. ASSUME NEW r \in Requests, NEW s \in Slots, UpsertSlot(r, s)
       PROVE TypeOK'
  <2> DEFINE expected == IF s \in req[r].seen THEN {req[r].ver[s]} ELSE {}
  <2>1. expected \in SUBSET Nat
    BY DEF Req
  <2>2. row' \in [Slots -> Row]
    <3> HIDE DEF expected
    <3>1. UpsertedRow(row[s], expected) \in Row
      BY <2>1, RowStatements
    <3>2. QED
      BY <1>18, <3>1 DEF UpsertSlot, expected
  <2>3. req' \in [Requests -> Req]
    <3> DEFINE pc == IF req[r].todo = {s} THEN "done" ELSE req[r].pc
               todo == req[r].todo \ {s}
    <3>1. pc \in ReqPc /\ todo \in SUBSET Slots
      BY DEF Req, ReqPc
    <3>2. req' = [req EXCEPT ![r] = [req[r] EXCEPT !.pc = pc, !.todo = todo]]
      BY <1>18 DEF UpsertSlot
    <3> HIDE DEF pc, todo
    <3>3. [req[r] EXCEPT !.pc = pc, !.todo = todo] \in Req
      BY <3>1, RequestUpdates, Zenon
    <3>4. QED
      BY <3>2, <3>3
  <2>4. registered' \in [Procs -> BOOLEAN]
    BY <1>18 DEF UpsertSlot
  <2>5. QED
    BY <1>18, <2>2, <2>3, <2>4 DEF UpsertSlot
<1>19. CASE DeleteArtifact
  BY <1>19, <1>a DEF DeleteArtifact
<1>20. ASSUME NEW b \in streamed, WriteBackReads(b) PROVE TypeOK'
  <2>1. [b EXCEPT !.pc = "read", !.snap = artifact] \in WriteBack
    BY DEF WriteBack
  <2>2. QED
    BY <1>20, <2>1 DEF WriteBackReads
<1>21. ASSUME NEW b \in streamed, WriteBackWrites(b) PROVE TypeOK'
  <2>1. artifact' \in Value
    BY <1>21 DEF WriteBackWrites, WriteBack, Value
  <2>2. QED
    BY <1>21, <2>1 DEF WriteBackWrites
<1>22. ASSUME NEW b \in streamed, WriteBackLost(b) PROVE TypeOK'
  BY <1>22 DEF WriteBackLost
<1>23. ASSUME NEW r \in Requests, VersionsFail(r) PROVE TypeOK'
  <2>1. "load" \in ReqPc
    BY DEF ReqPc
  <2>2. [req[r] EXCEPT !.pc = "load"] \in Req
    BY <2>1, RequestUpdates, Zenon
  <2>3. req' \in [Requests -> Req]
    BY <1>23, <2>2 DEF VersionsFail
  <2>4. QED
    BY <1>23, <2>3 DEF VersionsFail
<1>24. ASSUME NEW r \in Requests, AnswerJson(r) PROVE TypeOK'
  <2>1. [req[r] EXCEPT !.pc = "done", !.val = LoadFrom(committed)] \in Req
    <3>1. "done" \in ReqPc
      BY DEF ReqPc
    <3>2. QED
      BY <1>a, <3>1, RequestUpdates, Zenon
  <2>2. req' \in [Requests -> Req]
    BY <1>24, <2>1 DEF AnswerJson
  <2>3. QED
    BY <1>24, <2>2 DEF AnswerJson
<1>25. CASE UNCHANGED vars
  BY <1>25 DEF vars
<1>26. QED
  BY <1>1, <1>2, <1>3, <1>4, <1>5, <1>6, <1>7, <1>8, <1>9, <1>10, <1>11,
     <1>12, <1>13, <1>14, <1>15, <1>16, <1>17, <1>18, <1>19, <1>20, <1>21,
     <1>22, <1>23, <1>24, <1>25 DEF Next, Database, Refresh, Render, WriteBacks

\* Every state of Freshness has its type, whatever the constants.
THEOREM TypeCorrect == Spec => []TypeOK
<1>1. QED
  BY InitTypeOK, StepTypeOK, PTL DEF Spec

-----------------------------------------------------------------------------
(* How one step moves rows, ticks and requests.                            *)

\* The step keeps s a row, never lowers its version, and applies no
\* invalidation to it unless the version moves.
RowGrows(s) ==
  /\ row'[s].stale => row'[s].known
  /\ row[s].known => /\ row'[s].known
                     /\ row[s].version <= row'[s].version
                     /\ row'[s].version = row[s].version => Due(s)' = Due(s)

\* A version tick p carries for s in the next state is one it carried before
\* or the row's; a value it carries is one it carried before or covers Due.
TickFollows(p, s) ==
  /\ s \in watch'[p].todo =>
       \/ s \in watch[p].todo /\ watch'[p].ver[s] = watch[p].ver[s]
       \/ row[s].known /\ watch'[p].ver[s] = row[s].version
  /\ Loaded(p, s)' =>
       \/ /\ Loaded(p, s)
          /\ watch'[p].ver[s] = watch[p].ver[s]
          /\ watch'[p].val[s] = watch[p].val[s]
       \/ Due(s)' \subseteq watch'[p].val[s]

\* The same of request r.
RequestFollows(r, s) ==
  /\ s \in req'[r].seen =>
       \/ s \in req[r].seen /\ req'[r].ver[s] = req[r].ver[s]
       \/ row[s].known /\ req'[r].ver[s] = row[s].version
  /\ Rendered(r, s)' =>
       \/ /\ Rendered(r, s)
          /\ req'[r].ver[s] = req[r].ver[s]
          /\ req'[r].val[s] = req[r].val[s]
       \/ Due(s)' \subseteq req'[r].val[s]

\* RowGrows holds of every step.
LEMMA RowsGrow ==
  ASSUME TypeOK, StaleRowsExist, VersionsBehind, [Next]_vars, NEW s \in Slots
  PROVE  RowGrows(s)
<1>a. /\ row \in [Slots -> Row]
      /\ row[s] \in Row
      /\ row[s].version \in Nat
      /\ row[s].stale => row[s].known
  BY DEF TypeOK, Row, StaleRowsExist
<1>1. ASSUME row' = row, applied' = applied PROVE RowGrows(s)
  BY <1>1, <1>a DEF RowGrows, Due
<1>2. ASSUME applied' = applied,
             \/ row'[s] = row[s]
             \/ /\ row[s].known /\ row'[s].known
                /\ row[s].version <= row'[s].version
      PROVE  RowGrows(s)
  BY <1>2, <1>a DEF RowGrows, Due
<1>3. ASSUME NEW w \in Writes, Invalidate(w) PROVE RowGrows(s)
  <2>1. CASE s \in Touches[w] /\ row[s].known
    <3>1. row'[s] = InvalidatedRow(row[s])
      BY <1>3, <1>a, <2>1 DEF Invalidate
    <3>2. row'[s].known /\ row'[s].version = row[s].version + 1
      BY <3>1, <1>a, <2>1, RowStatements
    <3>3. QED
      BY <3>2, <1>a DEF RowGrows
  <2>2. CASE ~(s \in Touches[w] /\ row[s].known)
    <3>1. row'[s] = row[s]
      BY <1>3, <1>a, <2>2 DEF Invalidate
    <3>2. row[s].known => Due(s)' = Due(s)
      BY <1>3, <2>2 DEF Invalidate, Due
    <3>3. QED
      BY <3>1, <3>2, <1>a DEF RowGrows
  <2>3. QED
    BY <2>1, <2>2
<1>4. ASSUME NEW w \in Writes, TombstoneDependents(w) PROVE RowGrows(s)
  <2>1. \/ row'[s] = row[s]
        \/ row[s].known /\ row'[s] = TombstonedRow(row[s])
    BY <1>4, <1>a DEF TombstoneDependents
  <2>2. /\ row'[s].stale => row'[s].known
        /\ row'[s].known = row[s].known
        /\ row'[s].version = row[s].version
    BY <2>1, <1>a, RowStatements
  <2>3. Due(s)' = Due(s)
    BY <1>4 DEF TombstoneDependents, Due
  <2>4. QED
    BY <2>2, <2>3, <1>a DEF RowGrows
<1>5. ASSUME NEW t \in Slots, RevalidateTimerLapses(t) \/ ClaimExpires(t)
      PROVE  RowGrows(s)
  <2>1. /\ row'[s].known = row[s].known
        /\ row'[s].stale = row[s].stale
        /\ row'[s].version = row[s].version
    BY <1>5, <1>a DEF RevalidateTimerLapses, ClaimExpires, Row
  <2>2. applied' = applied
    BY <1>5 DEF RevalidateTimerLapses, ClaimExpires
  <2>3. QED
    BY <2>1, <2>2, <1>a DEF RowGrows, Due
<1>6. ASSUME NEW p \in Procs, ClaimStale(p) PROVE RowGrows(s)
  <2>1. \/ row'[s] = row[s]
        \/ row[s].known /\ row'[s] = ClaimedRow(row[s])
    BY <1>6, <1>a DEF ClaimStale, Claimable
  <2>2. applied' = applied
    BY <1>6 DEF ClaimStale
  <2>3. ClaimedRow(row[s]).known = row[s].known /\ ClaimedRow(row[s]).version = row[s].version
    BY <1>a, RowStatements
  <2>4. QED
    BY <2>1, <2>2, <2>3, <1>2, <1>a
<1>7. ASSUME NEW p \in Procs, NEW t \in Slots, MarkFresh(p, t)
      PROVE  RowGrows(s)
  <2>1. watch[p].ver[t] \in Nat /\ row[t].known
    BY <1>7 DEF TypeOK, Tick, VersionsBehind, MarkFresh
  <2>2. \/ row'[s] = row[s]
        \/ row[s].known /\ row'[s] = FreshRow(row[s], watch[p].ver[t])
    BY <1>7, <1>a, <2>1 DEF MarkFresh
  <2>3. applied' = applied
    BY <1>7 DEF MarkFresh
  <2>4. row[s].known => FreshRow(row[s], watch[p].ver[t]).known
    BY <1>a, <2>1, RowStatements
  <2>5. FreshRow(row[s], watch[p].ver[t]).version = row[s].version + 1
    BY <1>a, <2>1, RowStatements
  <2>6. QED
    BY <2>2, <2>3, <2>4, <2>5, <1>2, <1>a
<1>8. ASSUME NEW r \in Requests, NEW t \in Slots, UpsertSlot(r, t)
      PROVE  RowGrows(s)
  <2> DEFINE expected == IF t \in req[r].seen THEN {req[r].ver[t]} ELSE {}
  <2>1. expected \in SUBSET Nat
    BY DEF TypeOK, Req
  <2>2. /\ applied' = applied
        /\ row'[s] = row[s] \/ row'[s] = UpsertedRow(row[s], expected)
    BY <1>8, <1>a DEF UpsertSlot
  <2> HIDE DEF expected
  <2>3. UpsertedRow(row[s], expected).known
    BY <1>a, <2>1, RowStatements
  <2>4. row[s].known => UpsertedRow(row[s], expected).version = row[s].version
    BY <1>a, <2>1, RowStatements
  <2>5. QED
    BY <2>2, <2>3, <2>4, <1>a DEF RowGrows, Due
<1>9. QED
  BY <1>1, <1>3, <1>4, <1>5, <1>6, <1>7, <1>8
     DEF Next, Database, Refresh, Render, Commit, MarkActive,
         ActiveWindowLapses, RunLoader, LoaderThrows, ReadSnapshot,
         WriteSnapshot, RefreshFails, MarkFails, Arrive, CheckDormant, AnswerJson,
         FetchSlotVersions, VersionsFail, LoadPageProps, Bake, WriteBacks,
         WriteBackReads,
         WriteBackWrites, WriteBackLost, DeleteArtifact, Restart, vars

\* TickFollows holds of every step.
LEMMA TicksFollow ==
  ASSUME TypeOK, [Next]_vars, NEW p \in Procs, NEW s \in Slots
  PROVE  TickFollows(p, s)
<1>a. watch \in [Procs -> Tick] /\ IdleTick.todo = {}
  BY DEF TypeOK, IdleTick
<1>1. ASSUME watch' = watch PROVE TickFollows(p, s)
  BY <1>1 DEF TickFollows, Loaded
<1>2. ASSUME watch'[p] = watch[p] PROVE TickFollows(p, s)
  BY <1>2 DEF TickFollows, Loaded
<1>3. ASSUME watch'[p] = IdleTick PROVE TickFollows(p, s)
  BY <1>3, <1>a DEF TickFollows, Loaded
<1>4. ASSUME NEW q \in Procs, ClaimStale(q) PROVE TickFollows(p, s)
  <2> DEFINE claim == {c \in Slots : Claimable(c)}
             tick == [IdleTick EXCEPT !.pc = "load", !.claim = claim,
                                      !.todo = claim,
                                      !.ver = [c \in Slots |-> row[c].version]]
  <2>1. watch'[p] = watch[p] \/ watch'[p] = tick
    BY <1>4, <1>a DEF ClaimStale
  <2>2. /\ tick.pc = "load"
        /\ tick.todo = claim
        /\ tick.ver[s] = row[s].version
    BY DEF IdleTick
  <2>3. s \in claim => row[s].known
    BY DEF Claimable
  <2>4. CASE watch'[p] = tick
    <3> HIDE DEF claim, tick
    <3>1. QED
      BY <2>2, <2>3, <2>4 DEF TickFollows, Loaded
  <2>5. QED
    BY <2>1, <2>4, <1>2
<1>5. ASSUME NEW q \in Procs, RunLoader(q) PROVE TickFollows(p, s)
  <2>1. CASE p = q
    <3>1. /\ watch'[p].todo = watch[p].todo
          /\ watch'[p].ver = watch[p].ver
          /\ watch'[p].val = LoadFrom(committed)
      BY <1>5, <1>a, <2>1 DEF RunLoader, Tick
    <3>2. Due(s)' = Due(s)
      BY <1>5 DEF RunLoader, Due
    <3>3. QED
      BY <3>1, <3>2, LoadCoversDue DEF TickFollows
  <2>2. CASE p # q
    BY <1>5, <1>a, <2>2, <1>2 DEF RunLoader
  <2>3. QED
    BY <2>1, <2>2
<1>6. ASSUME NEW q \in Procs, ReadSnapshot(q) PROVE TickFollows(p, s)
  <2>1. CASE p = q /\ baked
    <3>1. /\ watch[p].pc = "snapshot"
          /\ watch'[p].todo = watch[p].todo
          /\ watch'[p].ver = watch[p].ver
          /\ watch'[p].val = watch[p].val
      BY <1>6, <1>a, <2>1 DEF ReadSnapshot, Tick
    <3>2. QED
      BY <3>1 DEF TickFollows, Loaded
  <2>2. CASE ~(p = q /\ baked)
    BY <1>6, <1>a, <2>2, <1>2, <1>3 DEF ReadSnapshot
  <2>3. QED
    BY <2>1, <2>2
<1>7. ASSUME NEW q \in Procs, NEW t \in Slots, MarkFresh(q, t)
      PROVE  TickFollows(p, s)
  <2>1. CASE p = q
    <3>1. /\ watch[p].pc = "mark"
          /\ watch'[p].todo \subseteq watch[p].todo
          /\ watch'[p].ver = watch[p].ver
          /\ watch'[p].val = watch[p].val
      BY <1>7, <1>a, <2>1 DEF MarkFresh, Tick
    <3>2. QED
      BY <3>1 DEF TickFollows, Loaded
  <2>2. CASE p # q
    BY <1>7, <1>a, <2>2, <1>2 DEF MarkFresh
  <2>3. QED
    BY <2>1, <2>2
<1>8. ASSUME NEW q \in Procs,
             \/ LoaderThrows(q) \/ WriteSnapshot(q) \/ RefreshFails(q)
             \/ Restart(q) \/ \E t \in Slots : MarkFails(q, t)
      PROVE  TickFollows(p, s)
  <2>1. watch'[p] = watch[p] \/ watch'[p] = IdleTick
    BY <1>8, <1>a DEF LoaderThrows, WriteSnapshot, RefreshFails, Restart, MarkFails
  <2>2. QED
    BY <2>1, <1>2, <1>3
<1>9. QED
  BY <1>1, <1>4, <1>5, <1>6, <1>7, <1>8
     DEF Next, Database, Refresh, Render, Commit, Invalidate,
         TombstoneDependents, MarkActive, ActiveWindowLapses,
         RevalidateTimerLapses, ClaimExpires, Arrive, CheckDormant, AnswerJson,
         FetchSlotVersions, VersionsFail, LoadPageProps, Bake, UpsertSlot,
         WriteBacks,
         WriteBackReads, WriteBackWrites, WriteBackLost, DeleteArtifact, vars

\* RequestFollows holds of every step.
LEMMA RequestsFollow ==
  ASSUME TypeOK, [Next]_vars, NEW r \in Requests, NEW s \in Slots
  PROVE  RequestFollows(r, s)
<1>a. req \in [Requests -> Req]
  BY DEF TypeOK
<1>1. ASSUME req' = req PROVE RequestFollows(r, s)
  BY <1>1 DEF RequestFollows, Rendered
<1>2. ASSUME req'[r] = req[r] PROVE RequestFollows(r, s)
  BY <1>2 DEF RequestFollows, Rendered
\* A step that leaves the request with nothing left to write.
<1>3. ASSUME req'[r].seen = req[r].seen, req'[r].ver = req[r].ver,
             req'[r].pc \notin {"bake", "upsert"}
      PROVE  RequestFollows(r, s)
  BY <1>3 DEF RequestFollows, Rendered
<1>4. ASSUME NEW q \in Requests, Arrive(q) PROVE RequestFollows(r, s)
  <2>1. CASE q = r
    BY <1>4, <1>a, <2>1, <1>3 DEF Arrive, Req
  <2>2. CASE q # r
    BY <1>4, <1>a, <2>2, <1>2 DEF Arrive
  <2>3. QED
    BY <2>1, <2>2
<1>5. ASSUME NEW q \in Requests, CheckDormant(q) PROVE RequestFollows(r, s)
  <2>1. CASE q = r
    BY <1>5, <1>a, <2>1, <1>3 DEF CheckDormant, Req
  <2>2. CASE q # r
    BY <1>5, <1>a, <2>2, <1>2 DEF CheckDormant
  <2>3. QED
    BY <2>1, <2>2
<1>13. ASSUME NEW q \in Requests, AnswerJson(q) PROVE RequestFollows(r, s)
  <2>1. CASE q = r
    BY <1>13, <1>a, <2>1, <1>3 DEF AnswerJson, Req
  <2>2. CASE q # r
    BY <1>13, <1>a, <2>2, <1>2 DEF AnswerJson
  <2>3. QED
    BY <2>1, <2>2
<1>6. ASSUME NEW q \in Requests, FetchSlotVersions(q) PROVE RequestFollows(r, s)
  <2>1. CASE q = r
    <3>1. /\ req'[r].pc = "load"
          /\ req'[r].seen = {c \in Slots : row[c].known}
          /\ req'[r].ver[s] = row[s].version
      BY <1>6, <1>a, <2>1 DEF FetchSlotVersions, Req
    <3>2. QED
      BY <3>1 DEF RequestFollows, Rendered
  <2>2. CASE q # r
    BY <1>6, <1>a, <2>2, <1>2 DEF FetchSlotVersions
  <2>3. QED
    BY <2>1, <2>2
<1>7. ASSUME NEW q \in Requests, LoadPageProps(q) PROVE RequestFollows(r, s)
  <2>1. CASE q = r
    <3>1. /\ req'[r].seen = req[r].seen
          /\ req'[r].ver = req[r].ver
          /\ req'[r].val = LoadFrom(committed)
      BY <1>7, <1>a, <2>1 DEF LoadPageProps, Req
    <3>2. Due(s)' = Due(s)
      BY <1>7 DEF LoadPageProps, Due
    <3>3. QED
      BY <3>1, <3>2, LoadCoversDue DEF RequestFollows
  <2>2. CASE q # r
    BY <1>7, <1>a, <2>2, <1>2 DEF LoadPageProps
  <2>3. QED
    BY <2>1, <2>2
<1>8. ASSUME NEW q \in Requests, Bake(q) PROVE RequestFollows(r, s)
  <2>1. CASE q = r
    <3>1. /\ req[r].pc = "bake"
          /\ req'[r].seen = req[r].seen
          /\ req'[r].ver = req[r].ver
          /\ req'[r].val = req[r].val
      BY <1>8, <1>a, <2>1 DEF Bake, Req
    <3>2. QED
      BY <3>1 DEF RequestFollows, Rendered
  <2>2. CASE q # r
    BY <1>8, <1>a, <2>2, <1>2 DEF Bake
  <2>3. QED
    BY <2>1, <2>2
<1>9. ASSUME NEW q \in Requests, NEW t \in Slots, UpsertSlot(q, t)
      PROVE  RequestFollows(r, s)
  <2>1. CASE q = r
    <3>1. /\ req[r].pc = "upsert"
          /\ req'[r].pc # "bake"
          /\ req'[r].todo \subseteq req[r].todo
          /\ req'[r].seen = req[r].seen
          /\ req'[r].ver = req[r].ver
          /\ req'[r].val = req[r].val
      BY <1>9, <1>a, <2>1 DEF UpsertSlot, Req
    <3>2. QED
      BY <3>1 DEF RequestFollows, Rendered
  <2>2. CASE q # r
    BY <1>9, <1>a, <2>2, <1>2 DEF UpsertSlot
  <2>3. QED
    BY <2>1, <2>2
<1>10. ASSUME NEW p \in Procs, Restart(p) PROVE RequestFollows(r, s)
  <2>1. \/ req'[r] = req[r]
        \/ req'[r] = [req[r] EXCEPT !.pc = "lost"]
    BY <1>10 DEF Restart
  <2>2. QED
    BY <2>1, <1>a, <1>2, <1>3 DEF Req
<1>11. ASSUME NEW q \in Requests, VersionsFail(q) PROVE RequestFollows(r, s)
  <2>1. CASE q = r
    BY <1>11, <1>a, <2>1, <1>3 DEF VersionsFail, Req
  <2>2. CASE q # r
    BY <1>11, <1>a, <2>2, <1>2 DEF VersionsFail
  <2>3. QED
    BY <2>1, <2>2
<1>12. QED
  BY <1>1, <1>4, <1>5, <1>6, <1>7, <1>8, <1>9, <1>10, <1>11, <1>13
     DEF Next, Database, Refresh, Render, Commit, Invalidate,
         TombstoneDependents, MarkActive, ActiveWindowLapses,
         RevalidateTimerLapses, ClaimExpires, ClaimStale, RunLoader,
         LoaderThrows, ReadSnapshot, MarkFresh, MarkFails, WriteSnapshot,
         RefreshFails,
         WriteBacks, WriteBackReads, WriteBackWrites, WriteBackLost,
         DeleteArtifact, vars

-----------------------------------------------------------------------------
(* The version guard.                                                      *)

\* The inductive invariant holds at first.
LEMMA InitIInv == Init => IInv
<1> SUFFICES ASSUME Init PROVE IInv
  OBVIOUS
<1>1. TypeOK
  BY InitTypeOK
<1>2. StaleRowsExist
  BY DEF Init, StaleRowsExist, InsertedRow, AbsentRow
<1>3. VersionsBehind
  BY DEF Init, VersionsBehind, IdleTick
<1>4. VersionGuardsRead
  BY DEF Init, VersionGuardsRead, Loaded, Rendered, IdleTick
<1>5. QED
  BY <1>1, <1>2, <1>3, <1>4 DEF IInv

\* Every step keeps the inductive invariant.
LEMMA StepIInv == IInv /\ [Next]_vars => IInv'
<1> SUFFICES ASSUME IInv, [Next]_vars PROVE IInv'
  OBVIOUS
<1> USE DEF IInv
<1>1. TypeOK'
  BY StepTypeOK
<1>2. \A s \in Slots : RowGrows(s)
  BY RowsGrow
<1>3. \A s \in Slots : \A p \in Procs : TickFollows(p, s)
  BY TicksFollow
<1>4. \A s \in Slots : \A r \in Requests : RequestFollows(r, s)
  BY RequestsFollow
<1>5. ASSUME NEW s \in Slots
      PROVE  row[s].version \in Nat /\ row'[s].version \in Nat
  BY <1>1 DEF TypeOK, Row
<1>6. ASSUME NEW s \in Slots, NEW p \in Procs
      PROVE  watch[p].ver[s] \in Nat /\ watch'[p].ver[s] \in Nat
  BY <1>1 DEF TypeOK, Tick
<1>7. ASSUME NEW s \in Slots, NEW r \in Requests
      PROVE  req[r].ver[s] \in Nat /\ req'[r].ver[s] \in Nat
  BY <1>1 DEF TypeOK, Req
<1>8. StaleRowsExist'
  BY <1>2 DEF StaleRowsExist, RowGrows
<1>9. VersionsBehind'
  <2>1. ASSUME NEW s \in Slots, NEW p \in Procs, s \in watch'[p].todo
        PROVE  row'[s].known /\ watch'[p].ver[s] <= row'[s].version
    BY <1>2, <1>3, <1>5, <1>6, <2>1 DEF VersionsBehind, TickFollows, RowGrows
  <2>2. ASSUME NEW s \in Slots, NEW r \in Requests, s \in req'[r].seen
        PROVE  row'[s].known /\ req'[r].ver[s] <= row'[s].version
    BY <1>2, <1>4, <1>5, <1>7, <2>2 DEF VersionsBehind, RequestFollows, RowGrows
  <2>3. QED
    BY <2>1, <2>2 DEF VersionsBehind
<1>10. VersionGuardsRead'
  <2>1. ASSUME NEW s \in Slots, NEW p \in Procs, Loaded(p, s)',
               watch'[p].ver[s] = row'[s].version
        PROVE  Due(s)' \subseteq watch'[p].val[s]
    <3>1. CASE /\ Loaded(p, s)
               /\ watch'[p].ver[s] = watch[p].ver[s]
               /\ watch'[p].val[s] = watch[p].val[s]
      <4>1. row[s].known /\ watch[p].ver[s] <= row[s].version
        BY <3>1 DEF Loaded, VersionsBehind
      <4>2. watch[p].ver[s] = row[s].version /\ row'[s].version = row[s].version
        <5>1. row'[s].version = watch[p].ver[s]
          BY <2>1, <3>1
        <5>2. row[s].version <= row'[s].version
          BY <1>2, <4>1 DEF RowGrows
        <5> HIDE DEF IInv
        <5>3. QED
          BY <1>5, <1>6, <4>1, <5>1, <5>2
      <4>3. Due(s)' = Due(s)
        BY <1>2, <4>1, <4>2 DEF RowGrows
      <4>4. QED
        BY <3>1, <4>2, <4>3 DEF VersionGuardsRead
    <3>2. QED
      BY <1>3, <2>1, <3>1 DEF TickFollows
  <2>2. ASSUME NEW s \in Slots, NEW r \in Requests, Rendered(r, s)',
               req'[r].ver[s] = row'[s].version
        PROVE  Due(s)' \subseteq req'[r].val[s]
    <3>1. CASE /\ Rendered(r, s)
               /\ req'[r].ver[s] = req[r].ver[s]
               /\ req'[r].val[s] = req[r].val[s]
      <4>1. row[s].known /\ req[r].ver[s] <= row[s].version
        BY <3>1 DEF Rendered, VersionsBehind
      <4>2. req[r].ver[s] = row[s].version /\ row'[s].version = row[s].version
        <5>1. row'[s].version = req[r].ver[s]
          BY <2>2, <3>1
        <5>2. row[s].version <= row'[s].version
          BY <1>2, <4>1 DEF RowGrows
        <5> HIDE DEF IInv
        <5>3. QED
          BY <1>5, <1>7, <4>1, <5>1, <5>2
      <4>3. Due(s)' = Due(s)
        BY <1>2, <4>1, <4>2 DEF RowGrows
      <4>4. QED
        BY <3>1, <4>2, <4>3 DEF VersionGuardsRead
    <3>2. QED
      BY <1>4, <2>2, <3>1 DEF RequestFollows
  <2>3. QED
    BY <2>1, <2>2 DEF VersionGuardsRead
<1>11. QED
  BY <1>1, <1>8, <1>9, <1>10

\* Whenever the version a tick or a render carries is still the row's, the
\* value it is about to publish covers every invalidation applied so far.
THEOREM VersionGuardSound == Spec => []VersionGuardsRead
<1>1. IInv => VersionGuardsRead
  BY DEF IInv
<1>2. QED
  BY InitIInv, StepIInv, <1>1, PTL DEF Spec

\* From it, a step that clears a stale flag carries a value that covers Due.
LEMMA StepClearsOnlyCovered == IInv /\ [Next]_vars => [ClearsOnlyCovered]_vars
<1> SUFFICES ASSUME IInv, Next, NEW s \in Slots, Cleared(s)
             PROVE  \/ \E w \in Writes : TombstoneDependents(w)
                    \/ \E p \in Procs : MarkFresh(p, s) /\ Due(s) \subseteq watch[p].val[s]
                    \/ \E r \in Requests : UpsertSlot(r, s) /\ Due(s) \subseteq req[r].val[s]
  BY DEF ClearsOnlyCovered
<1>a. /\ TypeOK
      /\ row \in [Slots -> Row]
      /\ row[s] \in Row
      /\ row[s].known
      /\ row[s].stale /\ ~row'[s].stale
  BY DEF IInv, TypeOK, StaleRowsExist, Cleared
<1>1. ASSUME NEW w \in Writes, Invalidate(w) PROVE FALSE
  <2>1. row'[s] = row[s] \/ row'[s] = InvalidatedRow(row[s])
    BY <1>1, <1>a DEF Invalidate
  <2>2. InvalidatedRow(row[s]).stale
    BY <1>a DEF InvalidatedRow, Row
  <2>3. QED
    BY <1>a, <2>1, <2>2
<1>2. ASSUME NEW t \in Slots, RevalidateTimerLapses(t) \/ ClaimExpires(t)
      PROVE  FALSE
  BY <1>2, <1>a DEF RevalidateTimerLapses, ClaimExpires, Row
<1>3. ASSUME NEW p \in Procs, ClaimStale(p) PROVE FALSE
  <2>1. row'[s] = row[s] \/ row'[s] = ClaimedRow(row[s])
    BY <1>3, <1>a DEF ClaimStale
  <2>2. QED
    BY <1>a, <2>1, RowStatements
<1>4. ASSUME NEW p \in Procs, NEW t \in Slots, MarkFresh(p, t)
      PROVE  MarkFresh(p, s) /\ Due(s) \subseteq watch[p].val[s]
  <2>1. t = s
    BY <1>4, <1>a DEF MarkFresh
  <2>2. row'[s] = FreshRow(row[s], watch[p].ver[s])
    BY <1>4, <1>a, <2>1 DEF MarkFresh
  <2>3. watch[p].ver[s] = row[s].version
    <3>1. FreshRow(row[s], watch[p].ver[s]).stale
            = IF row[s].version = watch[p].ver[s] THEN FALSE ELSE row[s].stale
      BY <1>a DEF FreshRow, Row
    <3>2. QED
      BY <1>a, <2>2, <3>1
  <2>4. Loaded(p, s)
    BY <1>4, <2>1 DEF MarkFresh, Loaded
  <2>5. QED
    BY <1>4, <2>1, <2>3, <2>4 DEF IInv, VersionGuardsRead
<1>5. ASSUME NEW r \in Requests, NEW t \in Slots, UpsertSlot(r, t)
      PROVE  UpsertSlot(r, s) /\ Due(s) \subseteq req[r].val[s]
  <2> DEFINE expected == IF s \in req[r].seen THEN {req[r].ver[s]} ELSE {}
  <2>1. t = s
    BY <1>5, <1>a DEF UpsertSlot
  <2>2. row'[s] = UpsertedRow(row[s], expected)
    BY <1>5, <1>a, <2>1 DEF UpsertSlot
  <2>3. row[s].version \in expected
    <3> HIDE DEF expected
    <3>1. UpsertedRow(row[s], expected).stale
            = IF row[s].version \in expected THEN FALSE ELSE row[s].stale
      BY <1>a DEF UpsertedRow, Row
    <3>2. QED
      BY <1>a, <2>2, <3>1
  <2>4. s \in req[r].seen /\ req[r].ver[s] = row[s].version
    BY <2>3
  <2>5. Rendered(r, s)
    BY <1>5, <2>1, <2>4 DEF UpsertSlot, Rendered
  <2>6. QED
    BY <1>5, <2>1, <2>4, <2>5 DEF IInv, VersionGuardsRead
<1>6. ASSUME row' = row PROVE FALSE
  BY <1>6, <1>a
<1>7. QED
  BY <1>1, <1>2, <1>3, <1>4, <1>5, <1>6
     DEF Next, Database, Refresh, Render, Commit, MarkActive,
         ActiveWindowLapses, RunLoader, LoaderThrows, ReadSnapshot,
         WriteSnapshot, RefreshFails, MarkFails, Arrive, CheckDormant, AnswerJson,
         FetchSlotVersions, VersionsFail, LoadPageProps, Bake, WriteBacks,
         WriteBackReads,
         WriteBackWrites, WriteBackLost, DeleteArtifact, Restart

\* No tick and no render ever clears a stale flag set by an invalidation that
\* its own data does not reflect.
THEOREM NothingSwallowed == Spec => NoSwallowedInvalidation
<1>1. QED
  BY InitIInv, StepIInv, StepClearsOnlyCovered, PTL
     DEF Spec, NoSwallowedInvalidation

=============================================================================
