------------------------------ MODULE Freshness ------------------------------
(***************************************************************************)
(* Scalar live fields of one baked page: the row of kiln_fsr behind each   *)
(* slot, the baked JSON artifact, and everyone who reads and writes them:  *)
(*                                                                         *)
(*   - transactions that commit a write to a table the slots depend on,    *)
(*     and the invalidation (or tombstoning) each one triggers later;      *)
(*   - the FsrWatcher of each process, whose tick claims stale slots,      *)
(*     re-runs the page's loader, marks the slots fresh and rewrites the   *)
(*     artifact;                                                           *)
(*   - requests for the page, which serve the artifact or re-render it;    *)
(*   - the SSE streams of fsrHubStream, each of which writes every scalar   *)
(*     patch it has delivered back into the artifact.                       *)
(*                                                                         *)
(* One (route, user_key) pair is modelled.  A value computed by load() is  *)
(* represented by the set of committed writes it reflects, so "older" is   *)
(* set inclusion and no counter of the data is needed.                     *)
(***************************************************************************)
EXTENDS Integers, FiniteSets

CONSTANTS
  Slots,            \* live fields of the page
  Writes,           \* transactions that may commit
  Touches,          \* Touches[w]: slots whose depends_on names a key w emits
  Deletes,          \* the writes whose trigger fired with TG_OP = 'DELETE'
  Procs,            \* server processes, each with one FsrWatcher
  Requests,         \* page requests that may arrive
  Starts,           \* has the page been rendered before? the values to consider
  Overlap,          \* FALSE: ticks and requests run one at a time
  SlowStreams,      \* FALSE: streams deliver before the next tick or request
  MaxStreamed,      \* bound: patches that streams hold at once
  MaxVersion,       \* bound: a slot at this version is not claimed again
  MaxTimerVersion,  \* bound: nor does its revalidation timer lapse
  MaxLoadFailures,  \* bound: loader runs that throw
  MaxCrashes        \* bound: failed artifact writes and process restarts

ASSUME FreshnessAssumption ==
  /\ Touches \in [Writes -> SUBSET Slots]
  /\ Deletes \subseteq Writes
  /\ Starts \subseteq BOOLEAN
  /\ Overlap \in BOOLEAN
  /\ SlowStreams \in BOOLEAN
  /\ MaxStreamed \in Nat
  /\ MaxVersion \in Nat
  /\ MaxTimerVersion \in Nat
  /\ MaxLoadFailures \in Nat
  /\ MaxCrashes \in Nat

VARIABLES
  committed,     \* writes committed so far
  applied,       \* writes whose notification has been applied to kiln_fsr
  row,           \* the slot rows of kiln_fsr
  active,        \* last_active_at is within the active window
  baked,         \* the artifact exists
  artifact,      \* what each slot of the artifact reflects
  pushed,        \* what the last patch emitted for each slot reflects
  registered,    \* the process holds a loader for the route
  streamed,      \* the patches that streams have yet to write back
  watch,         \* the tick in progress in each process
  req,           \* the state of each request
  loadFailures,  \* loader failures so far
  crashes        \* crashes and failed writes so far

vars == <<committed, applied, row, active, baked, artifact, pushed,
          streamed, registered, watch, req, loadFailures, crashes>>

-----------------------------------------------------------------------------
(* Values, rows and the statements of FsrStore on one row.                 *)

Value == [Slots -> SUBSET Writes]

\* What load() returns when the committed writes are W.
LoadFrom(W) == [s \in Slots |-> {w \in W : s \in Touches[w]}]

Nothing == LoadFrom({})

Row == [known : BOOLEAN, stale : BOOLEAN, version : Nat, claimed : BOOLEAN,
        patched : BOOLEAN, due : BOOLEAN]

\* A row as the INSERT of upsertSlot leaves it: the column defaults.
InsertedRow == [known |-> TRUE, stale |-> FALSE, version |-> 0,
                claimed |-> FALSE, patched |-> FALSE, due |-> FALSE]

AbsentRow == [InsertedRow EXCEPT !.known = FALSE]

\* (Mistake: an invalidation that flags the row and forgets the version.)
InvalidatedWithoutVersion(r) == [r EXCEPT !.stale = TRUE]

\* UPDATE of invalidateDepKey.
InvalidatedRow(r) == [r EXCEPT !.stale = TRUE, !.version = @ + 1]

\* UPDATE of tombstoneDependentRoutes.  It also sets tombstoned, which no
\* query reads from a row whose slot is not ''.
TombstonedRow(r) == [r EXCEPT !.stale = FALSE]

\* UPDATE of fetchStaleSlots: the claim lasts 30 seconds or until markFresh.
ClaimedRow(r) == [r EXCEPT !.claimed = TRUE]

\* (Mistake: markFresh as it was before expectedVersion.)
FreshUnconditionally(r, v) ==
  [r EXCEPT !.stale = FALSE, !.version = @ + 1, !.claimed = FALSE,
            !.patched = TRUE, !.due = FALSE]

\* UPDATE of markFresh with the version the slot was claimed at.
FreshRow(r, v) ==
  [r EXCEPT !.stale = IF r.version = v THEN FALSE ELSE @,
            !.version = @ + 1, !.claimed = FALSE,
            !.patched = TRUE, !.due = FALSE]

\* (Mistake: upsertSlot as it was before expectedVersion.)
UpsertedUnconditionally(r, expected) ==
  IF ~r.known THEN InsertedRow ELSE [r EXCEPT !.stale = FALSE]

\* INSERT .. ON CONFLICT of upsertSlot; expected is {} when the render holds
\* no version for the slot, else the singleton of the version it holds.
UpsertedRow(r, expected) ==
  IF ~r.known THEN InsertedRow
  ELSE [r EXCEPT !.stale = IF r.version \in expected THEN FALSE ELSE @]

\* (Mistake: a slot that was once patched is left to its revalidation timer.)
ClaimableUnlessPatched(s) ==
  row[s].known /\ ((row[s].stale /\ ~row[s].patched) \/ row[s].due) /\ ~row[s].claimed

\* WHERE clause of fetchStaleSlots: stale or past revalidate_secs, unclaimed.
Claimable(s) ==
  row[s].known /\ (row[s].stale \/ row[s].due) /\ ~row[s].claimed

\* (Mistake: the page handler trusts every artifact it finds.)
NeverDormantStale == FALSE

\* fetchDormantStaleSlot returns a row.
DormantStale == \E s \in Slots : row[s].known /\ row[s].stale

-----------------------------------------------------------------------------
WatchPc == {"idle", "load", "snapshot", "mark", "write"}
ReqPc == {"none", "check", "versions", "load", "bake", "upsert", "answer",
          "done", "lost"}

\* A tick: the slots it claimed and has yet to mark, the versions it claimed
\* them at, what the loader returned and the artifact it read.
Tick == [pc : WatchPc, claim : SUBSET Slots, todo : SUBSET Slots,
         ver : [Slots -> Nat], val : Value, snap : Value]

IdleTick == [pc |-> "idle", claim |-> {}, todo |-> {},
             ver |-> [s \in Slots |-> 0], val |-> Nothing, snap |-> Nothing]

\* A request: the slots it knows the version of and those versions, its
\* value (first the artifact it read, then what load() returned), the slots
\* left to upsert, whether it found an artifact it could have served,
\* whether it asked the database for dormant-stale slots, and the writes
\* that were applied when it arrived.
Req == [pc : ReqPc, proc : Procs, seen : SUBSET Slots, ver : [Slots -> Nat],
        val : Value, todo : SUBSET Slots, hit : BOOLEAN, checked : BOOLEAN,
        floor : SUBSET Writes]

\* A patch on its way back into the artifact: waiting in a stream, or between
\* the getJson and the setJson of patchJsonField.
WriteBack == [pc : {"queued", "read"}, slot : Slots, val : SUBSET Writes,
              snap : Value]

Queued(s, v) == [pc |-> "queued", slot |-> s, val |-> v, snap |-> Nothing]

TypeOK ==
  /\ committed \subseteq Writes
  /\ applied \subseteq committed
  /\ row \in [Slots -> Row]
  /\ active \in BOOLEAN
  /\ baked \in BOOLEAN
  /\ artifact \in Value
  /\ pushed \in Value
  /\ streamed \subseteq WriteBack
  /\ registered \in [Procs -> BOOLEAN]
  /\ watch \in [Procs -> Tick]
  /\ req \in [Requests -> Req]
  /\ loadFailures \in Nat
  /\ crashes \in Nat

Init ==
  /\ committed = {}
  /\ applied = {}
  /\ active = FALSE
  /\ baked \in Starts
  /\ row = [s \in Slots |-> IF baked THEN InsertedRow ELSE AbsentRow]
  /\ artifact = Nothing
  /\ pushed = Nothing
  /\ streamed = {}
  /\ registered = [p \in Procs |-> baked]
  /\ watch = [p \in Procs |-> IdleTick]
  /\ req \in [Requests -> {[pc |-> "none", proc |-> p, seen |-> {},
                            ver |-> [s \in Slots |-> 0], val |-> Nothing,
                            todo |-> {}, hit |-> FALSE, checked |-> FALSE,
                            floor |-> {}] : p \in Procs}]
  /\ loadFailures = 0
  /\ crashes = 0

InFlight(r) == req[r].pc \notin {"none", "done", "lost"}

\* Nobody is in the middle of a tick or of a request.
Idle ==
  /\ \A p \in Procs : watch[p].pc = "idle"
  /\ \A r \in Requests : ~InFlight(r)

\* Nor has a stream anything left to write back.
Rest == Idle /\ streamed = {}

\* A tick, a request or a deletion may begin.
MayBegin == Overlap \/ Rest \/ (SlowStreams /\ Idle)

-----------------------------------------------------------------------------
(* The database and its triggers.                                          *)

\* A transaction commits; its trigger queued the event and the NOTIFY.
Commit(w) ==
  /\ w \notin committed
  /\ committed' = committed \union {w}
  /\ UNCHANGED <<applied, row, active, baked, artifact, pushed, streamed,
                 registered, watch, req, loadFailures, crashes>>

\* (Mistake: the event is announced before its transaction commits.)
AnnouncedEarly(w) == w \notin applied

\* A notification announces a committed write that is not applied yet.
Announced(w) == w \in committed \ applied

\* FsrWatcher.notifyChange -> FsrStore.invalidateDepKey, for INSERT or UPDATE.
Invalidate(w) ==
  /\ Announced(w) /\ w \notin Deletes
  /\ applied' = applied \union {w}
  /\ row' = [s \in Slots |-> IF s \in Touches[w] /\ row[s].known
                             THEN InvalidatedRow(row[s]) ELSE row[s]]
  /\ UNCHANGED <<committed, active, baked, artifact, pushed, streamed,
                 registered, watch, req, loadFailures, crashes>>

\* FsrWatcher.notifyDelete -> FsrStore.tombstoneDependentRoutes.  Files are
\* unlinked only for a row with slot = '', and such a row is never created
\* with a depends_on, so the artifact stays.
TombstoneDependents(w) ==
  /\ Announced(w) /\ w \in Deletes
  /\ applied' = applied \union {w}
  /\ row' = [s \in Slots |-> IF s \in Touches[w] /\ row[s].known
                             THEN TombstonedRow(row[s]) ELSE row[s]]
  /\ UNCHANGED <<committed, active, baked, artifact, pushed, streamed,
                 registered, watch, req, loadFailures, crashes>>

\* A subscription marks the route active ...
MarkActive ==
  /\ ~active
  /\ active' = TRUE
  /\ UNCHANGED <<committed, applied, row, baked, artifact, pushed, streamed,
                 registered, watch, req, loadFailures, crashes>>

\* ... until activeWindowSecs pass without a ping.
ActiveWindowLapses ==
  /\ active
  /\ active' = FALSE
  /\ UNCHANGED <<committed, applied, row, baked, artifact, pushed, streamed,
                 registered, watch, req, loadFailures, crashes>>

\* revalidate_secs have passed since last_patched_at.
RevalidateTimerLapses(s) ==
  /\ row[s].known /\ row[s].patched /\ ~row[s].due
  /\ row[s].version < MaxTimerVersion
  /\ row' = [row EXCEPT ![s].due = TRUE]
  /\ UNCHANGED <<committed, applied, active, baked, artifact, pushed,
                 streamed, registered, watch, req, loadFailures, crashes>>

\* refresh_claimed_until has passed.
ClaimExpires(s) ==
  /\ row[s].claimed
  /\ row' = [row EXCEPT ![s].claimed = FALSE]
  /\ UNCHANGED <<committed, applied, active, baked, artifact, pushed,
                 streamed, registered, watch, req, loadFailures, crashes>>

-----------------------------------------------------------------------------
(* FsrWatcher.watcherTick and refreshRegisteredLoaders.                    *)

\* fetchStaleSlots claims every claimable slot of an active route in one
\* statement.  Without a registered loader the tick skips the rows and their
\* claims stand until they expire.
ClaimStale(p) ==
  LET claim == {s \in Slots : Claimable(s)} IN
  /\ watch[p].pc = "idle"
  /\ MayBegin
  /\ active
  /\ claim # {}
  /\ \A s \in claim : row[s].version < MaxVersion
  /\ row' = [s \in Slots |-> IF s \in claim THEN ClaimedRow(row[s]) ELSE row[s]]
  /\ watch' = IF registered[p]
              THEN [watch EXCEPT ![p] =
                      [IdleTick EXCEPT !.pc = "load", !.claim = claim,
                                       !.todo = claim,
                                       !.ver = [s \in Slots |-> row[s].version]]]
              ELSE watch
  /\ UNCHANGED <<committed, applied, active, baked, artifact, pushed,
                 streamed, registered, req, loadFailures, crashes>>

\* target.load() runs the page's load().
RunLoader(p) ==
  /\ watch[p].pc = "load"
  /\ watch' = [watch EXCEPT ![p].pc = "snapshot", ![p].val = LoadFrom(committed)]
  /\ UNCHANGED <<committed, applied, row, active, baked, artifact, pushed,
                 streamed, registered, req, loadFailures, crashes>>

\* load() throws: the catch logs, and the claim stands until it expires.
LoaderThrows(p) ==
  /\ watch[p].pc = "load"
  /\ loadFailures < MaxLoadFailures
  /\ loadFailures' = loadFailures + 1
  /\ watch' = [watch EXCEPT ![p] = IdleTick]
  /\ UNCHANGED <<committed, applied, row, active, baked, artifact, pushed,
                 streamed, registered, req, crashes>>

\* The snapshot is read back; without one the rows are skipped, still claimed.
ReadSnapshot(p) ==
  /\ watch[p].pc = "snapshot"
  /\ watch' = IF baked
              THEN [watch EXCEPT ![p].pc = "mark", ![p].snap = artifact]
              ELSE [watch EXCEPT ![p] = IdleTick]
  /\ UNCHANGED <<committed, applied, row, active, baked, artifact, pushed,
                 streamed, registered, req, loadFailures, crashes>>

\* The streams may take a patch, as far as MaxStreamed allows: whether one
\* is open on this route, in this process, does not depend on the tick.
Streamed(s, v) ==
  {streamed} \union {t \in {streamed \union {Queued(s, v)}} :
                       Cardinality(t) <= MaxStreamed}

Emit(p, s) ==
  /\ pushed' = [pushed EXCEPT ![s] = watch[p].val[s]]
  /\ streamed' \in Streamed(s, watch[p].val[s])

\* One row of the loop: emit its patch, then mark it fresh.
MarkFresh(p, s) ==
  /\ watch[p].pc = "mark"
  /\ s \in watch[p].todo
  /\ Emit(p, s)
  /\ row' = [row EXCEPT ![s] = FreshRow(row[s], watch[p].ver[s])]
  /\ watch' = [watch EXCEPT ![p].todo = @ \ {s},
                            ![p].pc = IF watch[p].todo = {s} THEN "write" ELSE @]
  /\ UNCHANGED <<committed, applied, active, baked, artifact, registered,
                 req, loadFailures, crashes>>

\* (Mistake: the slots to replace are looked up once they are all marked.)
WriteSnapshotUnmarked(p) ==
  /\ watch[p].pc = "write"
  /\ artifact' = [s \in Slots |-> IF s \in watch[p].todo
                                  THEN watch[p].val[s] ELSE watch[p].snap[s]]
  /\ baked' = TRUE
  /\ watch' = [watch EXCEPT ![p] = IdleTick]
  /\ UNCHANGED <<committed, applied, row, active, pushed, streamed,
                 registered, req, loadFailures, crashes>>

\* atomicWrite of the snapshot with the claimed slots replaced.
WriteSnapshot(p) ==
  /\ watch[p].pc = "write"
  /\ artifact' = [s \in Slots |-> IF s \in watch[p].claim
                                  THEN watch[p].val[s] ELSE watch[p].snap[s]]
  /\ baked' = TRUE
  /\ watch' = [watch EXCEPT ![p] = IdleTick]
  /\ UNCHANGED <<committed, applied, row, active, pushed, streamed,
                 registered, req, loadFailures, crashes>>

\* The patch is out and its markFresh fails: the rest of the tick is skipped.
MarkFails(p, s) ==
  /\ watch[p].pc = "mark"
  /\ s \in watch[p].todo
  /\ crashes < MaxCrashes
  /\ crashes' = crashes + 1
  /\ Emit(p, s)
  /\ watch' = [watch EXCEPT ![p] = IdleTick]
  /\ UNCHANGED <<committed, applied, row, active, baked, artifact, registered,
                 req, loadFailures>>

\* A statement or the file write after the load fails, or a markFresh that
\* landed is reported as failed: the catch logs it.
RefreshFails(p) ==
  /\ watch[p].pc \in {"snapshot", "mark", "write"}
  /\ crashes < MaxCrashes
  /\ crashes' = crashes + 1
  /\ watch' = [watch EXCEPT ![p] = IdleTick]
  /\ UNCHANGED <<committed, applied, row, active, baked, artifact, pushed,
                 streamed, registered, req, loadFailures>>

-----------------------------------------------------------------------------
(* The page handler, on a route whose pages bake.                          *)

\* The artifact lookup; with no artifact an HTML request renders and a JSON
\* request loads.
Arrive(r) ==
  /\ req[r].pc = "none"
  /\ MayBegin
  /\ \E pc \in IF baked THEN {"check"} ELSE {"versions", "answer"} :
       req' = [req EXCEPT ![r].pc = pc,
                          ![r].val = IF baked THEN artifact ELSE Nothing,
                          ![r].floor = applied]
  /\ UNCHANGED <<committed, applied, row, active, baked, artifact, pushed,
                 streamed, registered, watch, loadFailures, crashes>>

\* isDormantStale is FALSE without a query while the route is locally active;
\* a dormant-stale artifact is deleted, and the request renders or loads.
\* Otherwise a JSON request is served, and so is an HTML request if this
\* process has registered a live list of the route (hasRegisteredRoute asks
\* for lists only); an HTML request of a page without one renders in full.
CheckDormant(r) ==
  /\ req[r].pc = "check"
  /\ \E local \in {active, FALSE}, kind \in {"html", "listed", "json"} :
       LET rebuild == ~local /\ DormantStale
           serve == ~rebuild /\ kind # "html"
           fresh == IF kind = "json" THEN "answer" ELSE "versions" IN
       /\ baked' = (baked /\ ~rebuild)
       /\ req' = [req EXCEPT ![r].pc = IF serve THEN "done" ELSE fresh,
                             ![r].val = IF serve THEN @ ELSE Nothing,
                             ![r].hit = ~rebuild,
                             ![r].checked = ~local]
  /\ artifact' = IF baked' THEN artifact ELSE Nothing
  /\ UNCHANGED <<committed, applied, row, active, pushed, streamed,
                 registered, watch, loadFailures, crashes>>

\* loadPageProps of a JSON request: it bakes nothing and clears nothing.
AnswerJson(r) ==
  /\ req[r].pc = "answer"
  /\ req' = [req EXCEPT ![r].pc = "done", ![r].val = LoadFrom(committed)]
  /\ UNCHANGED <<committed, applied, row, active, baked, artifact, pushed,
                 streamed, registered, watch, loadFailures, crashes>>

\* fetchSlotVersions, before load().
FetchSlotVersions(r) ==
  /\ req[r].pc = "versions"
  /\ req' = [req EXCEPT ![r].pc = "load",
                        ![r].seen = {s \in Slots : row[s].known},
                        ![r].ver = [s \in Slots |-> row[s].version]]
  /\ UNCHANGED <<committed, applied, row, active, baked, artifact, pushed,
                 streamed, registered, watch, loadFailures, crashes>>

\* Its catch: the render goes on without versions and clears nothing.
VersionsFail(r) ==
  /\ req[r].pc = "versions"
  /\ crashes < MaxCrashes
  /\ crashes' = crashes + 1
  /\ req' = [req EXCEPT ![r].pc = "load"]
  /\ UNCHANGED <<committed, applied, row, active, baked, artifact, pushed,
                 streamed, registered, watch, loadFailures>>

\* load(); on a hit the loader is registered here.
LoadPageProps(r) ==
  /\ req[r].pc = "load"
  /\ req' = [req EXCEPT ![r].pc = "bake", ![r].val = LoadFrom(committed)]
  /\ registered' = [registered EXCEPT ![req[r].proc] = @ \/ req[r].hit]
  /\ UNCHANGED <<committed, applied, row, active, baked, artifact, pushed,
                 streamed, watch, loadFailures, crashes>>

\* setJson, setHtml and setBakedPaths.
Bake(r) ==
  /\ req[r].pc = "bake"
  /\ baked' = TRUE
  /\ artifact' = req[r].val
  /\ req' = [req EXCEPT ![r].pc = "upsert", ![r].todo = Slots]
  /\ UNCHANGED <<committed, applied, row, active, pushed, streamed,
                 registered, watch, loadFailures, crashes>>

\* upsertSlot for one live field; after the last one the loader is
\* registered and the response goes out.
UpsertSlot(r, s) ==
  LET expected == IF s \in req[r].seen THEN {req[r].ver[s]} ELSE {}
      last == req[r].todo = {s} IN
  /\ req[r].pc = "upsert"
  /\ s \in req[r].todo
  /\ row' = [row EXCEPT ![s] = UpsertedRow(row[s], expected)]
  /\ req' = [req EXCEPT ![r].todo = @ \ {s},
                        ![r].pc = IF last THEN "done" ELSE @]
  /\ registered' = [registered EXCEPT ![req[r].proc] = @ \/ last]
  /\ UNCHANGED <<committed, applied, active, baked, artifact, pushed,
                 streamed, watch, loadFailures, crashes>>

-----------------------------------------------------------------------------
(* fsrHubStream and whatever else touches the artifact.                    *)

\* patchBakedFiles of a delivered patch: the stream goes on to it only when
\* its client asks for the next event.  getJson first: no artifact, no patch.
WriteBackReads(b) ==
  /\ b.pc = "queued"
  /\ SlowStreams \/ Idle
  /\ streamed' = (streamed \ {b}) \union
       (IF baked THEN {[b EXCEPT !.pc = "read", !.snap = artifact]} ELSE {})
  /\ UNCHANGED <<committed, applied, row, active, baked, artifact, pushed,
                 registered, watch, req, loadFailures, crashes>>

\* ... then setJson of the whole artifact with the field replaced.
WriteBackWrites(b) ==
  /\ b.pc = "read"
  /\ artifact' = [b.snap EXCEPT ![b.slot] = b.val]
  /\ baked' = TRUE
  /\ streamed' = streamed \ {b}
  /\ UNCHANGED <<committed, applied, row, active, pushed, registered, watch,
                 req, loadFailures, crashes>>

\* The stream closes, lags or does not cover the slot, or a call fails.
WriteBackLost(b) ==
  /\ streamed' = streamed \ {b}
  /\ UNCHANGED <<committed, applied, row, active, baked, artifact, pushed,
                 registered, watch, req, loadFailures, crashes>>

WriteBacks ==
  \E b \in streamed : WriteBackReads(b) \/ WriteBackWrites(b) \/ WriteBackLost(b)

\* An action's invalidateActor, or any other KilnCache.delete of the artifact.
DeleteArtifact ==
  /\ baked
  /\ MayBegin
  /\ baked' = FALSE
  /\ artifact' = Nothing
  /\ UNCHANGED <<committed, applied, row, active, pushed, streamed,
                 registered, watch, req, loadFailures, crashes>>

\* A process restarts: its tick, its requests and its registry are gone.
Restart(p) ==
  /\ crashes < MaxCrashes
  /\ crashes' = crashes + 1
  /\ registered' = [registered EXCEPT ![p] = FALSE]
  /\ watch' = [watch EXCEPT ![p] = IdleTick]
  /\ req' = [r \in Requests |-> IF InFlight(r) /\ req[r].proc = p
                                THEN [req[r] EXCEPT !.pc = "lost"] ELSE req[r]]
  /\ UNCHANGED <<committed, applied, row, active, baked, artifact, pushed,
                 streamed, loadFailures>>

-----------------------------------------------------------------------------
Database ==
  \/ \E w \in Writes : Commit(w) \/ Invalidate(w) \/ TombstoneDependents(w)
  \/ MarkActive
  \/ ActiveWindowLapses
  \/ \E s \in Slots : RevalidateTimerLapses(s) \/ ClaimExpires(s)

Refresh(p) ==
  \/ RunLoader(p)
  \/ ReadSnapshot(p)
  \/ \E s \in Slots : MarkFresh(p, s)
  \/ WriteSnapshot(p)

Render(r) ==
  \/ CheckDormant(r)
  \/ AnswerJson(r)
  \/ FetchSlotVersions(r)
  \/ LoadPageProps(r)
  \/ Bake(r)
  \/ \E s \in Slots : UpsertSlot(r, s)

Next ==
  \/ Database
  \/ \E p \in Procs : ClaimStale(p) \/ Refresh(p)
  \/ \E p \in Procs : LoaderThrows(p) \/ RefreshFails(p) \/ Restart(p)
  \/ \E p \in Procs, s \in Slots : MarkFails(p, s)
  \/ \E r \in Requests : Arrive(r) \/ Render(r) \/ VersionsFail(r)
  \/ WriteBacks
  \/ DeleteArtifact

Spec == Init /\ [][Next]_vars

\* Notifications are delivered, ticks recur on a timer, and requests and
\* streams are driven by the event loop; nothing obliges a write, a request, a
\* subscription, a deletion or a fault to happen.
Fairness ==
  /\ \A w \in Writes : WF_vars(Invalidate(w)) /\ WF_vars(TombstoneDependents(w))
  /\ \A s \in Slots : WF_vars(ClaimExpires(s))
  /\ \A p \in Procs : WF_vars(ClaimStale(p)) /\ WF_vars(Refresh(p))
  /\ \A r \in Requests : WF_vars(Render(r))
  /\ WF_vars(WriteBacks)

FairSpec == Spec /\ Fairness

-----------------------------------------------------------------------------
(* Properties.                                                             *)

\* The invalidations of slot s that have reached kiln_fsr: what a reader that
\* clears its stale flag must have seen.
Due(s) == {w \in applied \ Deletes : s \in Touches[w]}

\* The version a tick or a render carries is a promise about its data: if the
\* row has not moved since it was captured, the value loaded after it covers
\* every invalidation applied so far.  Both uses of expectedVersion in
\* store.ts (markFresh, upsertSlot) rest on this.
Loaded(p, s) == watch[p].pc \in {"snapshot", "mark"} /\ s \in watch[p].todo

Rendered(r, s) == /\ s \in req[r].seen
                  /\ \/ req[r].pc = "bake"
                     \/ req[r].pc = "upsert" /\ s \in req[r].todo

VersionGuardsRead ==
  \A s \in Slots :
    /\ \A p \in Procs : Loaded(p, s) /\ watch[p].ver[s] = row[s].version
                           => Due(s) \subseteq watch[p].val[s]
    /\ \A r \in Requests : Rendered(r, s) /\ req[r].ver[s] = row[s].version
                           => Due(s) \subseteq req[r].val[s]

\* s goes from stale to fresh in this step.
Cleared(s) == row[s].stale /\ ~row'[s].stale

\* An invalidation is never swallowed: apart from tombstoning, the only steps
\* that clear a stale flag are those of a tick or a render whose value
\* covers every invalidation of the slot applied so far (store.ts:144-158 and
\* 500-504).
ClearsOnlyCovered ==
  \A s \in Slots : Cleared(s) =>
    \/ \E w \in Writes : TombstoneDependents(w)
    \/ \E p \in Procs : MarkFresh(p, s) /\ Due(s) \subseteq watch[p].val[s]
    \/ \E r \in Requests : UpsertSlot(r, s) /\ Due(s) \subseteq req[r].val[s]

NoSwallowedInvalidation == [][ClearsOnlyCovered]_vars

\* At rest, an artifact whose slot is not marked stale reflects every
\* invalidation of that slot: nothing is silently out of date.
NoSilentStaleness ==
  Rest /\ baked => \A s \in Slots :
    row[s].known /\ ~row[s].stale => Due(s) \subseteq artifact[s]

\* A request that asked the database whether the page was dormant-stale
\* answers with a value that covers every invalidation applied before it
\* arrived (docs/agents/rendering-and-caching.md: correct on next read).
CorrectOnNextRead ==
  \A r \in Requests : req[r].pc = "done" /\ req[r].checked =>
    \A s \in Slots :
      {w \in req[r].floor \ Deletes : s \in Touches[w]} \subseteq req[r].val[s]

\* A stale slot of a baked page with an active subscriber and a registered
\* loader is refreshed: failed loads and expired claims are retried.
ActiveSlotsRefresh ==
  \A s \in Slots : \A p \in Procs :
    row[s].stale ~> ~row[s].stale \/ ~active \/ ~baked \/ ~registered[p]

\* At rest, a reader of the artifact sees all that the open pages were pushed,
\* though ticks push what no notification has announced yet: reloading a page
\* never takes it back.
ReloadNeverGoesBack ==
  Rest /\ baked => \A s \in Slots : pushed[s] \subseteq artifact[s]
=============================================================================
