--------------------------- MODULE EventPipeline ---------------------------
(***************************************************************************)
(* How a committed write reaches kiln_fsr: the event log the trigger fills,*)
(* the LISTEN connection and the notification handlers of each process,    *)
(* the catch-up cursor in memory and in kiln_fsr_cursor, the replay after  *)
(* a boot or a reconnect, and the pruning of the log.                      *)
(*                                                                         *)
(* An event is its id in kiln_fsr_events.  Applying it stands for the two  *)
(* statements (table key, row key) its handler or its replay issues, which *)
(* Freshness describes; applying it twice is the same as once.             *)
(***************************************************************************)
EXTENDS Integers, FiniteSets, Sequences

CONSTANTS
  MaxEvent,       \* bound: ids handed out to transactions
  Procs,          \* server processes
  Replays,        \* catch-ups that may run at once in one process
  FirstBoot,      \* no process has ever recorded a cursor
  CommitInOrder,  \* transactions commit in the order of their ids
  PromptRead,     \* a catch-up reads the cursor before any notification that
                  \* follows its LISTEN is handled
  Retained,       \* the retention of the log outlasts any catch-up
  MaxDrops,       \* bound: lost LISTEN connections
  MaxStops,       \* bound: processes that stop or die
  MaxFailures,    \* bound: failed statements
  MaxFaults       \* bound: drops, stops and failures together

ASSUME PipelineAssumption ==
  /\ MaxEvent \in Nat
  /\ Procs # {}
  /\ {FirstBoot, CommitInOrder, PromptRead, Retained} \subseteq BOOLEAN
  /\ MaxDrops \in Nat
  /\ MaxStops \in Nat
  /\ MaxFailures \in Nat
  /\ MaxFaults \in Nat

Events == 1..MaxEvent

\* A cursor is an event id, 0 before the first, or NoCursor (null).
NoCursor == -1
Cursors == NoCursor..MaxEvent

VARIABLES
  committed,  \* events whose transaction has committed
  logged,     \* rows of kiln_fsr_events
  applied,    \* events applied to kiln_fsr
  cursor,     \* kiln_fsr_cursor
  phase,      \* where each process is in its life
  inbox,      \* notifications on its connection, not yet handled
  handling,   \* notifications being handled
  last,       \* lastEventId
  pending,    \* pendingCursorId
  timer,      \* cursorFlushTimer is set
  flushing,   \* ids being written by flushCursor
  replay,     \* the catch-ups in progress
  floor,      \* the greatest head adopted for want of a cursor: a process
              \* that adopts it declares the events up to it settled
  drops, stops, failures

processVars == <<phase, inbox, handling, last, pending, timer, flushing, replay>>
counters == <<drops, stops, failures>>
vars == <<committed, logged, applied, cursor, processVars, floor, counters>>

Greatest(a, b) == IF a > b THEN a ELSE b

\* Of a set of events, the one with the greatest id, and the one with the least.
Latest(S) == {e \in S : \A d \in S : d <= e}
Earliest(S) == {e \in S : \A d \in S : e <= d}

-----------------------------------------------------------------------------
Phases == {"stopped", "starting", "connecting", "listening"}

\* A catch-up: the cursor it starts from, what it has yet to replay, and the
\* last event it fetched (or the head it adopts).
Replay == [pc : {"idle", "read", "head", "adopt", "fetch", "apply"}, from : Cursors,
           todo : SUBSET Events, upto : Cursors]

IdleReplay == [pc |-> "idle", from |-> NoCursor, todo |-> {}, upto |-> NoCursor]

\* (Mistake: a connection that listens again and replays nothing.)
NoReplay == IdleReplay

NewReplay == [IdleReplay EXCEPT !.pc = "read"]

TypeOK ==
  /\ committed \subseteq Events
  /\ logged \subseteq committed
  /\ applied \subseteq committed
  /\ cursor \in Cursors
  /\ phase \in [Procs -> Phases]
  /\ inbox \in [Procs -> Seq(Events)]
  /\ handling \in [Procs -> SUBSET Events]
  /\ last \in [Procs -> Cursors]
  /\ pending \in [Procs -> Cursors]
  /\ timer \in [Procs -> BOOLEAN]
  /\ flushing \in [Procs -> SUBSET Events]
  /\ replay \in [Procs -> [Replays -> Replay]]
  /\ floor \in Cursors
  /\ drops \in Nat /\ stops \in Nat /\ failures \in Nat

Init ==
  /\ committed = {} /\ logged = {} /\ applied = {}
  /\ cursor = IF FirstBoot THEN NoCursor ELSE 0
  /\ phase = [p \in Procs |-> "stopped"]
  /\ inbox = [p \in Procs |-> <<>>]
  /\ handling = [p \in Procs |-> {}]
  /\ last = [p \in Procs |-> NoCursor]
  /\ pending = [p \in Procs |-> NoCursor]
  /\ timer = [p \in Procs |-> FALSE]
  /\ flushing = [p \in Procs |-> {}]
  /\ replay = [p \in Procs |-> [k \in Replays |-> IdleReplay]]
  /\ floor = cursor
  /\ drops = 0 /\ stops = 0 /\ failures = 0

-----------------------------------------------------------------------------
(* The database.                                                           *)

\* A transaction commits: its event becomes visible and NOTIFY reaches every
\* connection that listens.  The id was assigned when its trigger ran.
Commit(e) ==
  /\ e \notin committed
  /\ CommitInOrder => \A d \in Events : d < e => d \in committed
  /\ committed' = committed \union {e}
  /\ logged' = logged \union {e}
  /\ inbox' = [p \in Procs |-> IF phase[p] = "listening"
                               THEN Append(inbox[p], e) ELSE inbox[p]]
  /\ UNCHANGED <<applied, cursor, phase, handling, last, pending, timer,
                 flushing, replay, floor, counters>>

\* (Mistake: the last writer wins.)
Overwritten(c) == c

\* writeEventCursor: GREATEST, whoever writes.
Advanced(c) == Greatest(cursor, c)

\* (Mistake: retention alone decides.)
PrunableByAge(e) == TRUE

\* The watermark of pruneAppliedEvents.
Prunable(e) == e <= cursor

\* pruneAppliedEvents: rows up to the cursor and older than the retention.
Prune ==
  /\ Retained => \A p \in Procs, k \in Replays :
                   replay[p][k].pc \notin {"head", "fetch"}
  /\ \E e \in logged : Prunable(e) /\ logged' = {d \in logged : d > e}
  /\ UNCHANGED <<committed, applied, cursor, processVars, floor, counters>>

-----------------------------------------------------------------------------
(* Life of a process: watcher.start(), then the notification pipeline.     *)

Boot(p) ==
  /\ phase[p] = "stopped"
  /\ phase' = [phase EXCEPT ![p] = "starting"]
  /\ \E k \in Replays : replay' = [replay EXCEPT ![p][k] = NewReplay]
  /\ UNCHANGED <<committed, logged, applied, cursor, inbox, handling, last,
                 pending, timer, flushing, floor, counters>>

\* start() awaits its catch-up before the pipeline connects.
Started(p) ==
  /\ phase[p] = "starting"
  /\ \A k \in Replays : replay[p][k].pc = "idle"
  /\ phase' = [phase EXCEPT ![p] = "connecting"]
  /\ UNCHANGED <<committed, logged, applied, cursor, inbox, handling, last,
                 pending, timer, flushing, replay, floor, counters>>

\* LISTEN, then catch up: on the first connection and on every later one.
Connect(p) ==
  /\ phase[p] = "connecting"
  /\ phase' = [phase EXCEPT ![p] = "listening"]
  /\ \E k \in Replays : /\ replay[p][k].pc = "idle"
                        /\ replay' = [replay EXCEPT ![p][k] = NewReplay]
  /\ UNCHANGED <<committed, logged, applied, cursor, inbox, handling, last,
                 pending, timer, flushing, floor, counters>>

\* The connection is lost with what it had not delivered; the process, its
\* handlers and its catch-ups go on.
Drop(p) ==
  /\ drops < MaxDrops
  /\ drops' = drops + 1
  /\ phase[p] = "listening"
  /\ phase' = [phase EXCEPT ![p] = "connecting"]
  /\ inbox' = [inbox EXCEPT ![p] = <<>>]
  /\ UNCHANGED <<committed, logged, applied, cursor, handling, last, pending,
                 timer, flushing, replay, floor, stops, failures>>

\* stop() flushes the pending cursor under a time limit, a crash does not,
\* and a write already under way may or may not land.
Stop(p) ==
  /\ stops < MaxStops
  /\ stops' = stops + 1
  /\ phase[p] # "stopped"
  /\ \E c \in {cursor, pending[p]} \union flushing[p] : cursor' = Advanced(c)
  /\ phase' = [phase EXCEPT ![p] = "stopped"]
  /\ inbox' = [inbox EXCEPT ![p] = <<>>]
  /\ handling' = [handling EXCEPT ![p] = {}]
  /\ last' = [last EXCEPT ![p] = NoCursor]
  /\ pending' = [pending EXCEPT ![p] = NoCursor]
  /\ timer' = [timer EXCEPT ![p] = FALSE]
  /\ flushing' = [flushing EXCEPT ![p] = {}]
  /\ replay' = [replay EXCEPT ![p] = [k \in Replays |-> IdleReplay]]
  /\ UNCHANGED <<committed, logged, applied, floor, drops, failures>>

-----------------------------------------------------------------------------
(* Notifications: wireClient's handler.                                    *)

\* The callback starts: its statements are issued, nothing awaits an earlier
\* callback's.
Deliver(p) ==
  /\ inbox[p] # <<>>
  /\ PromptRead => \A k \in Replays : replay[p][k].pc # "read"
  /\ inbox' = [inbox EXCEPT ![p] = Tail(@)]
  /\ handling' = [handling EXCEPT ![p] = @ \union {Head(inbox[p])}]
  /\ UNCHANGED <<committed, logged, applied, cursor, phase, last, pending,
                 timer, flushing, replay, floor, counters>>

\* (Mistake: the mark counts notifications instead of taking their ids.)
CountNotification(p, e) ==
  /\ last' = [last EXCEPT ![p] = @ + 1]
  /\ pending' = [pending EXCEPT ![p] = Greatest(@, e)]
  /\ timer' = [timer EXCEPT ![p] = TRUE]

\* updateCursor.
UpdateCursor(p, e) ==
  /\ last' = [last EXCEPT ![p] = Greatest(@, e)]
  /\ pending' = [pending EXCEPT ![p] = Greatest(@, e)]
  /\ timer' = [timer EXCEPT ![p] = TRUE]

\* The invalidations are persisted; then the cursor moves.
Handle(p, e) ==
  /\ e \in handling[p]
  /\ handling' = [handling EXCEPT ![p] = @ \ {e}]
  /\ applied' = applied \union {e}
  /\ UpdateCursor(p, e)
  /\ UNCHANGED <<committed, logged, cursor, phase, inbox, flushing, replay,
                 floor, counters>>

\* notifyChange and notifyDelete log a failed statement and resolve.
HandleFails(p, e) ==
  /\ failures < MaxFailures
  /\ failures' = failures + 1
  /\ e \in handling[p]
  /\ handling' = [handling EXCEPT ![p] = @ \ {e}]
  /\ UpdateCursor(p, e)
  /\ UNCHANGED <<committed, logged, applied, cursor, phase, inbox, flushing,
                 replay, floor, drops, stops>>

-----------------------------------------------------------------------------
(* flushCursor.                                                            *)

FlushTimer(p) ==
  /\ timer[p]
  /\ timer' = [timer EXCEPT ![p] = FALSE]
  /\ pending' = [pending EXCEPT ![p] = NoCursor]
  /\ flushing' = [flushing EXCEPT ![p] = @ \union ({pending[p]} \ {NoCursor})]
  /\ UNCHANGED <<committed, logged, applied, cursor, phase, inbox, handling,
                 last, replay, floor, counters>>

FlushLands(p, c) ==
  /\ c \in flushing[p]
  /\ cursor' = Advanced(c)
  /\ flushing' = [flushing EXCEPT ![p] = @ \ {c}]
  /\ UNCHANGED <<committed, logged, applied, phase, inbox, handling, last,
                 pending, timer, replay, floor, counters>>

\* The id is put back for the flush of the next event.
FlushFails(p, c) ==
  /\ failures < MaxFailures
  /\ failures' = failures + 1
  /\ c \in flushing[p]
  /\ pending' = [pending EXCEPT ![p] = Greatest(@, c)]
  /\ flushing' = [flushing EXCEPT ![p] = @ \ {c}]
  /\ UNCHANGED <<committed, logged, applied, cursor, phase, inbox, handling,
                 last, timer, replay, floor, drops, stops>>

-----------------------------------------------------------------------------
(* catchUpMissedEvents.                                                    *)

\* The greater of the cursor in memory and the stored one; null if neither.
\* It is adopted in memory at once.
ReadCursor(p, k) ==
  LET from == Greatest(last[p], cursor) IN
  /\ replay[p][k].pc = "read"
  /\ replay' = [replay EXCEPT
       ![p][k] = [@ EXCEPT !.pc = IF from = NoCursor THEN "head" ELSE "fetch",
                           !.from = from]]
  /\ last' = [last EXCEPT ![p] = Greatest(@, from)]
  /\ UNCHANGED <<committed, logged, applied, cursor, phase, inbox, handling,
                 pending, timer, flushing, floor, counters>>

\* No cursor anywhere: getLatestEventId ...
ReadHead(p, k) ==
  /\ replay[p][k].pc = "head"
  /\ \E head \in IF logged = {} THEN {0} ELSE Latest(logged) :
       replay' = [replay EXCEPT ![p][k].pc = "adopt", ![p][k].upto = head]
  /\ UNCHANGED <<committed, logged, applied, cursor, phase, inbox, handling,
                 last, pending, timer, flushing, floor, counters>>

\* ... is adopted, and nothing replayed.  The mark in memory is assigned, not
\* raised.
AdoptHead(p, k) ==
  LET head == replay[p][k].upto IN
  /\ replay[p][k].pc = "adopt"
  /\ last' = [last EXCEPT ![p] = head]
  /\ floor' = Greatest(floor, head)
  /\ cursor' = IF head > 0 THEN Advanced(head) ELSE cursor
  /\ replay' = [replay EXCEPT ![p][k] = IdleReplay]
  /\ UNCHANGED <<committed, logged, applied, phase, inbox, handling, pending,
                 timer, flushing, counters>>

\* fetchEventsSince.
FetchEvents(p, k) ==
  LET todo == {e \in logged : e > replay[p][k].from} IN
  /\ replay[p][k].pc = "fetch"
  /\ \/ /\ todo = {}
        /\ replay' = [replay EXCEPT ![p][k] = IdleReplay]
     \/ \E upto \in Latest(todo) :
          replay' = [replay EXCEPT ![p][k] =
                       [@ EXCEPT !.pc = "apply", !.todo = todo, !.upto = upto]]
  /\ UNCHANGED <<committed, logged, applied, cursor, phase, inbox, handling,
                 last, pending, timer, flushing, floor, counters>>

\* One event of the loop, in id order.
ReplayEvent(p, k) ==
  /\ replay[p][k].pc = "apply"
  /\ \E next \in Earliest(replay[p][k].todo) :
       /\ applied' = applied \union {next}
       /\ replay' = [replay EXCEPT ![p][k].todo = @ \ {next}]
  /\ UNCHANGED <<committed, logged, cursor, phase, inbox, handling, last,
                 pending, timer, flushing, floor, counters>>

\* After the loop the cursor moves, in memory and in the table.
FinishReplay(p, k) ==
  LET upto == replay[p][k].upto IN
  /\ replay[p][k].pc = "apply"
  /\ replay[p][k].todo = {}
  /\ last' = [last EXCEPT ![p] = Greatest(@, upto)]
  /\ cursor' = Advanced(upto)
  /\ replay' = [replay EXCEPT ![p][k] = IdleReplay]
  /\ UNCHANGED <<committed, logged, applied, phase, inbox, handling, pending,
                 timer, flushing, floor, counters>>

\* Any statement of the catch-up fails: it is logged, and not retried.
ReplayFails(p, k) ==
  /\ failures < MaxFailures
  /\ failures' = failures + 1
  /\ replay[p][k].pc # "idle"
  /\ replay' = [replay EXCEPT ![p][k] = IdleReplay]
  /\ UNCHANGED <<committed, logged, applied, cursor, phase, inbox, handling,
                 last, pending, timer, flushing, floor, drops, stops>>

-----------------------------------------------------------------------------
Lifecycle(p) == Boot(p) \/ Started(p) \/ Connect(p)

CatchUp(p, k) ==
  \/ ReadCursor(p, k)
  \/ ReadHead(p, k)
  \/ AdoptHead(p, k)
  \/ FetchEvents(p, k)
  \/ ReplayEvent(p, k)
  \/ FinishReplay(p, k)

Fault(p) ==
  /\ drops + stops + failures < MaxFaults
  /\ \/ Drop(p)
     \/ Stop(p)
     \/ \E e \in Events : HandleFails(p, e) \/ FlushFails(p, e)
     \/ \E k \in Replays : ReplayFails(p, k)

Next ==
  \/ \E e \in Events : Commit(e)
  \/ Prune
  \/ \E p \in Procs :
       \/ Lifecycle(p)
       \/ Deliver(p)
       \/ \E e \in Events : Handle(p, e) \/ FlushLands(p, e)
       \/ FlushTimer(p)
       \/ \E k \in Replays : CatchUp(p, k)
       \/ Fault(p)

Spec == Init /\ [][Next]_vars

-----------------------------------------------------------------------------
(* Properties.                                                             *)

\* The event is with a process that will apply it.
Held(e) ==
  \E p \in Procs :
    \/ e \in handling[p]
    \/ \E i \in DOMAIN inbox[p] : inbox[p][i] = e
    \/ \E k \in Replays : e \in replay[p][k].todo

\* A catch-up that starts, or has started, will fetch the event.
WillFetch(e) ==
  \E p \in Procs :
    \/ phase[p] # "listening"
    \/ \E k \in Replays : \/ replay[p][k].pc = "read"
                          \/ replay[p][k].pc = "fetch" /\ replay[p][k].from < e

\* A cursor, stored or in memory, has reached the event.
Passed(e) == e <= cursor \/ \E p \in Procs : e <= last[p]

\* As long as no statement fails, a committed event that is not applied is
\* on its way, or in the log where a catch-up will find it, or a cursor has
\* passed it: crashes, drops and pruning alone lose nothing above the cursor.
LostOnlyBelowCursor ==
  failures = 0 => \A e \in committed \ applied :
    \/ Held(e)
    \/ e \in logged /\ WillFetch(e)
    \/ Passed(e)

\* The stored cursor never moves back, and neither does the mark of a process
\* while it lives, whatever the order in which handlers, flushes and replays
\* of several processes finish.  The one exception is a head that was read
\* before a notification was handled and is adopted after it (watcher.ts:437).
CursorNeverRewinds ==
  [][/\ cursor' >= cursor
     /\ \A p \in Procs :
          \/ last'[p] >= last[p]
          \/ phase'[p] = "stopped"
          \/ \E k \in Replays : AdoptHead(p, k)]_vars

Owed == {e \in committed : e > floor}

Quiet ==
  \A p \in Procs :
    /\ phase[p] = "listening"
    /\ inbox[p] = <<>>
    /\ handling[p] = {}
    /\ \A k \in Replays : replay[p][k].pc = "idle"

\* Lost connections lose no event: once every process listens again and has
\* nothing left to do, every committed event has been applied.
NothingMissed ==
  Quiet /\ failures = 0 /\ stops = 0 => Owed \subseteq applied

\* The same with processes that stop and boot again.
NothingMissedAcrossRestarts ==
  Quiet /\ failures = 0 => Owed \subseteq applied
=============================================================================
