------------------------- MODULE EventPipelineProofs -------------------------
(***************************************************************************)
(* Theorems about EventPipeline, for any number of events, processes and   *)
(* catch-ups and any bounds: the types, that cursors only move forward and *)
(* that nothing is lost above a cursor.                                    *)
(***************************************************************************)
EXTENDS EventPipeline, TLAPS

\* A mark is null, zero or an event that is visible.
Marks == committed \union {NoCursor, 0}

\* Whatever a process holds is visible.
Known(p) ==
  /\ last[p] \in Marks /\ pending[p] \in Marks \ {0}
  /\ handling[p] \subseteq committed /\ flushing[p] \subseteq committed
  /\ \A i \in DOMAIN inbox[p] : inbox[p][i] \in committed

\* What the fields of a catch-up mean at its stages.
ReplayOK(r) ==
  /\ r.pc = "idle" => r = IdleReplay
  /\ r.pc # "apply" => r.todo = {}
  /\ r.todo \subseteq committed
  /\ r.from \in Marks /\ r.upto \in Marks

\* A process that is stopped replays nothing, one without a connection has
\* nothing on it.
PhaseOK(p) ==
  /\ phase[p] = "stopped" => \A k \in Replays : replay[p][k].pc = "idle"
  /\ phase[p] # "listening" => inbox[p] = <<>>

ProcOK == \A p \in Procs : Known(p) /\ PhaseOK(p) /\ \A k \in Replays : ReplayOK(replay[p][k])

\* Only what the cursor has reached is pruned.
LogOK ==
  /\ cursor \in Marks /\ floor \in Marks
  /\ \A e \in committed : e \in logged \/ e <= cursor

\* A process connects once it has a mark, and only before that adopts a head.
MarkedOnce(p) ==
  /\ phase[p] \in {"connecting", "listening"} => last[p] >= 0
  /\ phase[p] = "starting" =>
       last[p] >= 0 \/ \E k \in Replays : replay[p][k].pc \in {"read", "head", "adopt"}
  /\ \A k \in Replays :
       /\ replay[p][k].pc \in {"head", "adopt"} => phase[p] = "starting"
       /\ replay[p][k].pc = "adopt" => replay[p][k].upto >= 0
       /\ replay[p][k].pc \in {"fetch", "apply"} => last[p] >= 0

HeadOK == failures = 0 => \A p \in Procs : MarkedOnce(p)

Inv == TypeOK /\ ProcOK /\ LogOK

IInv == Inv /\ HeadOK /\ LostOnlyBelowCursor

-----------------------------------------------------------------------------

\* A mark is a cursor.
LEMMA MarksAreCursors == TypeOK => Marks \subseteq Cursors
  BY PipelineAssumption DEF TypeOK, Marks, Cursors, Events, NoCursor

\* Marks are integers, and so are events.
LEMMA MarksAreInts == TypeOK => Marks \subseteq Int
  BY PipelineAssumption DEF TypeOK, Marks, Events, NoCursor

\* The greater of two marks is one of them.
LEMMA GreatestIsGreatest ==
  ASSUME NEW a \in Int, NEW b \in Int
  PROVE  Greatest(a, b) \in {a, b} /\ Greatest(a, b) >= a /\ Greatest(a, b) >= b
  BY DEF Greatest

\* The catch-up k of process p becomes r.
Becomes(p, k, r) == replay' = [replay EXCEPT ![p][k] = r]

\* The other catch-ups are what they were.
LEMMA Became ==
  ASSUME TypeOK, NEW p \in Procs, NEW k \in Replays, NEW r \in Replay, Becomes(p, k, r)
  PROVE  /\ replay' \in [Procs -> [Replays -> Replay]]
         /\ replay'[p][k] = r
         /\ \A q \in Procs, j \in Replays :
              q # p \/ j # k => replay'[q][j] = replay[q][j]
  BY DEF TypeOK, Becomes

\* A step of a catch-up keeps Inv if what it makes of the catch-up and of the
\* marks is in order.
LEMMA CatchUpStep ==
  ASSUME Inv, NEW p \in Procs, NEW k \in Replays, NEW r \in Replay,
         Becomes(p, k, r), ReplayOK(r),
         phase' \in [Procs -> Phases],
         phase[p] = "stopped" /\ phase'[p] = "stopped" => r.pc = "idle",
         \A q \in Procs : phase'[q] = "stopped" => phase[q] = "stopped",
         \A q \in Procs : phase'[q] # "listening" => phase[q] # "listening",
         last' \in [Procs -> Marks], {cursor', floor'} \subseteq Marks,
         cursor' >= cursor, applied' \subseteq committed, failures' \in Nat,
         UNCHANGED <<committed, logged, inbox, handling, pending, timer, flushing,
                     drops, stops>>
  PROVE  Inv'
<1>1. /\ replay' \in [Procs -> [Replays -> Replay]]
      /\ replay'[p][k] = r
      /\ \A q \in Procs, j \in Replays : q # p \/ j # k => replay'[q][j] = replay[q][j]
  BY Became DEF Inv
<1>2. Marks' = Marks /\ Marks \subseteq Cursors
  BY MarksAreCursors DEF Inv, Marks
<1>3. TypeOK'
  BY <1>1, <1>2 DEF Inv, TypeOK
<1>4. ASSUME NEW q \in Procs PROVE Known(q)'
  BY <1>2 DEF Inv, TypeOK, ProcOK, Known
<1>5. ASSUME NEW q \in Procs, NEW j \in Replays PROVE ReplayOK(replay[q][j])'
  BY <1>1, <1>2 DEF Inv, ProcOK, ReplayOK
<1>6. ASSUME NEW q \in Procs PROVE PhaseOK(q)'
  BY <1>1 DEF Inv, ProcOK, PhaseOK
<1>7. LogOK'
  <2>1. cursor \in Int /\ cursor' \in Int /\ committed \subseteq Int
    BY <1>2, MarksAreInts DEF Inv, LogOK, Marks
  <2>2. QED
    BY <1>2, <2>1 DEF Inv, LogOK
<1>8. QED
  BY <1>3, <1>4, <1>5, <1>6, <1>7 DEF Inv, ProcOK

\* Pruning removes from the log what the cursor has reached.
LEMMA PruneInv ==
  ASSUME Inv, Prune
  PROVE  Inv'
<1> USE DEF Inv, Prune, Prunable, processVars, counters, NoCursor
<1>1. TypeOK'
  BY PipelineAssumption DEF TypeOK, Phases, ProcOK, Known, LogOK, Marks, Events, Cursors
<1>2. Marks' = Marks
  BY DEF Marks
<1>3. ASSUME NEW q \in Procs PROVE Known(q)'
  BY <1>2, PipelineAssumption DEF TypeOK, ProcOK, Known, LogOK, Marks, Events, Cursors
<1>4. ASSUME NEW q \in Procs PROVE PhaseOK(q)' /\ \A j \in Replays : ReplayOK(replay[q][j])'
  BY <1>2 DEF TypeOK, ProcOK, ReplayOK, PhaseOK
<1>5. LogOK'
  BY <1>2 DEF TypeOK, ProcOK, Known, LogOK, Marks, Events, Cursors
<1>6. QED
  BY <1>1, <1>3, <1>4, <1>5 DEF ProcOK

\* A boot is over, and the process goes on to connect.
LEMMA StartedInv ==
  ASSUME Inv, NEW p \in Procs, Started(p)
  PROVE  Inv'
<1> USE DEF Inv, Started, processVars, counters, NoCursor
<1>1. TypeOK'
  BY PipelineAssumption DEF TypeOK, Phases, ProcOK, Known, LogOK, Marks, Events, Cursors
<1>2. Marks' = Marks
  BY DEF Marks
<1>3. ASSUME NEW q \in Procs PROVE Known(q)'
  BY <1>2, PipelineAssumption DEF TypeOK, ProcOK, Known, LogOK, Marks, Events, Cursors
<1>4. ASSUME NEW q \in Procs PROVE PhaseOK(q)' /\ \A j \in Replays : ReplayOK(replay[q][j])'
  BY <1>2 DEF TypeOK, ProcOK, ReplayOK, PhaseOK
<1>5. LogOK'
  BY <1>2 DEF TypeOK, ProcOK, Known, LogOK, Marks, Events, Cursors
<1>6. QED
  BY <1>1, <1>3, <1>4, <1>5 DEF ProcOK

\* A connection drops, and takes what was on it along.
LEMMA DropInv ==
  ASSUME Inv, NEW p \in Procs, Drop(p)
  PROVE  Inv'
<1> USE DEF Inv, Drop, processVars, counters, NoCursor
<1>1. TypeOK'
  BY PipelineAssumption DEF TypeOK, Phases, ProcOK, Known, LogOK, Marks, Events, Cursors
<1>2. Marks' = Marks
  BY DEF Marks
<1>3. ASSUME NEW q \in Procs PROVE Known(q)'
  BY <1>2, PipelineAssumption DEF TypeOK, ProcOK, Known, LogOK, Marks, Events, Cursors
<1>4. ASSUME NEW q \in Procs PROVE PhaseOK(q)' /\ \A j \in Replays : ReplayOK(replay[q][j])'
  BY <1>2 DEF TypeOK, ProcOK, ReplayOK, PhaseOK
<1>5. LogOK'
  BY <1>2 DEF TypeOK, ProcOK, Known, LogOK, Marks, Events, Cursors
<1>6. QED
  BY <1>1, <1>3, <1>4, <1>5 DEF ProcOK

\* A handler ends: the mark and the pending one are of its event.
LEMMA HandleInv ==
  ASSUME Inv, NEW p \in Procs, NEW e \in Events, Handle(p, e)
  PROVE  Inv'
<1> USE DEF Inv, Handle, UpdateCursor, Greatest, processVars, counters, NoCursor
<1>1. TypeOK'
  BY PipelineAssumption DEF TypeOK, Phases, ProcOK, Known, LogOK, Marks, Events, Cursors
<1>2. Marks' = Marks
  BY DEF Marks
<1>3. ASSUME NEW q \in Procs PROVE Known(q)'
  BY <1>2, PipelineAssumption DEF TypeOK, ProcOK, Known, LogOK, Marks, Events, Cursors
<1>4. ASSUME NEW q \in Procs PROVE PhaseOK(q)' /\ \A j \in Replays : ReplayOK(replay[q][j])'
  BY <1>2 DEF TypeOK, ProcOK, ReplayOK, PhaseOK
<1>5. LogOK'
  BY <1>2 DEF TypeOK, ProcOK, Known, LogOK, Marks, Events, Cursors
<1>6. QED
  BY <1>1, <1>3, <1>4, <1>5 DEF ProcOK

\* A handler whose statement fails is gone.
LEMMA HandleFailsInv ==
  ASSUME Inv, NEW p \in Procs, NEW e \in Events, HandleFails(p, e)
  PROVE  Inv'
<1> USE DEF Inv, HandleFails, UpdateCursor, Greatest, processVars, counters, NoCursor
<1>1. TypeOK'
  BY PipelineAssumption DEF TypeOK, Phases, ProcOK, Known, LogOK, Marks, Events, Cursors
<1>2. Marks' = Marks
  BY DEF Marks
<1>3. ASSUME NEW q \in Procs PROVE Known(q)'
  BY <1>2, PipelineAssumption DEF TypeOK, ProcOK, Known, LogOK, Marks, Events, Cursors
<1>4. ASSUME NEW q \in Procs PROVE PhaseOK(q)' /\ \A j \in Replays : ReplayOK(replay[q][j])'
  BY <1>2 DEF TypeOK, ProcOK, ReplayOK, PhaseOK
<1>5. LogOK'
  BY <1>2 DEF TypeOK, ProcOK, Known, LogOK, Marks, Events, Cursors
<1>6. QED
  BY <1>1, <1>3, <1>4, <1>5 DEF ProcOK

\* The flush timer fires: the pending mark is on its way.
LEMMA FlushTimerInv ==
  ASSUME Inv, NEW p \in Procs, FlushTimer(p)
  PROVE  Inv'
<1> USE DEF Inv, FlushTimer, processVars, counters, NoCursor
<1>1. TypeOK'
  BY PipelineAssumption DEF TypeOK, Phases, ProcOK, Known, LogOK, Marks, Events, Cursors
<1>2. Marks' = Marks
  BY DEF Marks
<1>3. ASSUME NEW q \in Procs PROVE Known(q)'
  BY <1>2, PipelineAssumption DEF TypeOK, ProcOK, Known, LogOK, Marks, Events, Cursors
<1>4. ASSUME NEW q \in Procs PROVE PhaseOK(q)' /\ \A j \in Replays : ReplayOK(replay[q][j])'
  BY <1>2 DEF TypeOK, ProcOK, ReplayOK, PhaseOK
<1>5. LogOK'
  BY <1>2 DEF TypeOK, ProcOK, Known, LogOK, Marks, Events, Cursors
<1>6. QED
  BY <1>1, <1>3, <1>4, <1>5 DEF ProcOK

\* A flush raises the cursor to a mark.
LEMMA FlushLandsInv ==
  ASSUME Inv, NEW p \in Procs, NEW e \in Events, FlushLands(p, e)
  PROVE  Inv'
<1> USE DEF Inv, FlushLands, Advanced, Greatest, processVars, counters, NoCursor
<1>1. TypeOK'
  BY PipelineAssumption DEF TypeOK, Phases, ProcOK, Known, LogOK, Marks, Events, Cursors
<1>2. Marks' = Marks
  BY DEF Marks
<1>3. ASSUME NEW q \in Procs PROVE Known(q)'
  BY <1>2, PipelineAssumption DEF TypeOK, ProcOK, Known, LogOK, Marks, Events, Cursors
<1>4. ASSUME NEW q \in Procs PROVE PhaseOK(q)' /\ \A j \in Replays : ReplayOK(replay[q][j])'
  BY <1>2 DEF TypeOK, ProcOK, ReplayOK, PhaseOK
<1>5. LogOK'
  BY <1>2 DEF TypeOK, ProcOK, Known, LogOK, Marks, Events, Cursors
<1>6. QED
  BY <1>1, <1>3, <1>4, <1>5 DEF ProcOK

\* A flush that fails is gone.
LEMMA FlushFailsInv ==
  ASSUME Inv, NEW p \in Procs, NEW e \in Events, FlushFails(p, e)
  PROVE  Inv'
<1> USE DEF Inv, FlushFails, Greatest, processVars, counters, NoCursor
<1>1. TypeOK'
  BY PipelineAssumption DEF TypeOK, Phases, ProcOK, Known, LogOK, Marks, Events, Cursors
<1>2. Marks' = Marks
  BY DEF Marks
<1>3. ASSUME NEW q \in Procs PROVE Known(q)'
  BY <1>2, PipelineAssumption DEF TypeOK, ProcOK, Known, LogOK, Marks, Events, Cursors
<1>4. ASSUME NEW q \in Procs PROVE PhaseOK(q)' /\ \A j \in Replays : ReplayOK(replay[q][j])'
  BY <1>2 DEF TypeOK, ProcOK, ReplayOK, PhaseOK
<1>5. LogOK'
  BY <1>2 DEF TypeOK, ProcOK, Known, LogOK, Marks, Events, Cursors
<1>6. QED
  BY <1>1, <1>3, <1>4, <1>5 DEF ProcOK

\* What is left of a sequence when its head is taken.
LEMMA HeadAndTail ==
  ASSUME NEW S, NEW s \in Seq(S), s # <<>>
  PROVE  /\ 1 \in DOMAIN s /\ Head(s) = s[1] /\ Head(s) \in S
         /\ Tail(s) \in Seq(S)
         /\ \A i \in DOMAIN Tail(s) : i + 1 \in DOMAIN s /\ Tail(s)[i] = s[i + 1]
         /\ \A i \in DOMAIN s \ {1} : i - 1 \in DOMAIN Tail(s) /\ Tail(s)[i - 1] = s[i]
  OBVIOUS

\* A notification leaves the connection for a handler.
LEMMA DeliverInv ==
  ASSUME Inv, NEW p \in Procs, Deliver(p)
  PROVE  Inv'
<1> USE DEF Inv, Deliver, counters
<1>1. /\ Head(inbox[p]) \in committed \cap Events
      /\ Tail(inbox[p]) \in Seq(Events)
      /\ \A i \in DOMAIN Tail(inbox[p]) : Tail(inbox[p])[i] \in committed
  <2>1. inbox[p] \in Seq(Events) /\ inbox[p] # <<>>
    BY DEF TypeOK
  <2>2. \A i \in DOMAIN inbox[p] : inbox[p][i] \in committed
    BY DEF ProcOK, Known
  <2>3. QED
    BY <2>1, <2>2, HeadAndTail
<1>2. TypeOK'
  BY <1>1 DEF TypeOK
<1>3. Marks' = Marks
  BY DEF Marks
<1>4. ASSUME NEW q \in Procs PROVE Known(q)'
  <2>1. inbox'[q] = IF q = p THEN Tail(inbox[p]) ELSE inbox[q]
    BY DEF TypeOK
  <2>2. handling'[q] \subseteq handling[q] \union {Head(inbox[p])}
    BY DEF TypeOK
  <2>3. QED
    BY <1>1, <1>3, <2>1, <2>2 DEF ProcOK, Known
<1>5. ASSUME NEW q \in Procs PROVE PhaseOK(q)' /\ \A j \in Replays : ReplayOK(replay[q][j])'
  BY <1>3 DEF TypeOK, ProcOK, ReplayOK, PhaseOK
<1>6. LogOK'
  BY <1>3 DEF LogOK
<1>7. QED
  BY <1>2, <1>4, <1>5, <1>6 DEF ProcOK

\* A commit adds to the log, and to every connection.
LEMMA CommitInv ==
  ASSUME Inv, NEW e \in Events, Commit(e)
  PROVE  Inv'
<1> USE DEF Inv, Commit, counters
<1>1. TypeOK'
  BY DEF TypeOK
<1>2. Marks \subseteq Marks'
  BY DEF Marks
<1>3. ASSUME NEW q \in Procs PROVE Known(q)'
  <2>1. \A i \in DOMAIN inbox'[q] : inbox'[q][i] \in committed'
    BY DEF TypeOK, ProcOK, Known
  <2>2. QED
    BY <1>2, <2>1 DEF TypeOK, ProcOK, Known
<1>4. ASSUME NEW q \in Procs PROVE PhaseOK(q)' /\ \A j \in Replays : ReplayOK(replay[q][j])'
  BY <1>2 DEF TypeOK, ProcOK, ReplayOK, PhaseOK
<1>5. LogOK'
  BY <1>2 DEF TypeOK, LogOK
<1>6. QED
  BY <1>1, <1>3, <1>4, <1>5 DEF ProcOK

\* A process stops and keeps nothing.
LEMMA StopInv ==
  ASSUME Inv, NEW p \in Procs, Stop(p)
  PROVE  Inv'
<1> USE DEF Inv, Stop
<1>1. Marks' = Marks /\ Marks \subseteq Cursors
  BY MarksAreCursors DEF Marks
<1>2. cursor' \in Marks /\ cursor' >= cursor
  <2>1. PICK c \in {cursor, pending[p]} \union flushing[p] : cursor' = Advanced(c)
    OBVIOUS
  <2>2. cursor \in Marks /\ c \in Marks
    BY <2>1 DEF ProcOK, Known, LogOK, Marks
  <2>3. cursor \in Int /\ c \in Int
    BY <1>1, <2>2, MarksAreInts
  <2>4. QED
    BY <2>1, <2>2, <2>3, GreatestIsGreatest DEF Advanced
<1>3. IdleReplay \in Replay /\ ReplayOK(IdleReplay)
  BY <1>1 DEF IdleReplay, Replay, ReplayOK, Marks
<1>4. replay' = [q \in Procs |-> IF q = p THEN [k \in Replays |-> IdleReplay] ELSE replay[q]]
  BY DEF TypeOK
<1>5. TypeOK'
  <2>1. replay' \in [Procs -> [Replays -> Replay]]
    BY <1>3, <1>4 DEF TypeOK
  <2>2. cursor' \in Cursors /\ NoCursor \in Cursors
    BY <1>1, <1>2 DEF Marks
  <2>3. QED
    BY <2>1, <2>2 DEF TypeOK, Phases
<1>6. ASSUME NEW q \in Procs PROVE Known(q)'
  BY <1>1 DEF TypeOK, ProcOK, Known, Marks, NoCursor
<1>7. ASSUME NEW q \in Procs PROVE PhaseOK(q)'
  BY <1>4 DEF TypeOK, ProcOK, PhaseOK, IdleReplay
<1>8. ASSUME NEW q \in Procs, NEW j \in Replays PROVE ReplayOK(replay[q][j])'
  BY <1>1, <1>3, <1>4 DEF ProcOK, ReplayOK
<1>9. LogOK'
  <2>1. cursor \in Int /\ cursor' \in Int /\ committed \subseteq Int
    BY <1>1, <1>2, MarksAreInts DEF LogOK, Marks
  <2>2. QED
    BY <1>1, <1>2, <2>1 DEF LogOK, TypeOK
<1>10. QED
  BY <1>5, <1>6, <1>7, <1>8, <1>9 DEF ProcOK

\* The catch-ups nobody runs and those that begin.
LEMMA ReplayRecords ==
  ASSUME TypeOK
  PROVE  /\ IdleReplay \in Replay /\ ReplayOK(IdleReplay) /\ IdleReplay.pc = "idle"
         /\ NewReplay \in Replay /\ ReplayOK(NewReplay) /\ NewReplay.pc = "read"
  BY MarksAreCursors DEF IdleReplay, NewReplay, Replay, ReplayOK, Marks

\* A process boots: its catch-up begins.
LEMMA BootInv ==
  ASSUME Inv, NEW p \in Procs, Boot(p)
  PROVE  Inv'
<1>1. PICK k \in Replays : Becomes(p, k, NewReplay)
  BY DEF Boot, Becomes
<1>2. /\ phase' \in [Procs -> Phases]
      /\ phase'[p] # "stopped"
      /\ \A q \in Procs : /\ phase'[q] = "stopped" => phase[q] = "stopped"
                          /\ phase'[q] # "listening" => phase[q] # "listening"
  BY DEF Boot, Inv, TypeOK, Phases
<1>3. last' \in [Procs -> Marks] /\ {cursor', floor'} \subseteq Marks /\ cursor' = cursor
  BY DEF Boot, Inv, TypeOK, ProcOK, Known, LogOK
<1>4. cursor \in Int
  BY MarksAreInts DEF Inv, LogOK
<1>5. /\ cursor' >= cursor /\ applied' \subseteq committed /\ failures' \in Nat
      /\ UNCHANGED <<committed, logged, inbox, handling, pending, timer, flushing,
                     drops, stops>>
  BY <1>3, <1>4 DEF Boot, Inv, TypeOK, counters
<1>6. NewReplay \in Replay /\ ReplayOK(NewReplay)
  BY ReplayRecords DEF Inv
<1>7. QED
  BY <1>1, <1>2, <1>3, <1>5, <1>6, CatchUpStep

\* LISTEN: a catch-up begins beside the others.
LEMMA ConnectInv ==
  ASSUME Inv, NEW p \in Procs, Connect(p)
  PROVE  Inv'
<1>1. PICK k \in Replays : Becomes(p, k, NewReplay)
  BY DEF Connect, Becomes
<1>2. /\ phase' \in [Procs -> Phases]
      /\ phase'[p] # "stopped"
      /\ \A q \in Procs : /\ phase'[q] = "stopped" => phase[q] = "stopped"
                          /\ phase'[q] # "listening" => phase[q] # "listening"
  BY DEF Connect, Inv, TypeOK, Phases
<1>3. last' \in [Procs -> Marks] /\ {cursor', floor'} \subseteq Marks /\ cursor' = cursor
  BY DEF Connect, Inv, TypeOK, ProcOK, Known, LogOK
<1>4. cursor \in Int
  BY MarksAreInts DEF Inv, LogOK
<1>5. /\ cursor' >= cursor /\ applied' \subseteq committed /\ failures' \in Nat
      /\ UNCHANGED <<committed, logged, inbox, handling, pending, timer, flushing,
                     drops, stops>>
  BY <1>3, <1>4 DEF Connect, Inv, TypeOK, counters
<1>6. NewReplay \in Replay /\ ReplayOK(NewReplay)
  BY ReplayRecords DEF Inv
<1>7. QED
  BY <1>1, <1>2, <1>3, <1>5, <1>6, CatchUpStep

\* A step of a catch-up of a process that lives leaves the phases alone.
LEMMA LivingCatchUp ==
  ASSUME Inv, NEW p \in Procs, NEW k \in Replays, NEW r \in Replay,
         replay[p][k].pc # "idle", Becomes(p, k, r), ReplayOK(r),
         last' \in [Procs -> Marks], {cursor', floor'} \subseteq Marks,
         cursor' >= cursor, applied' \subseteq committed, failures' \in Nat,
         UNCHANGED <<committed, logged, phase, inbox, handling, pending, timer,
                     flushing, drops, stops>>
  PROVE  Inv'
<1>1. phase[p] # "stopped"
  BY DEF Inv, ProcOK, PhaseOK
<1>2. phase' \in [Procs -> Phases]
  BY DEF Inv, TypeOK
<1>3. QED
  BY <1>1, <1>2, CatchUpStep

\* The record of a catch-up is one.
LEMMA TheReplay ==
  ASSUME Inv, NEW p \in Procs, NEW k \in Replays
  PROVE  replay[p][k] \in Replay /\ ReplayOK(replay[p][k])
  BY DEF Inv, TypeOK, ProcOK

\* A catch-up reads the cursor ...
LEMMA ReadCursorInv ==
  ASSUME Inv, NEW p \in Procs, NEW k \in Replays, ReadCursor(p, k)
  PROVE  Inv'
<1> DEFINE from == Greatest(last[p], cursor)
           r == [replay[p][k] EXCEPT !.pc = IF from = NoCursor THEN "head" ELSE "fetch",
                                     !.from = from]
<1>1. last[p] \in Marks /\ cursor \in Marks /\ floor \in Marks
  BY DEF Inv, ProcOK, Known, LogOK
<1>2. Marks \subseteq Int /\ Marks \subseteq Cursors
  BY MarksAreInts, MarksAreCursors DEF Inv
<1>3. from \in Marks /\ Greatest(last[p], from) \in Marks
  BY <1>1, <1>2, GreatestIsGreatest
<1>4. r \in Replay /\ ReplayOK(r)
  BY <1>2, <1>3, TheReplay DEF ReadCursor, ReplayOK, Replay
<1>5. Becomes(p, k, r)
  BY DEF ReadCursor, Becomes, Inv, TypeOK
<1>6. last' \in [Procs -> Marks]
  BY <1>3 DEF ReadCursor, Inv, TypeOK, ProcOK, Known
<1>7. /\ {cursor', floor'} \subseteq Marks /\ cursor' >= cursor
      /\ applied' \subseteq committed /\ failures' \in Nat
      /\ replay[p][k].pc # "idle"
      /\ UNCHANGED <<committed, logged, phase, inbox, handling, pending, timer,
                     flushing, drops, stops>>
  BY <1>1, <1>2 DEF ReadCursor, Inv, TypeOK, counters
<1>8. QED
  BY <1>4, <1>5, <1>6, <1>7, LivingCatchUp

\* ... or the head of the log, if there is none ...
LEMMA ReadHeadInv ==
  ASSUME Inv, NEW p \in Procs, NEW k \in Replays, ReadHead(p, k)
  PROVE  Inv'
<1>1. PICK head \in IF logged = {} THEN {0} ELSE Latest(logged) :
        replay' = [replay EXCEPT ![p][k].pc = "adopt", ![p][k].upto = head]
  BY DEF ReadHead
<1> DEFINE r == [replay[p][k] EXCEPT !.pc = "adopt", !.upto = head]
<1>2. head \in Marks
  BY DEF Latest, Inv, TypeOK, Marks
<1>3. cursor \in Marks /\ floor \in Marks /\ Marks \subseteq Int /\ Marks \subseteq Cursors
  BY MarksAreInts, MarksAreCursors DEF Inv, LogOK
<1>4. r \in Replay /\ ReplayOK(r)
  BY <1>2, <1>3, TheReplay DEF ReadHead, ReplayOK, Replay
<1>5. Becomes(p, k, r)
  BY <1>1 DEF Becomes, Inv, TypeOK
<1>6. last' \in [Procs -> Marks]
  BY DEF ReadHead, Inv, TypeOK, ProcOK, Known
<1>7. /\ {cursor', floor'} \subseteq Marks /\ cursor' >= cursor
      /\ applied' \subseteq committed /\ failures' \in Nat
      /\ replay[p][k].pc # "idle"
      /\ UNCHANGED <<committed, logged, phase, inbox, handling, pending, timer,
                     flushing, drops, stops>>
  BY <1>3 DEF ReadHead, Inv, TypeOK, counters
<1>8. QED
  BY <1>4, <1>5, <1>6, <1>7, LivingCatchUp

\* ... which it adopts ...
LEMMA AdoptHeadInv ==
  ASSUME Inv, NEW p \in Procs, NEW k \in Replays, AdoptHead(p, k)
  PROVE  Inv'
<1> DEFINE head == replay[p][k].upto
<1>1. head \in Marks /\ cursor \in Marks /\ floor \in Marks /\ Marks \subseteq Int
  BY MarksAreInts DEF Inv, ProcOK, ReplayOK, LogOK
<1>2. {cursor', floor'} \subseteq Marks /\ cursor' >= cursor
  BY <1>1, GreatestIsGreatest DEF AdoptHead, Advanced
<1>3. IdleReplay \in Replay /\ ReplayOK(IdleReplay) /\ Becomes(p, k, IdleReplay)
  BY ReplayRecords DEF Inv, AdoptHead, Becomes
<1>4. last' \in [Procs -> Marks]
  BY <1>1 DEF AdoptHead, Inv, TypeOK, ProcOK, Known
<1>5. QED
  BY <1>2, <1>3, <1>4, LivingCatchUp DEF AdoptHead, Inv, TypeOK, counters

\* ... or fetches the events above it ...
LEMMA FetchEventsInv ==
  ASSUME Inv, NEW p \in Procs, NEW k \in Replays, FetchEvents(p, k)
  PROVE  Inv'
<1> DEFINE todo == {e \in logged : e > replay[p][k].from}
           r(upto) == [replay[p][k] EXCEPT !.pc = "apply", !.todo = todo, !.upto = upto]
<1>1. cursor \in Marks /\ floor \in Marks /\ Marks \subseteq Int /\ Marks \subseteq Cursors
  BY MarksAreInts, MarksAreCursors DEF Inv, LogOK
<1>2. last' \in [Procs -> Marks]
  BY DEF FetchEvents, Inv, TypeOK, ProcOK, Known
<1>3. /\ {cursor', floor'} \subseteq Marks /\ cursor' >= cursor
      /\ applied' \subseteq committed /\ failures' \in Nat
      /\ replay[p][k].pc # "idle"
      /\ UNCHANGED <<committed, logged, phase, inbox, handling, pending, timer,
                     flushing, drops, stops>>
  <2>1. replay[p][k].pc = "fetch"
    BY DEF FetchEvents
  <2>2. UNCHANGED <<committed, logged, applied, cursor, phase, inbox, handling,
                    pending, timer, flushing, floor, counters>>
    BY DEF FetchEvents
  <2>3. QED
    BY <1>1, <2>1, <2>2 DEF Inv, TypeOK, counters
<1>4. CASE Becomes(p, k, IdleReplay)
  <2>1. IdleReplay \in Replay /\ ReplayOK(IdleReplay)
    BY ReplayRecords DEF Inv
  <2>2. QED
    BY <1>2, <1>3, <1>4, <2>1, LivingCatchUp
<1>5. ASSUME NEW upto \in Latest(todo), Becomes(p, k, r(upto))
      PROVE  Inv'
  <2>1. upto \in Marks /\ todo \subseteq committed /\ todo \subseteq Events
    BY DEF Latest, Inv, TypeOK, Marks
  <2>2. r(upto) \in Replay /\ ReplayOK(r(upto))
    <3>1. replay[p][k] \in Replay /\ ReplayOK(replay[p][k]) /\ upto \in Cursors
      BY <1>1, <2>1, TheReplay
    <3>2. todo \in SUBSET Events /\ todo \subseteq committed
      BY <2>1
    <3> HIDE DEF todo
    <3>3. r(upto) \in Replay
      BY <3>1, <3>2 DEF Replay
    <3>4. r(upto).pc = "apply" /\ r(upto).todo = todo /\ r(upto).from = replay[p][k].from
          /\ r(upto).upto = upto
      BY <3>1 DEF Replay
    <3>5. QED
      BY <2>1, <3>1, <3>2, <3>3, <3>4 DEF ReplayOK
  <2>3. QED
    BY <1>2, <1>3, <1>5, <2>2, LivingCatchUp
<1>6. Becomes(p, k, IdleReplay) \/ \E upto \in Latest(todo) : Becomes(p, k, r(upto))
  BY DEF FetchEvents, Becomes, Inv, TypeOK
<1>7. QED
  BY <1>4, <1>5, <1>6

\* ... replays them one by one ...
LEMMA ReplayEventInv ==
  ASSUME Inv, NEW p \in Procs, NEW k \in Replays, ReplayEvent(p, k)
  PROVE  Inv'
<1>1. PICK next \in Earliest(replay[p][k].todo) :
        /\ applied' = applied \union {next}
        /\ replay' = [replay EXCEPT ![p][k].todo = @ \ {next}]
  BY DEF ReplayEvent
<1> DEFINE r == [replay[p][k] EXCEPT !.todo = @ \ {next}]
<1>2. next \in committed
  BY DEF Earliest, Inv, ProcOK, ReplayOK
<1>3. cursor \in Marks /\ floor \in Marks /\ Marks \subseteq Int
  BY MarksAreInts DEF Inv, LogOK
<1>4. r \in Replay /\ ReplayOK(r)
  BY TheReplay DEF ReplayEvent, ReplayOK, Replay
<1>5. Becomes(p, k, r)
  BY <1>1 DEF Becomes, Inv, TypeOK
<1>6. last' \in [Procs -> Marks]
  BY DEF ReplayEvent, Inv, TypeOK, ProcOK, Known
<1>7. /\ {cursor', floor'} \subseteq Marks /\ cursor' >= cursor
      /\ applied' \subseteq committed /\ failures' \in Nat
      /\ replay[p][k].pc # "idle"
      /\ UNCHANGED <<committed, logged, phase, inbox, handling, pending, timer,
                     flushing, drops, stops>>
  BY <1>1, <1>2, <1>3 DEF ReplayEvent, Inv, TypeOK, counters
<1>8. QED
  BY <1>4, <1>5, <1>6, <1>7, LivingCatchUp

\* ... and is done ...
LEMMA FinishReplayInv ==
  ASSUME Inv, NEW p \in Procs, NEW k \in Replays, FinishReplay(p, k)
  PROVE  Inv'
<1> DEFINE upto == replay[p][k].upto
<1>1. /\ upto \in Marks /\ cursor \in Marks /\ floor \in Marks /\ last[p] \in Marks
      /\ Marks \subseteq Int
  BY MarksAreInts DEF Inv, ProcOK, Known, ReplayOK, LogOK
<1>2. cursor' \in Marks /\ cursor' >= cursor /\ Greatest(last[p], upto) \in Marks
  BY <1>1, GreatestIsGreatest DEF FinishReplay, Advanced
<1>3. IdleReplay \in Replay /\ ReplayOK(IdleReplay) /\ Becomes(p, k, IdleReplay)
  BY ReplayRecords DEF Inv, FinishReplay, Becomes
<1>4. last' \in [Procs -> Marks]
  BY <1>2 DEF FinishReplay, Inv, TypeOK, ProcOK, Known
<1>5. QED
  BY <1>1, <1>2, <1>3, <1>4, LivingCatchUp DEF FinishReplay, Inv, TypeOK, counters

\* ... unless a statement of it fails.
LEMMA ReplayFailsInv ==
  ASSUME Inv, NEW p \in Procs, NEW k \in Replays, ReplayFails(p, k)
  PROVE  Inv'
<1>1. cursor \in Marks /\ floor \in Marks /\ Marks \subseteq Int
  BY MarksAreInts DEF Inv, LogOK
<1>2. IdleReplay \in Replay /\ ReplayOK(IdleReplay) /\ Becomes(p, k, IdleReplay)
  BY ReplayRecords DEF Inv, ReplayFails, Becomes
<1>3. last' \in [Procs -> Marks] /\ failures' \in Nat
  BY DEF ReplayFails, Inv, TypeOK, ProcOK, Known
<1>4. /\ {cursor', floor'} \subseteq Marks /\ cursor' >= cursor
      /\ applied' \subseteq committed /\ failures' \in Nat
      /\ replay[p][k].pc # "idle"
      /\ UNCHANGED <<committed, logged, phase, inbox, handling, pending, timer,
                     flushing, drops, stops>>
  BY <1>1 DEF ReplayFails, Inv, TypeOK, counters
<1>5. QED
  BY <1>2, <1>3, <1>4, LivingCatchUp

\* At first no process runs, and the cursor is at what is settled.
LEMMA InitInv == Init => Inv
<1> SUFFICES ASSUME Init PROVE Inv
  OBVIOUS
<1>1. Cursors \subseteq Int /\ {NoCursor, 0} \subseteq Cursors
  BY PipelineAssumption DEF Cursors, NoCursor
<1>2. TypeOK
  BY <1>1 DEF Init, TypeOK, Phases, Replay, IdleReplay
<1>3. \A p \in Procs : Known(p) /\ PhaseOK(p) /\ \A k \in Replays : ReplayOK(replay[p][k])
  BY DEF Init, Known, PhaseOK, ReplayOK, IdleReplay, Marks, NoCursor
<1>4. LogOK
  BY DEF Init, LogOK, Marks
<1>5. QED
  BY <1>2, <1>3, <1>4 DEF Inv, ProcOK

\* The invariant of the types and marks is kept by every step.
LEMMA InvStep ==
  ASSUME Inv, [Next]_vars
  PROVE  Inv'
<1>1. CASE UNCHANGED vars
  BY <1>1 DEF vars, processVars, counters, Inv, TypeOK, ProcOK, Known, PhaseOK,
              ReplayOK, LogOK, Marks
<1>2. ASSUME NEW e \in Events, Commit(e) PROVE Inv'
  BY <1>2, CommitInv
<1>3. CASE Prune
  BY <1>3, PruneInv
<1>4. ASSUME NEW p \in Procs, Lifecycle(p) PROVE Inv'
  BY <1>4, BootInv, StartedInv, ConnectInv DEF Lifecycle
<1>5. ASSUME NEW p \in Procs, Deliver(p) \/ FlushTimer(p) PROVE Inv'
  BY <1>5, DeliverInv, FlushTimerInv
<1>6. ASSUME NEW p \in Procs, NEW e \in Events, Handle(p, e) \/ FlushLands(p, e) PROVE Inv'
  BY <1>6, HandleInv, FlushLandsInv
<1>7. ASSUME NEW p \in Procs, NEW k \in Replays, CatchUp(p, k) PROVE Inv'
  BY <1>7, ReadCursorInv, ReadHeadInv, AdoptHeadInv, FetchEventsInv, ReplayEventInv,
     FinishReplayInv DEF CatchUp
<1>8. ASSUME NEW p \in Procs, Fault(p) PROVE Inv'
  BY <1>8, DropInv, StopInv, HandleFailsInv, FlushFailsInv, ReplayFailsInv DEF Fault
<1>9. QED
  BY <1>1, <1>2, <1>3, <1>4, <1>5, <1>6, <1>7, <1>8 DEF Next

\* Types: in every state of every run each variable has its type.
THEOREM TypeCorrect == Spec => []TypeOK
<1>1. Init => Inv
  BY InitInv
<1>2. Inv /\ [Next]_vars => Inv'
  BY InvStep
<1>3. Inv => TypeOK
  BY DEF Inv
<1>4. QED
  BY <1>1, <1>2, <1>3, PTL DEF Spec

-----------------------------------------------------------------------------
(* Cursors.                                                                *)

\* Every cursor of the system is an integer.
LEMMA CursorsAreInts ==
  ASSUME Inv
  PROVE  /\ cursor \in Int /\ floor \in Int /\ committed \subseteq Int
         /\ \A p \in Procs :
              /\ last[p] \in Int /\ pending[p] \in Int
              /\ handling[p] \subseteq Int /\ flushing[p] \subseteq Int
              /\ \A k \in Replays : replay[p][k].from \in Int /\ replay[p][k].upto \in Int
<1>1. Marks \subseteq Int /\ committed \subseteq Marks
  BY MarksAreInts DEF Inv, Marks
<1>2. QED
  BY <1>1 DEF Inv, LogOK, ProcOK, Known, ReplayOK, Marks

\* What CursorNeverRewinds asks of a step.
Forward ==
  /\ cursor' >= cursor
  /\ \A p \in Procs :
       \/ last'[p] >= last[p]
       \/ phase'[p] = "stopped"
       \/ \E k \in Replays : AdoptHead(p, k)

\* One mark is raised.
LEMMA RaisedMark ==
  ASSUME Inv, NEW p \in Procs, NEW c \in Int,
         last' = [last EXCEPT ![p] = Greatest(@, c)], cursor' >= cursor
  PROVE  Forward
<1>1. \A q \in Procs : last'[q] >= last[q]
  BY CursorsAreInts, GreatestIsGreatest DEF Inv, TypeOK
<1>2. QED
  BY <1>1 DEF Forward

\* Every step moves cursors forward.
LEMMA StepsForward ==
  ASSUME Inv, Next
  PROVE  Forward
<1> USE CursorsAreInts
<1>1. CASE UNCHANGED <<cursor, last>>
  BY <1>1 DEF Forward
<1>2. ASSUME NEW p \in Procs, NEW e \in Events, Handle(p, e) \/ HandleFails(p, e)
      PROVE  Forward
  BY <1>2, RaisedMark DEF Handle, HandleFails, UpdateCursor, Events
<1>3. ASSUME NEW p \in Procs, NEW c \in Events, FlushLands(p, c) PROVE Forward
  BY <1>3, GreatestIsGreatest DEF FlushLands, Advanced, Forward, Events
<1>4. ASSUME NEW p \in Procs, Stop(p) PROVE Forward
  <2>1. PICK c \in {cursor, pending[p]} \union flushing[p] : cursor' = Advanced(c)
    BY <1>4 DEF Stop
  <2>2. cursor' >= cursor
    BY <2>1, GreatestIsGreatest DEF Advanced
  <2>3. \A q \in Procs : last'[q] >= last[q] \/ phase'[q] = "stopped"
    BY <1>4 DEF Stop, Inv, TypeOK
  <2>4. QED
    BY <2>2, <2>3 DEF Forward
<1>5. ASSUME NEW p \in Procs, NEW k \in Replays, ReadCursor(p, k) PROVE Forward
  BY <1>5, RaisedMark, GreatestIsGreatest DEF ReadCursor
<1>6. ASSUME NEW p \in Procs, NEW k \in Replays, AdoptHead(p, k) PROVE Forward
  <2>1. cursor' >= cursor
    BY <1>6, GreatestIsGreatest DEF AdoptHead, Advanced
  <2>2. \A q \in Procs : q # p => last'[q] = last[q]
    BY <1>6 DEF AdoptHead, Inv, TypeOK
  <2>3. QED
    BY <1>6, <2>1, <2>2 DEF Forward
<1>7. ASSUME NEW p \in Procs, NEW k \in Replays, FinishReplay(p, k) PROVE Forward
  BY <1>7, RaisedMark, GreatestIsGreatest DEF FinishReplay, Advanced
<1>8. (\E e \in Events : Commit(e)) \/ Prune => Forward
  BY <1>1 DEF Commit, Prune, processVars
<1>9. ASSUME NEW p \in Procs, Lifecycle(p) \/ Deliver(p) \/ FlushTimer(p)
      PROVE  Forward
  BY <1>1, <1>9 DEF Lifecycle, Boot, Started, Connect, Deliver, FlushTimer
<1>10. ASSUME NEW p \in Procs, NEW k \in Replays, CatchUp(p, k)
       PROVE  Forward
  <2>1. CASE ReadHead(p, k) \/ FetchEvents(p, k) \/ ReplayEvent(p, k)
    BY <1>1, <2>1 DEF ReadHead, FetchEvents, ReplayEvent
  <2>2. QED
    BY <1>5, <1>6, <1>7, <1>10, <2>1 DEF CatchUp
<1>11. ASSUME NEW p \in Procs, Fault(p)
       PROVE  Forward
  <2>1. CASE Drop(p)
    BY <1>1, <2>1 DEF Drop
  <2>2. ASSUME NEW e \in Events, FlushFails(p, e) PROVE Forward
    BY <1>1, <2>2 DEF FlushFails
  <2>3. ASSUME NEW k \in Replays, ReplayFails(p, k) PROVE Forward
    BY <1>1, <2>3 DEF ReplayFails
  <2>4. QED
    BY <1>2, <1>4, <1>11, <2>1, <2>2, <2>3 DEF Fault
<1>12. QED
  BY <1>2, <1>3, <1>8, <1>9, <1>10, <1>11 DEF Next

\* The stored cursor never moves back, nor does the mark of a living process,
\* but for a head that is adopted.
THEOREM CursorsMoveForward == Spec => CursorNeverRewinds
<1>1. Init => Inv
  BY InitInv
<1>2. Inv /\ [Next]_vars => Inv'
  BY InvStep
<1>3. Inv /\ [Next]_vars => [Forward]_vars
  BY StepsForward
<1>4. QED
  BY <1>1, <1>2, <1>3, PTL DEF Spec, CursorNeverRewinds, Forward

-----------------------------------------------------------------------------
(* Heads.                                                                  *)

\* What Becomes says of the fields of the other catch-ups and of this one.
LEMMA OneCatchUp ==
  ASSUME Inv, NEW p \in Procs, NEW k \in Replays, NEW r \in Replay, Becomes(p, k, r)
  PROVE  /\ replay'[p][k] = r
         /\ \A q \in Procs, j \in Replays : q # p \/ j # k => replay'[q][j] = replay[q][j]
  BY Became DEF Inv

\* A step that leaves the catch-ups alone, lowers no mark and lets no process
\* in keeps HeadOK.
LEMMA HeadsUntouched ==
  ASSUME Inv, HeadOK, failures' = 0 => failures = 0, replay' = replay,
         \A q \in Procs : /\ last'[q] \in Int /\ last'[q] >= last[q]
                          /\ phase'[q] = phase[q]
  PROVE  HeadOK'
<1>1. ASSUME NEW q \in Procs, last[q] >= 0 PROVE last'[q] >= 0
  <2>1. last[q] \in Int /\ last'[q] \in Int /\ last'[q] >= last[q]
    BY CursorsAreInts
  <2>2. QED
    BY <1>1, <2>1
<1>2. QED
  BY <1>1 DEF HeadOK, MarkedOnce

\* The same of a step of one catch-up.
LEMMA HeadsStep ==
  ASSUME Inv, HeadOK, NEW p \in Procs, NEW k \in Replays, NEW r \in Replay,
         Becomes(p, k, r), failures' = 0 => failures = 0,
         \A q \in Procs : phase'[q] = phase[q] /\ (q # p => last'[q] = last[q]),
         failures = 0 => \/ last'[p] >= 0
                         \/ last'[p] = last[p] /\ r.pc \in {"read", "head", "adopt"},
         failures = 0 /\ r.pc \in {"head", "adopt"} => phase[p] = "starting",
         r.pc = "adopt" => r.upto >= 0,
         failures = 0 /\ r.pc \in {"fetch", "apply"} => last'[p] >= 0
  PROVE  HeadOK'
<1> SUFFICES ASSUME failures = 0, NEW q \in Procs PROVE MarkedOnce(q)'
  BY DEF HeadOK
<1>1. MarkedOnce(q)
  BY DEF HeadOK
<1>2. /\ replay'[p][k] = r
      /\ \A j \in Replays : q # p \/ j # k => replay'[q][j] = replay[q][j]
  BY OneCatchUp
<1>3. CASE q # p
  BY <1>1, <1>2, <1>3 DEF MarkedOnce
<1>4. CASE q = p /\ last'[p] >= 0
  BY <1>1, <1>2, <1>4 DEF MarkedOnce
<1>5. CASE q = p /\ last'[p] = last[p] /\ r.pc \in {"read", "head", "adopt"}
  BY <1>1, <1>2, <1>5 DEF MarkedOnce
<1>6. QED
  BY <1>3, <1>4, <1>5

\* A process boots: it reads a cursor before it connects.
LEMMA BootHead ==
  ASSUME Inv, HeadOK, NEW p \in Procs, Boot(p)
  PROVE  HeadOK'
<1> SUFFICES ASSUME failures = 0, NEW q \in Procs PROVE MarkedOnce(q)'
  BY DEF HeadOK, Boot, counters
<1>1. MarkedOnce(q) /\ PhaseOK(p)
  BY DEF HeadOK, Inv, ProcOK
<1>2. PICK k \in Replays : Becomes(p, k, NewReplay)
  BY DEF Boot, Becomes
<1>3. /\ replay'[p][k] = NewReplay /\ NewReplay.pc = "read"
      /\ \A j \in Replays : q # p \/ j # k => replay'[q][j] = replay[q][j]
  BY <1>2, OneCatchUp, ReplayRecords DEF Inv
<1>4. last' = last /\ phase[p] = "stopped" /\ phase' = [phase EXCEPT ![p] = "starting"]
  BY DEF Boot
<1>5. CASE q = p
  BY <1>1, <1>3, <1>4, <1>5 DEF MarkedOnce, PhaseOK, Inv, TypeOK
<1>6. CASE q # p
  BY <1>1, <1>3, <1>4, <1>6 DEF MarkedOnce, Inv, TypeOK
<1>7. QED
  BY <1>5, <1>6

\* It connects with a mark, and its new catch-up adopts none.
LEMMA ConnectHead ==
  ASSUME Inv, HeadOK, NEW p \in Procs, Connect(p)
  PROVE  HeadOK'
<1> SUFFICES ASSUME failures = 0, NEW q \in Procs PROVE MarkedOnce(q)'
  BY DEF HeadOK, Connect, counters
<1>1. MarkedOnce(q)
  BY DEF HeadOK
<1>2. PICK k \in Replays : Becomes(p, k, NewReplay)
  BY DEF Connect, Becomes
<1>3. /\ replay'[p][k] = NewReplay /\ NewReplay.pc = "read"
      /\ \A j \in Replays : q # p \/ j # k => replay'[q][j] = replay[q][j]
  BY <1>2, OneCatchUp, ReplayRecords DEF Inv
<1>4. last' = last /\ phase[p] = "connecting" /\ phase' = [phase EXCEPT ![p] = "listening"]
  BY DEF Connect
<1>5. CASE q = p
  BY <1>1, <1>3, <1>4, <1>5 DEF MarkedOnce, Inv, TypeOK
<1>6. CASE q # p
  BY <1>1, <1>3, <1>4, <1>6 DEF MarkedOnce, Inv, TypeOK
<1>7. QED
  BY <1>5, <1>6

\* A process that stops, starts to connect or loses its connection.
LEMMA StopHead ==
  ASSUME Inv, HeadOK, NEW p \in Procs, Started(p) \/ Drop(p) \/ Stop(p)
  PROVE  HeadOK'
<1> SUFFICES ASSUME failures = 0, NEW q \in Procs PROVE MarkedOnce(q)'
  BY DEF HeadOK, Started, Drop, Stop, counters
<1>1. MarkedOnce(q)
  BY DEF HeadOK
<1>2. CASE Started(p)
  BY <1>1, <1>2 DEF Started, MarkedOnce, Inv, TypeOK
<1>3. CASE Drop(p)
  BY <1>1, <1>3 DEF Drop, MarkedOnce, Inv, TypeOK
<1>4. CASE Stop(p)
  <2>1. CASE q = p
    <3>1. phase'[p] = "stopped" /\ \A k \in Replays : replay'[p][k].pc = "idle"
      BY <1>4 DEF Stop, Inv, TypeOK, IdleReplay
    <3>2. QED
      BY <2>1, <3>1 DEF MarkedOnce
  <2>2. CASE q # p
    <3>1. phase'[q] = phase[q] /\ last'[q] = last[q] /\ replay'[q] = replay[q]
      BY <1>4, <2>2 DEF Stop, Inv, TypeOK
    <3>2. QED
      BY <1>1, <3>1 DEF MarkedOnce
  <2>3. QED
    BY <2>1, <2>2
<1>5. QED
  BY <1>2, <1>3, <1>4

\* A cursor that is read is a mark; without one the head is read next.
LEMMA ReadCursorHead ==
  ASSUME Inv, HeadOK, NEW p \in Procs, NEW k \in Replays, ReadCursor(p, k)
  PROVE  HeadOK'
<1> DEFINE from == Greatest(last[p], cursor)
           r == [replay[p][k] EXCEPT !.pc = IF from = NoCursor THEN "head" ELSE "fetch",
                                     !.from = from]
<1>1. last[p] \in Marks /\ cursor \in Marks /\ last[p] \in Int /\ cursor \in Int
  BY CursorsAreInts DEF Inv, ProcOK, Known, LogOK
<1>2. from \in Marks /\ from \in Int /\ from >= last[p]
  BY <1>1, GreatestIsGreatest
<1>3. from = NoCursor \/ from >= 0
  BY <1>2 DEF Marks, NoCursor, Inv, TypeOK, Events
<1>4. last'[p] = from
  BY <1>1, <1>2 DEF ReadCursor, Greatest, Inv, TypeOK
<1>5. r \in Replay /\ r.pc = IF from = NoCursor THEN "head" ELSE "fetch"
  BY <1>2, TheReplay, MarksAreCursors DEF Inv, Replay
<1>6. Becomes(p, k, r)
  BY DEF ReadCursor, Becomes, Inv, TypeOK
<1>7. /\ \A q \in Procs : phase'[q] = phase[q] /\ (q # p => last'[q] = last[q])
      /\ failures' = failures
  BY DEF ReadCursor, counters, Inv, TypeOK
<1>8. failures = 0 /\ from = NoCursor => phase[p] = "starting" /\ last'[p] = last[p]
  <2>1. phase[p] # "stopped" /\ phase[p] \in Phases
    BY DEF ReadCursor, Inv, TypeOK, ProcOK, PhaseOK
  <2>2. HeadOK /\ from = NoCursor /\ failures = 0 => ~(last[p] >= 0)
    BY <1>1, <1>2 DEF NoCursor
  <2>3. from = NoCursor => last[p] = NoCursor
    BY <1>1, <1>2 DEF NoCursor, Marks, Inv, TypeOK, Events
  <2>4. QED
    BY <1>4, <2>1, <2>2, <2>3 DEF HeadOK, MarkedOnce, Phases
<1> HIDE DEF from, r
<1>9. QED
  BY <1>3, <1>4, <1>5, <1>6, <1>7, <1>8, HeadsStep

\* The head is read only while the process starts.
LEMMA ReadHeadHead ==
  ASSUME Inv, HeadOK, NEW p \in Procs, NEW k \in Replays, ReadHead(p, k)
  PROVE  HeadOK'
<1>1. PICK head \in IF logged = {} THEN {0} ELSE Latest(logged) :
        replay' = [replay EXCEPT ![p][k].pc = "adopt", ![p][k].upto = head]
  BY DEF ReadHead
<1> DEFINE r == [replay[p][k] EXCEPT !.pc = "adopt", !.upto = head]
<1>2. head \in Marks /\ head >= 0
  BY DEF Latest, Inv, TypeOK, Marks, Events
<1>3. r \in Replay /\ r.pc = "adopt" /\ r.upto = head
  BY <1>2, TheReplay, MarksAreCursors DEF Inv, Replay
<1>4. Becomes(p, k, r)
  BY <1>1 DEF Becomes, Inv, TypeOK
<1>5. UNCHANGED <<phase, last, failures>>
  BY DEF ReadHead, counters
<1>6. failures = 0 => phase[p] = "starting"
  BY DEF ReadHead, HeadOK, MarkedOnce
<1> HIDE DEF r
<1>7. QED
  BY <1>2, <1>3, <1>4, <1>5, <1>6, HeadsStep

\* A head that is adopted gives the process its mark.
LEMMA AdoptHeadHead ==
  ASSUME Inv, HeadOK, NEW p \in Procs, NEW k \in Replays, AdoptHead(p, k)
  PROVE  HeadOK'
<1>1. Becomes(p, k, IdleReplay) /\ IdleReplay \in Replay /\ IdleReplay.pc = "idle"
  BY ReplayRecords DEF AdoptHead, Becomes, Inv
<1>2. failures = 0 => last'[p] >= 0
  BY DEF AdoptHead, HeadOK, MarkedOnce, Inv, TypeOK
<1>3. /\ \A q \in Procs : phase'[q] = phase[q] /\ (q # p => last'[q] = last[q])
      /\ failures' = failures
  BY DEF AdoptHead, counters, Inv, TypeOK
<1>4. QED
  BY <1>1, <1>2, <1>3, HeadsStep

\* A catch-up that has fetched, or has more to replay, or has ended.
LEMMA FetchedHead ==
  ASSUME Inv, HeadOK, NEW p \in Procs, NEW k \in Replays,
         FetchEvents(p, k) \/ ReplayEvent(p, k) \/ FinishReplay(p, k)
  PROVE  HeadOK'
<1>1. PICK r \in Replay : Becomes(p, k, r) /\ r.pc \in {"idle", "apply"}
  <2>1. CASE FetchEvents(p, k)
    <3> DEFINE todo == {e \in logged : e > replay[p][k].from}
               r(upto) == [replay[p][k] EXCEPT !.pc = "apply", !.todo = todo, !.upto = upto]
    <3>1. Becomes(p, k, IdleReplay) \/ \E upto \in Latest(todo) : Becomes(p, k, r(upto))
      BY <2>1 DEF FetchEvents, Becomes, Inv, TypeOK
    <3>2. ASSUME NEW upto \in Latest(todo) PROVE r(upto) \in Replay /\ r(upto).pc = "apply"
      <4>1. upto \in Cursors /\ todo \in SUBSET Events /\ replay[p][k] \in Replay
        <5>1. upto \in Events /\ todo \in SUBSET Events
          BY DEF Latest, Inv, TypeOK
        <5>2. Events \subseteq Cursors
          BY PipelineAssumption DEF Cursors, Events, NoCursor
        <5>3. QED
          BY <5>1, <5>2, TheReplay
      <4> HIDE DEF todo
      <4>2. QED
        BY <4>1 DEF Replay
    <3>3. QED
      BY <3>1, <3>2, ReplayRecords DEF Inv
  <2>2. CASE ReplayEvent(p, k)
    <3>1. PICK next \in Earliest(replay[p][k].todo) :
            replay' = [replay EXCEPT ![p][k].todo = @ \ {next}]
      BY <2>2 DEF ReplayEvent
    <3> DEFINE r == [replay[p][k] EXCEPT !.todo = @ \ {next}]
    <3>2. r \in Replay /\ r.pc = "apply"
      BY <2>2, TheReplay DEF ReplayEvent, Replay
    <3>3. Becomes(p, k, r)
      BY <3>1 DEF Becomes, Inv, TypeOK
    <3>4. QED
      BY <3>2, <3>3
  <2>3. CASE FinishReplay(p, k)
    BY <2>3, ReplayRecords DEF FinishReplay, Becomes, Inv
  <2>4. QED
    BY <2>1, <2>2, <2>3
<1>2. failures' = failures /\ phase' = phase
  BY DEF FetchEvents, ReplayEvent, FinishReplay, counters
<1>3. last'[p] >= last[p] /\ \A q \in Procs : q # p => last'[q] = last[q]
  <2>1. CASE last' = last
    BY <2>1, CursorsAreInts
  <2>2. CASE FinishReplay(p, k)
    BY <2>2, CursorsAreInts, GreatestIsGreatest DEF FinishReplay, Inv, TypeOK
  <2>3. QED
    BY <2>1, <2>2 DEF FetchEvents, ReplayEvent
<1>4. failures = 0 => last[p] >= 0
  BY DEF FetchEvents, ReplayEvent, FinishReplay, HeadOK, MarkedOnce
<1>5. last[p] \in Int /\ last'[p] \in Int
  <2>1. Inv'
    BY FetchEventsInv, ReplayEventInv, FinishReplayInv
  <2>2. last'[p] \in Marks' /\ TypeOK'
    BY <2>1 DEF Inv, ProcOK, Known
  <2>3. committed' = committed
    BY DEF FetchEvents, ReplayEvent, FinishReplay
  <2>4. QED
    BY <2>2, <2>3, CursorsAreInts, MarksAreInts DEF Inv, Marks
<1>6. failures = 0 => last'[p] >= 0
  BY <1>3, <1>4, <1>5
<1>7. QED
  BY <1>1, <1>2, <1>3, <1>6, HeadsStep

\* Where there is no failure a head is adopted only by a process that starts,
\* and a process that connects has a mark.
LEMMA HeadStep ==
  ASSUME Inv, HeadOK, [Next]_vars
  PROVE  HeadOK'
<1>1. CASE replay' = replay /\ last' = last /\ phase' = phase /\ failures' = failures
  BY <1>1 DEF HeadOK, MarkedOnce
<1>2. CASE UNCHANGED vars
  BY <1>1, <1>2 DEF vars, processVars, counters
<1>3. (\E e \in Events : Commit(e)) \/ Prune => HeadOK'
  BY <1>1 DEF Commit, Prune, processVars, counters
<1>4. ASSUME NEW p \in Procs, Lifecycle(p) PROVE HeadOK'
  BY <1>4, BootHead, ConnectHead, StopHead DEF Lifecycle
<1>5. ASSUME NEW p \in Procs, Deliver(p) \/ FlushTimer(p) PROVE HeadOK'
  BY <1>1, <1>5 DEF Deliver, FlushTimer, counters
<1>6. ASSUME NEW p \in Procs, NEW e \in Events, Handle(p, e) \/ FlushLands(p, e)
      PROVE  HeadOK'
  <2>1. CASE Handle(p, e)
    <3>1. e \in Int
      BY DEF Events
    <3>2. \A q \in Procs : last'[q] \in Int /\ last'[q] >= last[q]
      BY <2>1, <3>1, CursorsAreInts, GreatestIsGreatest DEF Handle, UpdateCursor, Inv, TypeOK
    <3>3. QED
      BY <2>1, <3>2, HeadsUntouched DEF Handle, counters
  <2>2. CASE FlushLands(p, e)
    BY <1>1, <2>2 DEF FlushLands, counters
  <2>3. QED
    BY <1>6, <2>1, <2>2
<1>7. ASSUME NEW p \in Procs, NEW k \in Replays, CatchUp(p, k) PROVE HeadOK'
  BY <1>7, ReadCursorHead, ReadHeadHead, AdoptHeadHead, FetchedHead DEF CatchUp
<1>8. ASSUME NEW p \in Procs, Fault(p) PROVE HeadOK'
  <2>1. CASE failures' = failures + 1
    BY <2>1 DEF HeadOK, Inv, TypeOK
  <2>2. QED
    BY <1>8, <2>1, StopHead DEF Fault, HandleFails, FlushFails, ReplayFails
<1>9. QED
  BY <1>2, <1>3, <1>4, <1>5, <1>6, <1>7, <1>8 DEF Next

-----------------------------------------------------------------------------
(* Nothing above a cursor is lost.                                         *)

\* What LostOnlyBelowCursor says of an event that is not applied.
Accounted(e) == Held(e) \/ (e \in logged /\ WillFetch(e)) \/ Passed(e)

\* A process that does not listen, or has a catch-up that begins, accounts for
\* every event: what is not in the log is below the cursor.
LEMMA AccountedByCatchUp ==
  ASSUME LogOK', NEW e \in committed', NEW p \in Procs,
         phase'[p] # "listening" \/ \E k \in Replays : replay'[p][k].pc = "read"
  PROVE  Accounted(e)'
  BY DEF LogOK, Accounted, WillFetch, Passed

\* A step that takes an event from nobody, and no mark back.
LEMMA StillAccounted ==
  ASSUME Inv, Inv', NEW e \in committed, e \in committed', Accounted(e),
         Held(e) => Held(e)',
         WillFetch(e) => WillFetch(e)',
         cursor' >= cursor, \A p \in Procs : last'[p] >= last[p]
  PROVE  Accounted(e)'
<1>1. e \in logged' \/ e <= cursor'
  BY DEF Inv, LogOK
<1>2. committed \subseteq Int /\ cursor \in Int /\ \A p \in Procs : last[p] \in Int
  BY CursorsAreInts
<1>3. cursor' \in Int /\ \A p \in Procs : last'[p] \in Int
  <2>1. TypeOK'
    BY DEF Inv
  <2>2. Cursors \subseteq Int
    BY PipelineAssumption DEF Cursors, NoCursor
  <2>3. QED
    BY <2>1, <2>2 DEF TypeOK
<1>4. Passed(e) => Passed(e)'
  BY <1>2, <1>3 DEF Passed
<1>5. QED
  BY <1>1, <1>4 DEF Accounted, Passed

\* The same of a step that moves nothing an event may be held by.
LEMMA UntouchedAccounted ==
  ASSUME Inv, Inv', NEW e \in committed, e \in committed', Accounted(e),
         UNCHANGED <<phase, inbox, handling, replay, last>>, cursor' >= cursor
  PROVE  Accounted(e)'
<1>1. (Held(e) => Held(e)') /\ (WillFetch(e) => WillFetch(e)')
  BY DEF Held, WillFetch
<1>2. \A p \in Procs : last'[p] >= last[p]
  BY CursorsAreInts
<1>3. QED
  BY <1>1, <1>2, StillAccounted

\* A new event is in the log and on every connection.
LEMMA CommitAccounted ==
  ASSUME Inv, Inv', NEW d \in Events, Commit(d),
         NEW e \in committed', e \in committed => Accounted(e)
  PROVE  Accounted(e)'
<1>1. \A p \in Procs : inbox'[p] = IF phase[p] = "listening"
                                    THEN Append(inbox[p], d) ELSE inbox[p]
  BY DEF Commit
<1>2. \A p \in Procs : inbox[p] \in Seq(Events)
  BY DEF Inv, TypeOK
<1>3. CASE e \in committed
  <2>1. Held(e) => Held(e)'
    <3>1. \A p \in Procs : \A i \in DOMAIN inbox[p] :
            i \in DOMAIN inbox'[p] /\ inbox'[p][i] = inbox[p][i]
      <4> SUFFICES ASSUME NEW p \in Procs, NEW i \in DOMAIN inbox[p]
                   PROVE  i \in DOMAIN inbox'[p] /\ inbox'[p][i] = inbox[p][i]
        OBVIOUS
      <4>1. inbox[p] \in Seq(Events)
        BY <1>2
      <4>2. inbox'[p] = inbox[p] \/ inbox'[p] = Append(inbox[p], d)
        BY <1>1
      <4>3. QED
        BY <4>1, <4>2
    <3>2. UNCHANGED <<handling, replay>>
      BY DEF Commit
    <3>3. QED
      BY <3>1, <3>2 DEF Held
  <2>2. WillFetch(e) => WillFetch(e)'
    BY DEF Commit, WillFetch
  <2>3. cursor' >= cursor /\ \A p \in Procs : last'[p] >= last[p]
    BY CursorsAreInts DEF Commit
  <2>4. QED
    BY <1>3, <2>1, <2>2, <2>3, StillAccounted
<1>4. CASE e \notin committed
  <2>1. PICK p \in Procs : TRUE
    BY PipelineAssumption
  <2>2. e = d
    BY <1>4 DEF Commit
  <2>3. CASE phase[p] = "listening"
    <3>1. inbox'[p] = Append(inbox[p], e)
      BY <1>1, <2>2, <2>3
    <3>2. Len(inbox[p]) + 1 \in DOMAIN inbox'[p] /\ inbox'[p][Len(inbox[p]) + 1] = e
      BY <1>2, <2>2, <3>1
    <3>3. QED
      BY <3>2 DEF Accounted, Held
  <2>4. CASE phase[p] # "listening"
    BY <2>4, AccountedByCatchUp DEF Commit, Inv
  <2>5. QED
    BY <2>3, <2>4
<1>5. QED
  BY <1>3, <1>4

\* Whoever stops, starts, connects or loses its connection will catch up.
LEMMA PhaseAccounted ==
  ASSUME Inv, Inv', NEW p \in Procs, Lifecycle(p) \/ Drop(p) \/ Stop(p),
         NEW e \in committed'
  PROVE  Accounted(e)'
<1>1. CASE Connect(p)
  <2>1. PICK k \in Replays : Becomes(p, k, NewReplay)
    BY <1>1 DEF Connect, Becomes
  <2>2. replay'[p][k].pc = "read"
    BY <2>1, OneCatchUp, ReplayRecords DEF Inv
  <2>3. QED
    BY <2>2, AccountedByCatchUp DEF Inv
<1>2. CASE ~Connect(p)
  <2>1. phase'[p] # "listening"
    BY <1>2 DEF Lifecycle, Boot, Started, Drop, Stop, Inv, TypeOK
  <2>2. QED
    BY <2>1, AccountedByCatchUp DEF Inv
<1>3. QED
  BY <1>1, <1>2

\* A notification is handed from the connection to its handler.
LEMMA DeliverAccounted ==
  ASSUME Inv, Inv', NEW p \in Procs, Deliver(p), NEW e \in committed, Accounted(e)
  PROVE  Accounted(e)'
<1>1. Held(e) => Held(e)'
  <2> SUFFICES ASSUME NEW q \in Procs, NEW i \in DOMAIN inbox[q], inbox[q][i] = e
               PROVE  Held(e)'
    BY DEF Held, Deliver, Inv, TypeOK
  <2>1. inbox[p] \in Seq(Events) /\ inbox[p] # <<>>
    BY DEF Deliver, Inv, TypeOK
  <2>2. CASE q # p
    BY <2>2 DEF Deliver, Held, Inv, TypeOK
  <2>3. CASE q = p /\ i = 1
    <3>1. e \in handling'[p]
      BY <2>1, <2>3, HeadAndTail DEF Deliver, Inv, TypeOK
    <3>2. QED
      BY <3>1 DEF Held
  <2>4. CASE q = p /\ i # 1
    <3>1. i - 1 \in DOMAIN Tail(inbox[p]) /\ Tail(inbox[p])[i - 1] = e
      BY <2>1, <2>4, HeadAndTail
    <3>2. inbox'[p] = Tail(inbox[p])
      BY DEF Deliver, Inv, TypeOK
    <3>3. QED
      BY <3>1, <3>2 DEF Held
  <2>5. QED
    BY <2>2, <2>3, <2>4
<1>2. WillFetch(e) => WillFetch(e)'
  BY DEF Deliver, WillFetch
<1>3. cursor' >= cursor /\ (\A q \in Procs : last'[q] >= last[q]) /\ e \in committed'
  BY CursorsAreInts DEF Deliver
<1>4. QED
  BY <1>1, <1>2, <1>3, StillAccounted

\* Another event's handler ends.
LEMMA HandleAccounted ==
  ASSUME Inv, Inv', NEW p \in Procs, NEW d \in Events, Handle(p, d),
         NEW e \in committed, Accounted(e), e \notin applied'
  PROVE  Accounted(e)'
<1>1. Held(e) => Held(e)'
  <2>1. e # d
    BY DEF Handle
  <2>2. QED
    BY <2>1 DEF Handle, Held, Inv, TypeOK
<1>2. WillFetch(e) => WillFetch(e)'
  BY DEF Handle, WillFetch
<1>3. cursor' >= cursor /\ e \in committed'
  BY CursorsAreInts DEF Handle
<1>4. \A q \in Procs : last'[q] >= last[q]
  <2>1. d \in Int
    BY DEF Events
  <2>2. QED
    BY <2>1, CursorsAreInts, GreatestIsGreatest DEF Handle, UpdateCursor, Inv, TypeOK
<1>5. QED
  BY <1>1, <1>2, <1>3, <1>4, StillAccounted

\* What a catch-up does not fetch is below the cursor it has read.
LEMMA ReadCursorAccounted ==
  ASSUME Inv, HeadOK, HeadOK', Inv', failures' = 0,
         NEW p \in Procs, NEW k \in Replays, ReadCursor(p, k), NEW e \in committed
  PROVE  Accounted(e)'
<1> DEFINE from == Greatest(last[p], cursor)
<1>1. last[p] \in Int /\ cursor \in Int /\ e \in Int /\ e >= 1
  BY CursorsAreInts DEF Inv, TypeOK, Events
<1>2. e \in committed' /\ cursor' = cursor /\ logged' = logged
  BY DEF ReadCursor
<1>3. e \in logged \/ e <= cursor
  BY DEF Inv, LogOK
<1>4. CASE e <= from
  <2>1. last'[p] = from
    BY <1>1 DEF ReadCursor, Greatest, Inv, TypeOK
  <2>2. QED
    BY <1>4, <2>1 DEF Accounted, Passed
<1>5. CASE from # NoCursor /\ ~(e <= from)
  <2>1. replay'[p][k].pc = "fetch" /\ replay'[p][k].from = from
    BY <1>5, TheReplay DEF ReadCursor, Inv, TypeOK, Replay
  <2>2. from < e /\ e \in logged'
    BY <1>1, <1>2, <1>3, <1>5 DEF Greatest
  <2>3. QED
    BY <2>1, <2>2 DEF Accounted, WillFetch
<1>6. CASE from = NoCursor
  <2>1. replay'[p][k].pc = "head"
    BY <1>6, TheReplay DEF ReadCursor, Inv, TypeOK, Replay
  <2>2. phase'[p] = "starting"
    BY <2>1 DEF HeadOK, MarkedOnce
  <2>3. QED
    BY <1>2, <2>2, AccountedByCatchUp DEF Inv
<1>7. QED
  BY <1>4, <1>5, <1>6

\* A head is read and adopted while the process starts.
LEMMA HeadAccounted ==
  ASSUME Inv, HeadOK, Inv', failures' = 0,
         NEW p \in Procs, NEW k \in Replays, ReadHead(p, k) \/ AdoptHead(p, k),
         NEW e \in committed
  PROVE  Accounted(e)'
<1>1. phase[p] = "starting" /\ phase' = phase /\ committed' = committed
  BY DEF ReadHead, AdoptHead, HeadOK, MarkedOnce, counters
<1>2. QED
  BY <1>1, AccountedByCatchUp DEF Inv

\* What a catch-up has to replay is what it fetched.
LEMMA FetchedTodo ==
  ASSUME Inv, NEW p \in Procs, NEW k \in Replays, FetchEvents(p, k)
  PROVE  /\ \A q \in Procs, j \in Replays : q # p \/ j # k => replay'[q][j] = replay[q][j]
         /\ replay'[p][k].todo = {d \in logged : d > replay[p][k].from}
<1> DEFINE todo == {d \in logged : d > replay[p][k].from}
           r(upto) == [replay[p][k] EXCEPT !.pc = "apply", !.todo = todo, !.upto = upto]
<1>1. CASE todo = {} /\ Becomes(p, k, IdleReplay)
  <2>1. IdleReplay \in Replay /\ IdleReplay.todo = {}
    BY ReplayRecords DEF Inv, IdleReplay
  <2>2. QED
    BY <1>1, <2>1, OneCatchUp
<1>2. ASSUME NEW upto \in Latest(todo), Becomes(p, k, r(upto))
      PROVE  /\ \A q \in Procs, j \in Replays : q # p \/ j # k => replay'[q][j] = replay[q][j]
             /\ replay'[p][k].todo = todo
  <2>1. todo \in SUBSET Events /\ upto \in Events
    BY DEF Latest, Inv, TypeOK
  <2>2. upto \in Cursors
    BY <2>1, PipelineAssumption DEF Cursors, Events, NoCursor
  <2> HIDE DEF todo
  <2>3. r(upto) \in Replay /\ r(upto).todo = todo
    BY <2>1, <2>2, TheReplay DEF Replay
  <2> HIDE DEF r
  <2>4. QED
    BY <1>2, <2>3, OneCatchUp
<1>3. QED
  BY <1>1, <1>2 DEF FetchEvents, Becomes, Inv, TypeOK

\* What a catch-up would fetch it now holds, if it is still logged.
LEMMA FetchEventsAccounted ==
  ASSUME Inv, Inv', NEW p \in Procs, NEW k \in Replays, FetchEvents(p, k),
         NEW e \in committed, Accounted(e)
  PROVE  Accounted(e)'
<1> DEFINE todo == {d \in logged : d > replay[p][k].from}
<1>1. /\ replay[p][k].pc = "fetch" /\ replay[p][k].todo = {}
      /\ replay[p][k].from \in Int /\ e \in Int
  BY CursorsAreInts DEF FetchEvents, Inv, ProcOK, ReplayOK
<1>2. UNCHANGED <<phase, inbox, handling, last, cursor, logged, committed>>
  BY DEF FetchEvents
<1>3. /\ \A q \in Procs, j \in Replays : q # p \/ j # k => replay'[q][j] = replay[q][j]
      /\ replay'[p][k].todo = todo
  BY FetchedTodo
<1>4. Held(e) => Held(e)'
  BY <1>1, <1>2, <1>3 DEF Held
<1>5. CASE e \in todo
  BY <1>3, <1>5 DEF Accounted, Held
<1>6. CASE e \notin todo
  <2>1. e \in logged /\ WillFetch(e) => WillFetch(e)'
    BY <1>1, <1>2, <1>3, <1>6 DEF WillFetch
  <2>2. QED
    BY <1>2, <1>4, <2>1 DEF Accounted, Passed
<1>7. QED
  BY <1>5, <1>6

\* A catch-up replays another event.
LEMMA ReplayEventAccounted ==
  ASSUME Inv, Inv', NEW p \in Procs, NEW k \in Replays, ReplayEvent(p, k),
         NEW e \in committed, Accounted(e), e \notin applied'
  PROVE  Accounted(e)'
<1>1. PICK next \in Earliest(replay[p][k].todo) :
        /\ applied' = applied \union {next}
        /\ replay' = [replay EXCEPT ![p][k].todo = @ \ {next}]
  BY DEF ReplayEvent
<1>2. \A q \in Procs, j \in Replays :
        /\ replay'[q][j].pc = replay[q][j].pc /\ replay'[q][j].from = replay[q][j].from
        /\ e \in replay[q][j].todo => e \in replay'[q][j].todo
  BY <1>1, TheReplay DEF Inv, TypeOK, Replay
<1>3. UNCHANGED <<phase, inbox, handling, last, cursor, committed>>
  BY DEF ReplayEvent
<1>4. (Held(e) => Held(e)') /\ (WillFetch(e) => WillFetch(e)')
  BY <1>2, <1>3 DEF Held, WillFetch
<1>5. cursor' >= cursor /\ \A q \in Procs : last'[q] >= last[q]
  BY <1>3, CursorsAreInts
<1>6. QED
  BY <1>3, <1>4, <1>5, StillAccounted

\* A catch-up that is done held nothing more.
LEMMA FinishReplayAccounted ==
  ASSUME Inv, Inv', NEW p \in Procs, NEW k \in Replays, FinishReplay(p, k),
         NEW e \in committed, Accounted(e)
  PROVE  Accounted(e)'
<1>1. /\ \A q \in Procs, j \in Replays : q # p \/ j # k => replay'[q][j] = replay[q][j]
      /\ replay[p][k].todo = {} /\ replay[p][k].pc = "apply"
  BY OneCatchUp, ReplayRecords DEF FinishReplay, Becomes, Inv
<1>2. UNCHANGED <<phase, inbox, handling, committed>>
  BY DEF FinishReplay
<1>3. (Held(e) => Held(e)') /\ (WillFetch(e) => WillFetch(e)')
  BY <1>1, <1>2 DEF Held, WillFetch
<1>4. cursor' >= cursor /\ \A q \in Procs : last'[q] >= last[q]
  BY CursorsAreInts, GreatestIsGreatest DEF FinishReplay, Advanced, Inv, TypeOK
<1>5. QED
  BY <1>2, <1>3, <1>4, StillAccounted

\* Every step accounts for what it leaves unapplied.
LEMMA AccountedStep ==
  ASSUME Inv, HeadOK, LostOnlyBelowCursor, Inv', HeadOK', [Next]_vars
  PROVE  LostOnlyBelowCursor'
<1> SUFFICES ASSUME failures' = 0, NEW e \in committed', e \notin applied'
             PROVE  Accounted(e)'
  BY DEF LostOnlyBelowCursor, Accounted
<1> DEFINE Before == failures = 0 /\ e \in committed /\ e \notin applied
<1>1. Before => Accounted(e)
  BY DEF LostOnlyBelowCursor, Accounted
<1> HIDE DEF Before
<1>2. cursor \in Int
  BY CursorsAreInts
<1>3. CASE UNCHANGED vars
  BY <1>1, <1>2, <1>3, UntouchedAccounted DEF vars, processVars, counters, Before
<1>4. ASSUME NEW d \in Events, Commit(d) PROVE Accounted(e)'
  BY <1>1, <1>4, CommitAccounted DEF Commit, counters, Before
<1>5. CASE Prune
  BY <1>1, <1>2, <1>5, UntouchedAccounted DEF Prune, processVars, counters, Before
<1>6. ASSUME NEW p \in Procs, Lifecycle(p) PROVE Accounted(e)'
  BY <1>6, PhaseAccounted
<1>7. ASSUME NEW p \in Procs, Deliver(p) \/ FlushTimer(p) PROVE Accounted(e)'
  <2>1. CASE Deliver(p)
    BY <1>1, <2>1, DeliverAccounted DEF Deliver, counters, Before
  <2>2. CASE FlushTimer(p)
    BY <1>1, <1>2, <2>2, UntouchedAccounted DEF FlushTimer, counters, Before
  <2>3. QED
    BY <1>7, <2>1, <2>2
<1>8. ASSUME NEW p \in Procs, NEW d \in Events, Handle(p, d) \/ FlushLands(p, d)
      PROVE  Accounted(e)'
  <2>1. CASE Handle(p, d)
    <3>1. Before
      BY <2>1 DEF Handle, counters, Before
    <3>2. QED
      BY <1>1, <2>1, <3>1, HandleAccounted DEF Before
  <2>2. CASE FlushLands(p, d)
    <3>1. Before
      BY <2>2 DEF FlushLands, counters, Before
    <3>2. cursor' >= cursor /\ committed' = committed
      BY <1>2, <2>2, GreatestIsGreatest DEF FlushLands, Advanced, Events
    <3>3. UNCHANGED <<phase, inbox, handling, replay, last>>
      BY <2>2 DEF FlushLands
    <3>4. QED
      BY <1>1, <3>1, <3>2, <3>3, UntouchedAccounted DEF Before
  <2>3. QED
    BY <1>8, <2>1, <2>2
<1>9. ASSUME NEW p \in Procs, NEW k \in Replays, CatchUp(p, k) PROVE Accounted(e)'
  <2>1. Before
    BY <1>9 DEF CatchUp, ReadCursor, ReadHead, AdoptHead, FetchEvents, ReplayEvent,
                FinishReplay, counters, Before
  <2>2. QED
    BY <1>1, <1>9, <2>1, ReadCursorAccounted, HeadAccounted, FetchEventsAccounted,
       ReplayEventAccounted, FinishReplayAccounted DEF CatchUp, Before
<1>10. ASSUME NEW p \in Procs, Fault(p) PROVE Accounted(e)'
  <2>1. Drop(p) \/ Stop(p)
    <3>1. ~(failures' = failures + 1)
      BY DEF Inv, TypeOK
    <3>2. QED
      BY <1>10, <3>1 DEF Fault, HandleFails, FlushFails, ReplayFails
  <2>2. QED
    BY <2>1, PhaseAccounted
<1>11. QED
  BY <1>3, <1>4, <1>5, <1>6, <1>7, <1>8, <1>9, <1>10 DEF Next

\* The invariant holds at first, when nothing is committed.
LEMMA IInvInit == Init => IInv
<1> SUFFICES ASSUME Init PROVE IInv
  OBVIOUS
<1>1. HeadOK
  BY DEF Init, HeadOK, MarkedOnce, IdleReplay
<1>2. LostOnlyBelowCursor
  BY DEF Init, LostOnlyBelowCursor
<1>3. QED
  BY <1>1, <1>2, InitInv DEF IInv

\* As long as no statement fails, an event that is not applied is with a
\* process, or in the log where a catch-up finds it, or some cursor has passed
\* it.  This takes no assumption on the order of commits, on how soon a catch-up
\* reads, or on how long the log is kept.
THEOREM LostOnlyBelow == Spec => []LostOnlyBelowCursor
<1>1. Init => IInv
  BY IInvInit
<1>2. IInv /\ [Next]_vars => IInv'
  BY InvStep, HeadStep, AccountedStep DEF IInv
<1>3. IInv => LostOnlyBelowCursor
  BY DEF IInv
<1>4. QED
  BY <1>1, <1>2, <1>3, PTL DEF Spec
=============================================================================
