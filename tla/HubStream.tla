------------------------------ MODULE HubStream ------------------------------
(***************************************************************************)
(* One fsrHubStream and the page that reads it: the listener that fills a  *)
(* bounded queue from the watcher's emitter, the generator that drains it  *)
(* between the pulls of its consumer, the timers that interrupt it, and    *)
(* the EventSource of live-client-script.ts that applies what arrives.     *)
(*                                                                         *)
(* A patch is its slot and a number: the emitter's count when it was       *)
(* emitted.  The numbers are the model's; neither the stream nor the page  *)
(* looks at one.                                                           *)
(***************************************************************************)
EXTENDS Integers, Sequences

CONSTANTS
  Slots,     \* slots of the page, all subscribed
  Other,     \* stands for any patch the stream filters out: another route,
             \* another user or a slot that is not subscribed
  Capacity,  \* the 100 patches a stream may hold
  MaxSent,   \* bound: patches emitted for the page
  Settles    \* TRUE: patches stop coming at some point

ASSUME HubAssumption ==
  /\ Other \notin Slots
  /\ Capacity \in Nat \ {0}
  /\ MaxSent \in Nat
  /\ Settles \in BOOLEAN

VARIABLES
  queue,      \* patches waiting in the stream
  lagged,     \* the listener dropped a patch
  keepalive,  \* triggerKeepalive
  over,       \* ttlExpired or aborted
  pc,         \* where the generator is suspended
  patch,      \* the patch it yielded last
  busy,       \* patches may still come
  sent,       \* how many patches have been emitted for the page
  newest,     \* the number of a slot's newest patch, 0 for its first value
  shown,      \* the number of the patch the page shows
  lost        \* the number of the newest patch that was given up: there was
              \* no stream to carry it, or the stream has ended since

streamVars == <<queue, lagged, keepalive, over, pc, patch>>
pageVars == <<sent, newest, shown, lost>>
vars == <<streamVars, busy, pageVars>>

-----------------------------------------------------------------------------
Patch == [slot : Slots \union {Other}, n : 0..MaxSent]

Noise == [slot |-> Other, n |-> 0]

\* Suspended at a yield, with the event of that name handed to the consumer.
Yields == {"ready", "patch", "resync", "keepalive"}

States == Yields \union {"waiting", "woken", "closing", "closed"}

TypeOK ==
  /\ queue \in Seq(Patch)
  /\ Len(queue) <= Capacity
  /\ {lagged, keepalive, over, busy} \subseteq BOOLEAN
  /\ pc \in States
  /\ patch \in Patch
  /\ sent \in 0..MaxSent
  /\ {newest, shown, lost} \subseteq [Slots -> 0..sent]

\* The page has been rendered and is not connected yet.
Init ==
  /\ queue = <<>>
  /\ lagged = FALSE /\ keepalive = FALSE /\ over = FALSE
  /\ pc = "closed"
  /\ patch = Noise
  /\ busy = TRUE
  /\ sent = 0
  /\ newest = [s \in Slots |-> 0]
  /\ shown = newest
  /\ lost = newest

\* The page, which shows sh, has not been given the newest value of s, and it
\* is not given up.
Owed(s, sh) == newest[s] \notin {sh[s], lost[s]}

\* The stream ends: what is on its way to the page will not reach it.
Forsake(sh) ==
  lost' = [s \in Slots |-> IF Owed(s, sh) THEN newest[s] ELSE lost[s]]

-----------------------------------------------------------------------------
(* The listener and the timers: callbacks, each of which wakes the         *)
(* generator if it waits.                                                  *)

\* (Mistake: a callback that leaves the promise pending.)
NotWoken == pc

\* resolveNext().
Woken == IF pc = "waiting" THEN "woken" ELSE pc

\* (Mistake: a new patch goes in front.)
PushedInFront(q, p) ==
  SubSeq(<<p>> \o q, 1, IF Len(q) >= Capacity THEN Capacity ELSE Len(q) + 1)

\* (Mistake: a full queue does not drop anything.)
PushedBeyond(q, p) == Append(q, p)

\* A full queue drops its oldest patch.
Pushed(q, p) == Append(IF Len(q) >= Capacity THEN Tail(q) ELSE q, p)

\* (Mistake: only a queue over its capacity lags.)
OverflowsLate == Len(queue) > Capacity

Overflows == Len(queue) >= Capacity

OnPatch(q, p) ==
  /\ queue' = Pushed(q, p)
  /\ lagged' = (lagged \/ Overflows)
  /\ pc' = Woken

\* The watcher emits a patch of slot s.
Emit(s) ==
  /\ busy /\ sent < MaxSent
  /\ sent' = sent + 1
  /\ newest' = [newest EXCEPT ![s] = sent']
  /\ IF pc \in {"closing", "closed"}
     THEN /\ lost' = [lost EXCEPT ![s] = sent']
          /\ UNCHANGED <<queue, lagged, pc>>
     ELSE /\ OnPatch(queue, [slot |-> s, n |-> sent'])
          /\ UNCHANGED lost
  /\ UNCHANGED <<keepalive, over, patch, busy, shown>>

\* A patch of another route takes its place in the queue all the same.
EmitOther ==
  /\ busy
  /\ pc \notin {"closing", "closed"}
  /\ OnPatch(queue, Noise)
  /\ UNCHANGED <<keepalive, over, patch, busy, pageVars>>

Settle ==
  /\ busy
  /\ busy' = FALSE
  /\ UNCHANGED <<streamVars, pageVars>>

\* keepaliveSecs without a message: not between two pulls of a drain, unless
\* the consumer is that slow, which it may be only before things settle.
KeepaliveFires ==
  /\ pc \notin {"closing", "closed"}
  /\ busy \/ pc = "waiting"
  /\ keepalive' = TRUE
  /\ pc' = Woken
  /\ UNCHANGED <<queue, lagged, over, patch, busy, pageVars>>

\* connectionTtlSecs have passed, or the request's signal aborts.
TimeIsUp ==
  /\ pc \notin {"closing", "closed"}
  /\ over' = TRUE
  /\ pc' = Woken
  /\ UNCHANGED <<queue, lagged, keepalive, patch, busy, pageVars>>

-----------------------------------------------------------------------------
(* The generator, from one suspension to the next.                         *)

Mine(q) == {i \in DOMAIN q : q[i].slot # Other}

\* Yields the first patch for the page; those before it are filtered out.
Deliver(q) ==
  \E first \in Mine(q) :
    /\ \A j \in Mine(q) : first <= j
    /\ patch' = q[first]
    /\ queue' = SubSeq(q, first + 1, Len(q))
    /\ pc' = "patch"
    /\ UNCHANGED <<lagged, keepalive>>

Wait(q) ==
  /\ Mine(q) = {}
  /\ queue' = <<>>
  /\ pc' = "waiting"
  /\ UNCHANGED <<lagged, keepalive, patch>>

Close(q) ==
  /\ queue' = q
  /\ pc' = "closing"
  /\ UNCHANGED <<lagged, keepalive, patch>>

\* The buffer is dropped, then the client is told.
Resync ==
  /\ lagged' = FALSE
  /\ queue' = <<>>
  /\ pc' = "resync"
  /\ UNCHANGED <<keepalive, patch>>

KeepAlive(q) ==
  /\ keepalive' = FALSE
  /\ queue' = q
  /\ pc' = "keepalive"
  /\ UNCHANGED <<lagged, patch>>

\* The body of the outer loop, the queue being q.
Loop(q) ==
  \/ over /\ Close(q)
  \/ ~over /\ lagged /\ Resync
  \/ ~over /\ ~lagged /\ keepalive /\ KeepAlive(q)
  \/ ~over /\ ~lagged /\ ~keepalive /\ (Deliver(q) \/ Wait(q))

\* The inner loop goes on to the next patch without asking whether the stream
\* is over, has lagged or owes a keepalive; those wait for an empty queue.
Drain == Deliver(queue) \/ (Mine(queue) = {} /\ Loop(<<>>))

Wake ==
  /\ pc = "woken"
  /\ Loop(queue)
  /\ IF pc' = "closing" THEN Forsake(shown) ELSE UNCHANGED lost
  /\ UNCHANGED <<over, busy, sent, newest, shown>>

\* The page has applied the event and the consumer asks for the next one.
Pull ==
  /\ pc \in {"ready", "keepalive", "patch"}
  /\ shown' = IF pc = "patch" THEN [shown EXCEPT ![patch.slot] = patch.n]
              ELSE shown
  /\ IF pc = "patch" THEN Drain ELSE Loop(queue)
  /\ IF pc' = "closing" THEN Forsake(shown') ELSE UNCHANGED lost
  /\ UNCHANGED <<over, busy, sent, newest>>

\* fsr-resync: the page closes its EventSource and opens another.
PullResync ==
  /\ pc = "resync"
  /\ pc' = "closed"
  /\ Forsake(shown)
  /\ UNCHANGED <<queue, lagged, keepalive, over, patch, busy, sent, newest, shown>>

\* The consumer gives the stream up at a yield: return() runs its finally.
Return ==
  /\ pc \in Yields
  /\ pc' = "closing"
  /\ Forsake(shown)
  /\ UNCHANGED <<queue, lagged, keepalive, over, patch, busy, sent, newest, shown>>

\* release() has returned and the listener is removed.
Released ==
  /\ pc = "closing"
  /\ pc' = "closed"
  /\ UNCHANGED <<queue, lagged, keepalive, over, patch, busy, pageVars>>

\* The page connects for the first time, or its EventSource reconnects.
\* Nothing tells the server what the page shows, nor the page what it missed.
Connect ==
  /\ pc = "closed"
  /\ pc' = "ready"
  /\ queue' = <<>>
  /\ lagged' = FALSE /\ keepalive' = FALSE /\ over' = FALSE
  /\ patch' = Noise
  /\ UNCHANGED <<busy, pageVars>>

-----------------------------------------------------------------------------
Stream == Wake \/ Pull \/ PullResync \/ Released \/ Connect

Next ==
  \/ \E s \in Slots : Emit(s)
  \/ EmitOther
  \/ Settle
  \/ KeepaliveFires
  \/ TimeIsUp
  \/ Return
  \/ Stream

Spec == Init /\ [][Next]_vars

\* Promises resolve, the consumer pulls, Redis answers and the browser
\* reconnects.
Fairness == WF_vars(Stream) /\ (Settles => WF_vars(Settle))

FairSpec == Spec /\ Fairness

-----------------------------------------------------------------------------
(* Properties.                                                             *)

\* Whenever the stream is idle, the page shows the newest value of every
\* slot, or that value was emitted while the page had no stream, or by a
\* stream that has ended: no callback is missed by a generator about to wait,
\* and a stream that dropped a patch never waits again.
NothingLostSilently ==
  pc = "waiting" => \A s \in Slots : ~Owed(s, shown)

Active == pc \notin {"closing", "closed"}

Waiting(q) == {q[i] : i \in Mine(q)}

\* The patches handed over or waiting in the queue for this page.
OnItsWay ==
  IF ~Active THEN {}
  ELSE Waiting(queue) \union (IF pc = "patch" THEN {patch} ELSE {})

\* What SlotDelivery promises of the stream.
Delivery == INSTANCE SlotDelivery WITH
  open <- Active,
  coming <- OnItsWay,
  lagging <- Active /\ (lagged \/ pc = "resync"),
  idle <- pc = "waiting"

\* The stream with its queue, its timers and its generator implements the
\* promise: the page applies the patches in the order they were emitted, each
\* once and none that was dropped; and a stream that has dropped one does not
\* rest again before it ends.
DeliversLatest == Delivery!Spec

\* Once patches stop coming, every slot comes to show its newest value, or
\* the patch is accounted for as given up with a stream.
PatchesArrive == \A s \in Slots : Owed(s, shown) ~> ~Owed(s, shown)

\* A stream that is over ends: a full queue does not keep it open.
OverEnds == over ~> pc = "closed"
=============================================================================
