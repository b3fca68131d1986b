----------------------------- MODULE SlotDelivery -----------------------------
(***************************************************************************)
(* What a patch stream promises the page that reads it, without queue,     *)
(* timers or generator.  Patches emitted while the stream is open are on   *)
(* their way; the page applies them oldest first, each once.  A stream may *)
(* drop some, and then is lagging until it ends: it never rests again.  A  *)
(* stream that rests has nothing on its way.  When it ends, what was on    *)
(* its way, and what is emitted until the next one opens, never arrives.   *)
(***************************************************************************)
EXTENDS Integers

CONSTANT
  Slots    \* slots of the page

VARIABLES
  open,    \* a stream carries what is emitted
  sent,    \* how many patches have been emitted for the page
  newest,  \* the number of each slot's newest patch
  shown,   \* the number of the patch the page shows
  coming,  \* the patches on their way
  lagging, \* the stream has dropped a patch
  idle     \* the stream rests

vars == <<open, sent, newest, shown, coming, lagging, idle>>

Init ==
  /\ open = FALSE
  /\ sent = 0
  /\ newest = [s \in Slots |-> 0]
  /\ shown = newest
  /\ coming = {}
  /\ lagging = FALSE
  /\ idle = FALSE

-----------------------------------------------------------------------------
Open ==
  /\ ~open /\ open' = TRUE
  /\ UNCHANGED <<sent, newest, shown, coming, lagging, idle>>

\* The stream goes on with S on its way, having dropped the rest, if any.
Keep(S) ==
  \/ S = coming /\ UNCHANGED lagging
  \/ S \subseteq coming /\ lagging' = TRUE

\* A patch of slot s is emitted.
Emit(s) ==
  /\ sent' = sent + 1
  /\ newest' = [newest EXCEPT ![s] = sent']
  /\ IF open
     THEN /\ \E S \in SUBSET coming :
               /\ Keep(S)
               /\ coming' = S \union {[slot |-> s, n |-> sent']}
          /\ idle' = FALSE
     ELSE UNCHANGED <<coming, lagging, idle>>
  /\ UNCHANGED <<open, shown>>

\* The stream works, for other pages or to tell this one that it dropped
\* something.
Work ==
  /\ open
  /\ \E S \in SUBSET coming : Keep(S) /\ coming' = S
  /\ idle' = FALSE
  /\ UNCHANGED <<open, sent, newest, shown>>

\* The page applies p, the oldest that is on its way.
Apply(p) ==
  /\ p \in coming
  /\ \A q \in coming : p.n <= q.n
  /\ shown' = [shown EXCEPT ![p.slot] = p.n]

Arrive ==
  /\ open
  /\ \E p \in coming : Apply(p) /\ coming' = coming \ {p}
  /\ idle' \in BOOLEAN
  /\ idle' => coming' = {} /\ ~lagging
  /\ UNCHANGED <<open, sent, newest, lagging>>

Rest ==
  /\ open
  /\ coming = {} /\ ~lagging
  /\ idle' = TRUE
  /\ UNCHANGED <<open, sent, newest, shown, coming, lagging>>

\* The stream ends, at most one patch arriving with its end.
End ==
  /\ open /\ open' = FALSE
  /\ UNCHANGED shown \/ \E p \in coming : Apply(p)
  /\ coming' = {}
  /\ lagging' = FALSE
  /\ idle' = FALSE
  /\ UNCHANGED <<sent, newest>>

Next ==
  \/ Open
  \/ \E s \in Slots : Emit(s)
  \/ Work \/ Arrive \/ Rest \/ End

Spec == Init /\ [][Next]_vars
=============================================================================
