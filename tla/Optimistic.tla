------------------------------ MODULE Optimistic ------------------------------
(***************************************************************************)
(* Optimistic mutations in the browser: an edit is shown in the atom of    *)
(* its scope before the server has it, and taken back when its submission  *)
(* fails.  Meanwhile the server's own patches arrive over the live         *)
(* connections and the guard against stale ones drops some of them.        *)
(*                                                                         *)
(* A scope has one field; what is shown of it is the edit that wrote it    *)
(* last.  Each scope has one element bound to it with s-bind, one node     *)
(* with data-kiln-live-field, and one component that submits its edits     *)
(* with useSilcrowMutation.  The scope option of submit(), which sets the  *)
(* atom from the answer, is not used together with an optimistic edit.     *)
(***************************************************************************)
EXTENDS Naturals, Sequences, FiniteSets

CONSTANTS
  Edits,      \* edits that may be submitted from this page
  Foreign,    \* edits that other sessions commit
  Scopes,     \* scopes of atoms
  Streamed,   \* those among them named stream:<url>, which a message patches too
  Named,      \* those among them that have the name of their field
  ScopeOf,    \* ScopeOf[m]: the scope edit m writes
  None,       \* no content: the value of an atom without data
  First,      \* what the server rendered
  MaxFeed     \* bound: messages on their way to the page

All == Edits \union Foreign
Content == All \union {First}

\* What publishOptimistic keeps of an edit.
Entry == [snapshot : Content \union {None}, liveSnapshot : Content]

ASSUME OptimisticAssumption ==
  /\ IsFiniteSet(Edits) /\ Edits \intersect Foreign = {}
  /\ Streamed \subseteq Scopes /\ Named \subseteq Scopes
  /\ ScopeOf \in [All -> Scopes]
  /\ None \notin Content /\ None \notin Entry /\ First \notin All
  /\ MaxFeed \in Nat

VARIABLES
  fate,              \* what the server decided about an edit
  call,              \* the submission of an edit
  server,            \* the content of a scope on the server
  feed,              \* messages on their way, in order
  exposed,           \* history: edits that may outlive their failure
  atom, el, node,    \* what the atom, the bound element and the node show
  pendingMutations,  \* per edit: its snapshots
  pendingByScope,    \* per scope: its pending edits
  hook               \* useSilcrowMutation: pending, error, pendingCountRef

shownVars == <<atom, el, node>>
pendingVars == <<pendingMutations, pendingByScope>>
serverVars == <<fate, server>>
vars == <<serverVars, call, feed, exposed, shownVars, pendingVars, hook>>

-----------------------------------------------------------------------------
Message == [kind : {"message", "patch", "live"}, scope : Scopes,
            data : Content, mutation_id : Edits \union {None}]

\* pendingByScope is the reverse index of pendingMutations: the guard holds for
\* a scope exactly while one of its edits is pending.
TypeOK ==
  /\ fate \in [All -> {"none", "committed", "refused"}]
  /\ call \in [Edits -> {"new", "sent", "over"}]
  /\ server \in [Scopes -> Content]
  /\ feed \in Seq(Message) /\ Len(feed) <= MaxFeed
  /\ exposed \subseteq Edits
  /\ atom \in [Scopes -> Content \union {None}]
  /\ el \in [Scopes -> Content] /\ node \in [Scopes -> Content]
  /\ pendingMutations \in [Edits -> Entry \union {None}]
  /\ pendingByScope =
       [s \in Scopes |-> {m \in Edits : ScopeOf[m] = s /\ pendingMutations[m] # None}]
  /\ hook \in [Scopes -> [pending : BOOLEAN, error : BOOLEAN,
                          count : 0..Cardinality(Edits)]]

Init ==
  /\ fate = [m \in All |-> "none"] /\ call = [m \in Edits |-> "new"]
  /\ server = [s \in Scopes |-> First] /\ feed = <<>> /\ exposed = {}
  /\ atom \in [Scopes -> {First, None}]
  /\ el = [s \in Scopes |-> First] /\ node = [s \in Scopes |-> First]
  /\ pendingMutations = [m \in Edits |-> None]
  /\ pendingByScope = [s \in Scopes |-> {}]
  /\ hook = [s \in Scopes |-> [pending |-> FALSE, error |-> FALSE, count |-> 0]]

-----------------------------------------------------------------------------
(* Atoms and what is bound to them.                                        *)

\* What the element shows once the atom holds v: subscribers are called if the
\* value changed, and apply() ignores an atom without data.
Applied(s, v, shown) == IF v \in {None, atom[s]} THEN shown ELSE v

\* atom.set and atom.patch, which for one field do the same.
SetAtom(s, v) ==
  /\ atom' = [atom EXCEPT ![s] = v]
  /\ el' = [el EXCEPT ![s] = Applied(s, v, @)]

-----------------------------------------------------------------------------
(* publishOptimistic, confirmOptimistic, revertOptimistic.                 *)

\* (Mistake: the snapshot is taken after the edit was applied.)
publishFirst(m) ==
  LET s == ScopeOf[m] IN
  /\ pendingMutations' = [pendingMutations EXCEPT
                            ![m] = [snapshot |-> m, liveSnapshot |-> node[s]]]
  /\ pendingByScope' = [pendingByScope EXCEPT ![s] = @ \union {m}]
  /\ SetAtom(s, m)
  /\ node' = [node EXCEPT ![s] = m]

publishOptimistic(m) ==
  LET s == ScopeOf[m] IN
  /\ pendingMutations' = [pendingMutations EXCEPT
                            ![m] = [snapshot |-> atom[s], liveSnapshot |-> node[s]]]
  /\ pendingByScope' = [pendingByScope EXCEPT ![s] = @ \union {m}]
  /\ SetAtom(s, m)
  /\ node' = [node EXCEPT ![s] = m]

\* (Mistake: the reverse index keeps the edit.)
forgetEntry(m) ==
  /\ pendingMutations' = [pendingMutations EXCEPT ![m] = None]
  /\ UNCHANGED pendingByScope

\* The edit is pending no longer.
forget(m) ==
  /\ pendingMutations' = [pendingMutations EXCEPT ![m] = None]
  /\ pendingByScope' = [pendingByScope EXCEPT ![ScopeOf[m]] = @ \ {m}]

confirmOptimistic(m) ==
  IF pendingMutations[m] = None THEN UNCHANGED pendingVars ELSE forget(m)

revertOptimistic(m) ==
  LET s == ScopeOf[m]
      entry == pendingMutations[m] IN
  IF entry = None THEN UNCHANGED <<pendingVars, shownVars>>
  ELSE /\ forget(m)
       /\ SetAtom(s, entry.snapshot)
       /\ node' = [node EXCEPT ![s] = entry.liveSnapshot]

-----------------------------------------------------------------------------
(* The component: useSilcrowMutation around submit().                      *)

\* The submissions of a scope's component that are under way.
SentIn(s) == {m \in Edits : ScopeOf[m] = s /\ call[m] = "sent"}

\* mutate(): the pending flag rises with the first of its submissions, and an
\* earlier error is cleared.  Nothing stops a second one: what it keeps to go
\* back to is what the first shows, and an atom without data is none to go back to.
mutate(m) ==
  LET s == ScopeOf[m] IN
  /\ call[m] = "new"
  /\ call' = [call EXCEPT ![m] = "sent"]
  /\ hook' = [hook EXCEPT ![s] = [pending |-> @.pending \/ @.count = 0,
                                  error |-> FALSE, count |-> @.count + 1]]
  /\ publishOptimistic(m)
  /\ exposed' = exposed \union SentIn(s) \union {n \in {m} : atom[s] = None}
  /\ UNCHANGED <<serverVars, feed>>

\* What mutate() does with the outcome of submit(), and its finally.
Ends(m, failed) ==
  LET s == ScopeOf[m] IN
  /\ call' = [call EXCEPT ![m] = "over"]
  /\ hook' = [hook EXCEPT ![s] = [pending |-> @.pending /\ @.count # 1,
                                  error |-> failed \/ @.error,
                                  count |-> @.count - 1]]

\* A response that is ok: the edit waits for its echo.
Succeeds(m) ==
  /\ call[m] = "sent" /\ fate[m] = "committed"
  /\ Ends(m, FALSE)
  /\ UNCHANGED <<serverVars, feed, exposed, shownVars, pendingVars>>

\* An error response, or none: the connection is lost before or after the
\* server decided.
Fails(m) ==
  /\ call[m] = "sent"
  /\ Ends(m, TRUE)
  /\ revertOptimistic(m)
  /\ UNCHANGED <<serverVars, feed, exposed>>

\* The flags are cleared, the count of running submissions is not.
reset(s) ==
  /\ hook[s].pending \/ hook[s].error
  /\ hook' = [hook EXCEPT ![s] = [pending |-> FALSE, error |-> FALSE, count |-> @.count]]
  /\ UNCHANGED <<serverVars, call, feed, exposed, shownVars, pendingVars>>

-----------------------------------------------------------------------------
(* The server, and what it pushes.                                         *)

\* The server commits an edit and may tell the page, with or without the id of
\* its own.
Commit(m) ==
  LET s == ScopeOf[m] IN
  /\ fate[m] = "none"
  /\ m \in Edits => call[m] # "new"
  /\ fate' = [fate EXCEPT ![m] = "committed"]
  /\ server' = [server EXCEPT ![s] = m]
  /\ \/ UNCHANGED feed
     \/ \E kind \in {"message", "patch", "live"},
           id \in {None} \union ({m} \intersect Edits) :
          /\ Len(feed) < MaxFeed
          /\ feed' = Append(feed, [kind |-> kind, scope |-> s, data |-> m,
                                   mutation_id |-> id])
  /\ UNCHANGED <<call, exposed, shownVars, pendingVars, hook>>

Refuse(m) ==
  /\ fate[m] = "none" /\ call[m] = "sent"
  /\ fate' = [fate EXCEPT ![m] = "refused"]
  /\ UNCHANGED <<server, call, feed, exposed, shownVars, pendingVars, hook>>

\* hasPendingMutationForTarget.
Guarded(s) == pendingByScope[s] # {}

\* The page receives the first message.
Receives(kind) ==
  /\ feed # <<>> /\ Head(feed).kind = kind
  /\ feed' = Tail(feed)
  /\ UNCHANGED <<serverVars, call, exposed, hook>>

\* patch(data, target) to the element, and then to the stream's atom.
Patched(s, data, dropped) ==
  /\ atom' = IF s \in Streamed THEN [atom EXCEPT ![s] = data] ELSE atom
  /\ el' = [el EXCEPT ![s] =
              LET patched == IF dropped THEN @ ELSE data
              IN IF s \in Streamed THEN Applied(s, data, patched) ELSE patched]
  /\ UNCHANGED node

\* onmessage of an SSE hub, and a patch over a WebSocket: an echo confirms its
\* edit and is applied, another message is dropped while an edit is pending.
applyLivePatchPayload ==
  LET msg == Head(feed) IN
  /\ Receives("message")
  /\ IF msg.mutation_id # None THEN confirmOptimistic(msg.mutation_id)
                               ELSE UNCHANGED pendingVars
  /\ Patched(msg.scope, msg.data, msg.mutation_id = None /\ Guarded(msg.scope))

\* The SSE event named patch, and a message that is not an envelope, neither
\* confirm nor ask for pending edits.
onPatchEvent ==
  /\ Receives("patch")
  /\ Patched(Head(feed).scope, Head(feed).data, FALSE)
  /\ UNCHANGED pendingVars

\* The SSE event named live asks for edits of a scope with the field's name.
onLiveEvent ==
  LET msg == Head(feed) IN
  /\ Receives("live")
  /\ node' = IF msg.scope \in Named /\ Guarded(msg.scope) THEN node
             ELSE [node EXCEPT ![msg.scope] = msg.data]
  /\ UNCHANGED <<atom, el, pendingVars>>

\* The live connections are closed and pending edits are forgotten.
destroyAllLive ==
  /\ \E m \in Edits : pendingMutations[m] # None
  /\ exposed' = exposed \union {m \in Edits : pendingMutations[m] # None}
  /\ feed' = <<>>
  /\ pendingMutations' = [m \in Edits |-> None]
  /\ pendingByScope' = [s \in Scopes |-> {}]
  /\ UNCHANGED <<serverVars, call, shownVars, hook>>

-----------------------------------------------------------------------------
Next ==
  \/ \E m \in Edits : mutate(m) \/ Succeeds(m) \/ Fails(m) \/ Refuse(m)
  \/ \E m \in All : Commit(m)
  \/ \E s \in Scopes : reset(s)
  \/ applyLivePatchPayload \/ onPatchEvent \/ onLiveEvent
  \/ destroyAllLive

Spec == Init /\ [][Next]_vars

-----------------------------------------------------------------------------
(* Properties.                                                             *)

\* The edit failed for the page and the server does not have it.
Withdrawn(m) == call[m] = "over" /\ fate[m] # "committed"

\* A failed edit leaves nothing behind, whatever the server pushed and whatever
\* other edits failed between it and its failure, and however late the server
\* decided: neither the atom, nor the elements bound to it, nor the live nodes
\* show it.  That is not claimed of an edit that was still under way when
\* another one of its scope began or when destroyAllLive() forgot it, nor of one
\* that began on an atom without data.
WithdrawnIsGone ==
  \A m \in Edits \ exposed : Withdrawn(m) =>
    \A s \in Scopes : m \notin {atom[s], el[s], node[s]}
=============================================================================
