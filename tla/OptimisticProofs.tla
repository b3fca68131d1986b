--------------------------- MODULE OptimisticProofs ---------------------------
(***************************************************************************)
(* Theorems about Optimistic, for every set of edits and scopes and every  *)
(* number of messages on their way: the reverse index is that of the       *)
(* pending edits, and an edit that was neither overtaken nor forgotten,    *)
(* and had something to go back to, leaves nothing behind when it fails.   *)
(*                                                                         *)
(* No snapshot ever holds such an edit while the server does not have it,  *)
(* since whatever keeps one begins after it is over; it is shown only      *)
(* while it is under way; and an element shows it only if its atom does,   *)
(* or has no data, or taking it back would pass the element by.            *)
(***************************************************************************)
EXTENDS Optimistic, FiniteSetTheorems, TLAPS

\* v is no edit, or one that the server has, f being what it decided.
Settled(v, f) == v \in Edits => f[v] = "committed"

\* v is content of scope s.
Home(v, s) == v \in All => ScopeOf[v] = s

\* The component counts its submissions.
Counted == \A s \in Scopes : hook[s].count = Cardinality(SentIn(s))

\* What is shown of a scope, or was, is content of that scope.
Placed ==
  /\ \A s \in Scopes : Home(atom[s], s) /\ Home(el[s], s) /\ Home(node[s], s)
  /\ \A m \in Edits : pendingMutations[m] # None =>
       /\ Home(pendingMutations[m].snapshot, ScopeOf[m])
       /\ Home(pendingMutations[m].liveSnapshot, ScopeOf[m])

\* The server pushes what it has committed.
Pushed(msg, f) ==
  /\ Home(msg.data, msg.scope) /\ Settled(msg.data, f)
  /\ msg.mutation_id # None => f[msg.mutation_id] = "committed"

FeedOK == \A i \in DOMAIN feed : Pushed(feed[i], fate)

\* Such an edit is shown only while it is under way, and by an element only if
\* its atom shows it or has no data.
ShownOK(m) == \A s \in Scopes :
  /\ m \in {atom[s], el[s], node[s]} => call[m] = "sent"
  /\ el[s] = m => atom[s] \in {m, None}

\* No edit would go back to it, and it has itself something to go back to.
PendingOK(m) ==
  /\ \A n \in Edits : pendingMutations[n] # None =>
       m \notin {pendingMutations[n].snapshot, pendingMutations[n].liveSnapshot}
  /\ call[m] = "sent" => /\ pendingMutations[m] # None
                         /\ pendingMutations[m].snapshot # None

Open(m) == m \notin exposed /\ fate[m] # "committed"

Clean == \A m \in Edits : Open(m) => ShownOK(m) /\ PendingOK(m)

IInv == TypeOK /\ Counted /\ Placed /\ FeedOK /\ Clean

-----------------------------------------------------------------------------
(* Counting submissions.                                                   *)

\* There are never more submissions of a scope than edits.
LEMMA PartIsFinite ==
  ASSUME NEW S \in SUBSET Edits
  PROVE  IsFiniteSet(S) /\ Cardinality(S) \in 0..Cardinality(Edits)
<1>1. IsFiniteSet(Edits)
  BY OptimisticAssumption
<1>2. /\ IsFiniteSet(S) /\ Cardinality(S) \in Nat
      /\ Cardinality(Edits) \in Nat /\ Cardinality(S) <= Cardinality(Edits)
  BY <1>1, FS_Subset, FS_CardinalityType
<1>3. QED
  BY <1>2

\* A submission that starts.
LEMMA SentGrows ==
  ASSUME TypeOK, NEW m \in Edits, call[m] # "sent", call' = [call EXCEPT ![m] = "sent"]
  PROVE  /\ ScopeOf[m] \in Scopes
         /\ \A s \in Scopes : SentIn(s)' = IF s = ScopeOf[m] THEN SentIn(s) \union {m}
                                           ELSE SentIn(s)
         /\ Cardinality(SentIn(ScopeOf[m])') = Cardinality(SentIn(ScopeOf[m])) + 1
<1>1. ScopeOf[m] \in Scopes
  BY OptimisticAssumption DEF All
<1>2. \A n \in Edits : call'[n] = IF n = m THEN "sent" ELSE call[n]
  BY DEF TypeOK
<1>3. \A s \in Scopes : SentIn(s)' = IF s = ScopeOf[m] THEN SentIn(s) \union {m}
                                     ELSE SentIn(s)
  BY <1>2 DEF SentIn
<1>4. m \notin SentIn(ScopeOf[m])
  BY DEF SentIn
<1>5. SentIn(ScopeOf[m])' = SentIn(ScopeOf[m]) \union {m}
  BY <1>1, <1>3
<1>6. QED
  BY <1>1, <1>3, <1>4, <1>5, PartIsFinite, FS_AddElement DEF SentIn

\* A submission that ends.
LEMMA SentShrinks ==
  ASSUME TypeOK, NEW m \in Edits, call[m] = "sent", call' = [call EXCEPT ![m] = "over"]
  PROVE  /\ ScopeOf[m] \in Scopes /\ m \in SentIn(ScopeOf[m])
         /\ \A s \in Scopes : SentIn(s)' = IF s = ScopeOf[m] THEN SentIn(s) \ {m}
                                           ELSE SentIn(s)
         /\ Cardinality(SentIn(ScopeOf[m])') = Cardinality(SentIn(ScopeOf[m])) - 1
<1>1. ScopeOf[m] \in Scopes
  BY OptimisticAssumption DEF All
<1>2. \A n \in Edits : call'[n] = IF n = m THEN "over" ELSE call[n]
  BY DEF TypeOK
<1>3. \A s \in Scopes : SentIn(s)' = IF s = ScopeOf[m] THEN SentIn(s) \ {m}
                                     ELSE SentIn(s)
  BY <1>2 DEF SentIn
<1>4. m \in SentIn(ScopeOf[m])
  BY DEF SentIn
<1>5. SentIn(ScopeOf[m])' = SentIn(ScopeOf[m]) \ {m}
  BY <1>1, <1>3
<1>6. QED
  BY <1>1, <1>3, <1>4, <1>5, PartIsFinite, FS_RemoveElement DEF SentIn

HookTypes == hook \in [Scopes -> [pending : BOOLEAN, error : BOOLEAN,
                                  count : 0..Cardinality(Edits)]]

\* mutate() counts its submission.
LEMMA MutateCounts ==
  ASSUME IInv, NEW m \in Edits, mutate(m)
  PROVE  HookTypes' /\ Counted'
<1> DEFINE t == ScopeOf[m]
<1>1. /\ t \in Scopes
      /\ \A s \in Scopes : SentIn(s)' = IF s = t THEN SentIn(s) \union {m} ELSE SentIn(s)
      /\ Cardinality(SentIn(t)') = Cardinality(SentIn(t)) + 1
  BY SentGrows DEF mutate, IInv
<1>2. HookTypes /\ Counted
  BY DEF IInv, TypeOK, HookTypes
<1>3. /\ \A s \in Scopes : s # t => hook'[s] = hook[s]
      /\ hook'[t].count = hook[t].count + 1
      /\ hook'[t].pending <=> hook[t].pending \/ hook[t].count = 0
  BY <1>1, <1>2 DEF mutate, HookTypes
<1>4. \A s \in Scopes : hook'[s].count = Cardinality(SentIn(s)')
  BY <1>1, <1>2, <1>3 DEF Counted
<1>5. \A s \in Scopes : Cardinality(SentIn(s)') \in 0..Cardinality(Edits)
  BY PartIsFinite DEF SentIn
<1>6. HookTypes'
  <2>1. hook[t].count + 1 \in 0..Cardinality(Edits)
    BY <1>1, <1>3, <1>4, <1>5
  <2>2. hook' = [hook EXCEPT ![t] = [pending |-> @.pending \/ @.count = 0,
                                     error |-> FALSE, count |-> @.count + 1]]
    BY DEF mutate
  <2>3. (hook[t].pending \/ hook[t].count = 0) \in BOOLEAN
    OBVIOUS
  <2>4. QED
    BY <1>1, <1>2, <2>1, <2>2, <2>3 DEF HookTypes
<1>7. QED
  BY <1>4, <1>6 DEF Counted

\* So does its finally.
LEMMA EndsCounts ==
  ASSUME IInv, NEW m \in Edits, call[m] = "sent", NEW failed \in BOOLEAN, Ends(m, failed)
  PROVE  HookTypes' /\ Counted'
<1> DEFINE t == ScopeOf[m]
<1>1. /\ t \in Scopes /\ m \in SentIn(t)
      /\ \A s \in Scopes : SentIn(s)' = IF s = t THEN SentIn(s) \ {m} ELSE SentIn(s)
      /\ Cardinality(SentIn(t)') = Cardinality(SentIn(t)) - 1
  BY SentShrinks DEF Ends, IInv
<1>2. HookTypes /\ Counted
  BY DEF IInv, TypeOK, HookTypes
<1>3. /\ \A s \in Scopes : s # t => hook'[s] = hook[s]
      /\ hook'[t].count = hook[t].count - 1
      /\ hook'[t].pending <=> hook[t].pending /\ hook[t].count # 1
  BY <1>1, <1>2 DEF Ends, HookTypes
<1>4. \A s \in Scopes : hook'[s].count = Cardinality(SentIn(s)')
  BY <1>1, <1>2, <1>3 DEF Counted
<1>5. \A s \in Scopes : Cardinality(SentIn(s)') \in 0..Cardinality(Edits)
  BY PartIsFinite DEF SentIn
<1>6. HookTypes'
  <2>1. hook[t].count - 1 \in 0..Cardinality(Edits)
    BY <1>1, <1>3, <1>4, <1>5
  <2>2. hook' = [hook EXCEPT ![t] = [pending |-> @.pending /\ @.count # 1,
                                     error |-> failed \/ @.error, count |-> @.count - 1]]
    BY DEF Ends
  <2>3. /\ (hook[t].pending /\ hook[t].count # 1) \in BOOLEAN
        /\ (failed \/ hook[t].error) \in BOOLEAN
    OBVIOUS
  <2>4. QED
    BY <1>1, <1>2, <2>1, <2>2, <2>3 DEF HookTypes
<1>7. QED
  BY <1>4, <1>6 DEF Counted

\* reset() forgets no submission.
LEMMA ResetCounts ==
  ASSUME IInv, NEW t \in Scopes, reset(t)
  PROVE  HookTypes' /\ Counted'
<1>1. \A s \in Scopes : SentIn(s)' = SentIn(s)
  BY DEF SentIn, reset
<1>2. HookTypes /\ Counted
  BY DEF IInv, TypeOK, HookTypes
<1>3. /\ \A s \in Scopes : s # t => hook'[s] = hook[s]
      /\ hook'[t].count = hook[t].count /\ ~hook'[t].pending
  BY <1>2 DEF reset, HookTypes
<1>4. HookTypes'
  BY <1>2 DEF reset, HookTypes
<1>5. Counted'
  BY <1>1, <1>2, <1>3 DEF Counted
<1>6. QED
  BY <1>4, <1>5

\* Nothing else concerns the component.
LEMMA OthersCount ==
  ASSUME IInv, UNCHANGED <<call, hook>>
  PROVE  HookTypes' /\ Counted'
BY DEF IInv, TypeOK, HookTypes, Counted, SentIn

-----------------------------------------------------------------------------
(* What is shown and what is pending.                                      *)

ShownTypes ==
  /\ atom \in [Scopes -> Content \union {None}]
  /\ el \in [Scopes -> Content] /\ node \in [Scopes -> Content]

PendingTypes ==
  /\ pendingMutations \in [Edits -> Entry \union {None}]
  /\ pendingByScope =
       [s \in Scopes |-> {m \in Edits : ScopeOf[m] = s /\ pendingMutations[m] # None}]

FeedTypes == feed \in Seq(Message) /\ Len(feed) <= MaxFeed

ServerTypes ==
  /\ fate \in [All -> {"none", "committed", "refused"}]
  /\ server \in [Scopes -> Content]

\* The parts make up the invariant.
LEMMA PartsMakeIInv ==
  ASSUME HookTypes', Counted', ShownTypes', PendingTypes', FeedTypes', ServerTypes',
         call' \in [Edits -> {"new", "sent", "over"}], exposed' \in SUBSET Edits,
         Placed', FeedOK', Clean'
  PROVE  IInv'
BY DEF IInv, TypeOK, HookTypes, ShownTypes, PendingTypes, FeedTypes, ServerTypes

\* An edit is content of its scope.
LEMMA EditFacts ==
  ASSUME NEW m \in Edits
  PROVE  /\ m \in All /\ m \in Content /\ m # None
         /\ ScopeOf[m] \in Scopes /\ Home(m, ScopeOf[m])
BY OptimisticAssumption DEF All, Content, Home

\* What SetAtom leaves in the atom and in the element.
LEMMA SetAtomFacts ==
  ASSUME TypeOK, NEW t \in Scopes, NEW v \in Content \union {None}, SetAtom(t, v)
  PROVE  /\ atom' \in [Scopes -> Content \union {None}] /\ el' \in [Scopes -> Content]
         /\ \A s \in Scopes : s # t => atom'[s] = atom[s] /\ el'[s] = el[s]
         /\ atom'[t] = v
         /\ \/ el'[t] = v /\ v # None
            \/ el'[t] = el[t] /\ v \in {None, atom[t]}
<1>1. Applied(t, v, el[t]) \in Content
  BY DEF Applied, TypeOK
<1>2. QED
  BY <1>1 DEF SetAtom, Applied, TypeOK

\* An edit is not pending any longer.
LEMMA ForgetKeeps ==
  ASSUME TypeOK, NEW m \in Edits, forget(m)
  PROVE  /\ PendingTypes'
         /\ \A n \in Edits : pendingMutations'[n] = IF n = m THEN None ELSE pendingMutations[n]
<1>1. ScopeOf[m] \in Scopes
  BY EditFacts
<1>2. \A n \in Edits : pendingMutations'[n] = IF n = m THEN None ELSE pendingMutations[n]
  BY DEF forget, TypeOK
<1>3. pendingMutations' \in [Edits -> Entry \union {None}]
  BY DEF forget, TypeOK
<1>4. pendingByScope' =
        [s \in Scopes |-> {n \in Edits : ScopeOf[n] = s /\ pendingMutations'[n] # None}]
  <2>1. \A s \in Scopes : pendingByScope[s] =
          {n \in Edits : ScopeOf[n] = s /\ pendingMutations[n] # None}
    BY DEF TypeOK
  <2>2. pendingByScope' = [s \in Scopes |-> IF s = ScopeOf[m] THEN pendingByScope[s] \ {m}
                                            ELSE pendingByScope[s]]
    BY <1>1 DEF forget, TypeOK
  <2>3. ASSUME NEW s \in Scopes
        PROVE  (IF s = ScopeOf[m] THEN pendingByScope[s] \ {m} ELSE pendingByScope[s])
                 = {n \in Edits : ScopeOf[n] = s /\ pendingMutations'[n] # None}
    BY <1>2, <2>1
  <2>4. QED
    BY <2>2, <2>3
<1>5. QED
  BY <1>2, <1>3, <1>4 DEF PendingTypes

\* mutate() keeps what the scope shows, and that is on the server.
LEMMA MutateStep ==
  ASSUME IInv, NEW m \in Edits, mutate(m)
  PROVE  IInv'
<1> DEFINE t == ScopeOf[m]
           entry == [snapshot |-> atom[t], liveSnapshot |-> node[t]]
<1>1. m \in All /\ m \in Content /\ m # None /\ t \in Scopes /\ Home(m, t)
  BY EditFacts
<1>2. /\ call[m] = "new" /\ call' = [call EXCEPT ![m] = "sent"]
      /\ UNCHANGED <<fate, server, feed>>
      /\ exposed' = exposed \union SentIn(t) \union {n \in {m} : atom[t] = None}
      /\ pendingMutations' = [pendingMutations EXCEPT ![m] = entry]
      /\ pendingByScope' = [pendingByScope EXCEPT ![t] = @ \union {m}]
      /\ SetAtom(t, m) /\ node' = [node EXCEPT ![t] = m]
  BY DEF mutate, publishOptimistic, serverVars
<1>3. /\ atom' \in [Scopes -> Content \union {None}] /\ el' \in [Scopes -> Content]
      /\ \A s \in Scopes : s # t => atom'[s] = atom[s] /\ el'[s] = el[s]
      /\ atom'[t] = m
      /\ el'[t] = m \/ (el'[t] = el[t] /\ atom[t] = m)
  <2>1. TypeOK /\ SetAtom(t, m) /\ m \in Content \union {None}
    BY <1>1, <1>2 DEF IInv
  <2>2. el'[t] = m \/ (el'[t] = el[t] /\ m \in {None, atom[t]})
    BY <1>1, <2>1, SetAtomFacts
  <2>3. QED
    BY <1>1, <2>1, <2>2, SetAtomFacts
<1>4. \A s \in Scopes : node'[s] = IF s = t THEN m ELSE node[s]
  BY <1>2 DEF IInv, TypeOK
<1>5. ShownTypes'
  BY <1>1, <1>2, <1>3 DEF ShownTypes, IInv, TypeOK
<1>6. entry \in Entry /\ entry # None
  BY <1>1, OptimisticAssumption DEF Entry, IInv, TypeOK
<1>7. \A n \in Edits : pendingMutations'[n] = IF n = m THEN entry ELSE pendingMutations[n]
  BY <1>2 DEF IInv, TypeOK
<1> HIDE DEF entry
<1>8. PendingTypes'
  <2>1. pendingMutations' \in [Edits -> Entry \union {None}]
    BY <1>2, <1>6 DEF IInv, TypeOK
  <2>2. \A s \in Scopes : pendingByScope[s] =
          {n \in Edits : ScopeOf[n] = s /\ pendingMutations[n] # None}
    BY DEF IInv, TypeOK
  <2>3. pendingByScope' = [s \in Scopes |-> IF s = t THEN pendingByScope[s] \union {m}
                                            ELSE pendingByScope[s]]
    BY <1>1, <1>2 DEF IInv, TypeOK
  <2>4. ASSUME NEW s \in Scopes
        PROVE  (IF s = t THEN pendingByScope[s] \union {m} ELSE pendingByScope[s])
                 = {n \in Edits : ScopeOf[n] = s /\ pendingMutations'[n] # None}
    BY <1>6, <1>7, <2>2
  <2>5. QED
    BY <2>1, <2>3, <2>4 DEF PendingTypes
<1>9. Placed'
  <2>1. \A s \in Scopes : Home(atom'[s], s) /\ Home(el'[s], s) /\ Home(node'[s], s)
    BY <1>1, <1>3, <1>4 DEF IInv, Placed
  <2>2. Home(entry.snapshot, t) /\ Home(entry.liveSnapshot, t)
    BY <1>1 DEF entry, IInv, Placed
  <2>3. \A n \in Edits : pendingMutations'[n] # None =>
          /\ Home(pendingMutations'[n].snapshot, ScopeOf[n])
          /\ Home(pendingMutations'[n].liveSnapshot, ScopeOf[n])
    BY <1>7, <2>2 DEF IInv, Placed
  <2>4. QED
    BY <2>1, <2>3 DEF Placed
<1>10. FeedOK'
  BY <1>2 DEF IInv, FeedOK
<1>11. ASSUME NEW n \in Edits, Open(n)' PROVE ShownOK(n)' /\ PendingOK(n)'
  <2>1. /\ ShownOK(n) /\ PendingOK(n) /\ n \notin SentIn(t) /\ n \notin exposed
        /\ n = m => atom[t] # None
    BY <1>2, <1>11 DEF IInv, Clean, Open
  <2>2. \A k \in Edits : call'[k] = IF k = m THEN "sent" ELSE call[k]
    BY <1>2 DEF IInv, TypeOK
  <2>3. n \notin {atom[t], el[t], node[t]}
    <3>1. CASE call[n] = "sent"
      <4>1. ScopeOf[n] # t /\ n \in All
        BY <2>1, <3>1 DEF SentIn, All
      <4>2. QED
        BY <1>1, <4>1 DEF IInv, Placed, Home
    <3>2. CASE call[n] # "sent"
      BY <1>1, <2>1, <3>2 DEF ShownOK
    <3>3. QED
      BY <3>1, <3>2
  <2>4. ASSUME NEW s \in Scopes
        PROVE  /\ n \in {atom'[s], el'[s], node'[s]} => call'[n] = "sent"
               /\ el'[s] = n => atom'[s] \in {n, None}
    <3>1. CASE s = t
      BY <1>3, <1>4, <2>2, <2>3, <3>1
    <3>2. CASE s # t
      BY <1>3, <1>4, <2>1, <2>2, <3>2 DEF ShownOK
    <3>3. QED
      BY <3>1, <3>2
  <2>5. ShownOK(n)'
    BY <2>4 DEF ShownOK
  <2>6. entry.snapshot = atom[t] /\ entry.liveSnapshot = node[t]
    BY DEF entry
  <2>7. \A k \in Edits : pendingMutations'[k] # None =>
          n \notin {pendingMutations'[k].snapshot, pendingMutations'[k].liveSnapshot}
    BY <1>7, <2>1, <2>3, <2>6 DEF PendingOK
  <2>8. call'[n] = "sent" => /\ pendingMutations'[n] # None
                             /\ pendingMutations'[n].snapshot # None
    <3>1. CASE n = m
      BY <1>6, <1>7, <2>1, <2>6, <3>1
    <3>2. CASE n # m
      BY <1>7, <2>1, <2>2, <3>2 DEF PendingOK
    <3>3. QED
      BY <3>1, <3>2
  <2>9. QED
    BY <2>5, <2>7, <2>8 DEF PendingOK
<1>12. Clean'
  BY <1>11 DEF Clean
<1>13. HookTypes' /\ Counted'
  BY MutateCounts
<1>14. FeedTypes' /\ ServerTypes' /\ call' \in [Edits -> {"new", "sent", "over"}]
       /\ exposed' \in SUBSET Edits
  BY <1>2 DEF FeedTypes, ServerTypes, SentIn, IInv, TypeOK
<1>15. QED
  BY <1>5, <1>8, <1>9, <1>10, <1>12, <1>13, <1>14, PartsMakeIInv

\* A submission that fails takes its edit back, unless its echo was here.
LEMMA FailsStep ==
  ASSUME IInv, NEW m \in Edits, Fails(m)
  PROVE  IInv'
<1> DEFINE t == ScopeOf[m]
           entry == pendingMutations[m]
<1>1. m \in All /\ m \in Content /\ m # None /\ t \in Scopes /\ Home(m, t)
  BY EditFacts
<1>2. /\ call[m] = "sent" /\ call' = [call EXCEPT ![m] = "over"]
      /\ UNCHANGED <<fate, server, feed, exposed>> /\ revertOptimistic(m)
  BY DEF Fails, Ends, serverVars
<1>3. HookTypes' /\ Counted'
  <2>1. Ends(m, TRUE)
    BY DEF Fails
  <2>2. QED
    BY <1>2, <2>1, EndsCounts
<1>4. /\ FeedTypes' /\ ServerTypes' /\ call' \in [Edits -> {"new", "sent", "over"}]
      /\ exposed' \in SUBSET Edits /\ FeedOK'
  BY <1>2 DEF FeedTypes, ServerTypes, FeedOK, IInv, TypeOK
<1>5. \A n \in Edits : call'[n] = IF n = m THEN "over" ELSE call[n]
  BY <1>2 DEF IInv, TypeOK
<1>7. CASE entry = None
  <2>1. UNCHANGED <<atom, el, node, pendingMutations, pendingByScope>>
    BY <1>2, <1>7 DEF revertOptimistic, pendingVars, shownVars
  <2>2. ShownTypes' /\ PendingTypes' /\ Placed'
    BY <2>1 DEF ShownTypes, PendingTypes, Placed, IInv, TypeOK
  <2>3. Clean'
    <3> SUFFICES ASSUME NEW n \in Edits, Open(n)' PROVE ShownOK(n)' /\ PendingOK(n)'
      BY DEF Clean
    <3>1. ShownOK(n) /\ PendingOK(n)
      BY <1>2 DEF IInv, Clean, Open
    <3>2. call'[n] = call[n]
      BY <1>2, <1>5, <1>7, <3>1 DEF PendingOK
    <3>3. QED
      BY <2>1, <3>1, <3>2 DEF ShownOK, PendingOK
  <2>4. QED
    BY <1>3, <1>4, <2>2, <2>3, PartsMakeIInv
<1>8. CASE entry # None
  <2>1. /\ forget(m) /\ SetAtom(t, entry.snapshot)
        /\ node' = [node EXCEPT ![t] = entry.liveSnapshot]
    BY <1>2, <1>8 DEF revertOptimistic
  <2>2. entry.snapshot \in Content \union {None} /\ entry.liveSnapshot \in Content
    BY <1>8 DEF Entry, IInv, TypeOK
  <2>3. PendingTypes'
        /\ \A n \in Edits : pendingMutations'[n] = IF n = m THEN None ELSE pendingMutations[n]
    BY <2>1, ForgetKeeps DEF IInv
  <2> DEFINE v == entry.snapshot
  <2>4. /\ atom' \in [Scopes -> Content \union {None}] /\ el' \in [Scopes -> Content]
        /\ \A s \in Scopes : s # t => atom'[s] = atom[s] /\ el'[s] = el[s]
        /\ atom'[t] = v
        /\ \/ el'[t] = v /\ v # None
           \/ el'[t] = el[t] /\ v \in {None, atom[t]}
    <3>1. TypeOK
      BY DEF IInv
    <3>2. QED
      BY <1>1, <2>1, <2>2, <3>1, SetAtomFacts
  <2>5. \A s \in Scopes : node'[s] = IF s = t THEN entry.liveSnapshot ELSE node[s]
    BY <2>1 DEF IInv, TypeOK
  <2>6. ShownTypes'
    BY <2>1, <2>2, <2>4 DEF ShownTypes, IInv, TypeOK
  <2>7. Home(v, t) /\ Home(entry.liveSnapshot, t)
    BY <1>8 DEF IInv, Placed
  <2> HIDE DEF v, entry
  <2>8. Placed'
    <3>1. \A s \in Scopes : Home(atom'[s], s) /\ Home(el'[s], s) /\ Home(node'[s], s)
      BY <1>1, <2>4, <2>5, <2>7 DEF IInv, Placed
    <3>2. \A n \in Edits : pendingMutations'[n] # None =>
            /\ Home(pendingMutations'[n].snapshot, ScopeOf[n])
            /\ Home(pendingMutations'[n].liveSnapshot, ScopeOf[n])
      BY <2>3 DEF IInv, Placed
    <3>3. QED
      BY <3>1, <3>2 DEF Placed
  <2>9. Clean'
    <3> SUFFICES ASSUME NEW n \in Edits, Open(n)' PROVE ShownOK(n)' /\ PendingOK(n)'
      BY DEF Clean
    <3>1. ShownOK(n) /\ PendingOK(n)
      BY <1>2 DEF IInv, Clean, Open
    <3>2. v # n /\ entry.liveSnapshot # n /\ (n = m => v # None)
      BY <1>2, <1>8, <3>1 DEF PendingOK, v, entry
    <3>3. \A s \in Scopes : s # t => atom[s] # m /\ el[s] # m /\ node[s] # m
      BY <1>1 DEF IInv, Placed, Home
    <3>4. el'[t] = n => n # m /\ el[t] = n /\ atom'[t] \in {n, None}
      <4>1. CASE el'[t] = v
        BY <3>2, <4>1
      <4>2. CASE el'[t] = el[t] /\ v \in {None, atom[t]}
        <5>1. el[t] = n => atom[t] \in {n, None}
          BY <1>1, <3>1 DEF ShownOK
        <5>2. QED
          BY <2>4, <3>2, <4>2, <5>1
      <4>3. QED
        BY <2>4, <4>1, <4>2
    <3>5. ASSUME NEW s \in Scopes
          PROVE  /\ n \in {atom'[s], el'[s], node'[s]} => call'[n] = "sent"
                 /\ el'[s] = n => atom'[s] \in {n, None}
      <4>1. CASE s = t
        <5>1. el[t] = n => call[n] = "sent"
          BY <1>1, <3>1 DEF ShownOK
        <5>2. QED
          BY <1>1, <1>5, <2>4, <2>5, <3>2, <3>4, <4>1, <5>1
      <4>2. CASE s # t
        BY <1>5, <2>4, <2>5, <3>1, <3>3, <4>2 DEF ShownOK
      <4>3. QED
        BY <4>1, <4>2
    <3>6. ShownOK(n)'
      BY <3>5 DEF ShownOK
    <3>7. PendingOK(n)'
      BY <1>5, <2>3, <3>1 DEF PendingOK
    <3>8. QED
      BY <3>6, <3>7
  <2>10. QED
    BY <1>3, <1>4, <2>3, <2>6, <2>8, <2>9, PartsMakeIInv
<1>9. QED
  BY <1>7, <1>8

\* A submission that succeeds leaves what is shown.
LEMMA SucceedsStep ==
  ASSUME IInv, NEW m \in Edits, Succeeds(m)
  PROVE  IInv'
<1>1. /\ call[m] = "sent" /\ fate[m] = "committed" /\ call' = [call EXCEPT ![m] = "over"]
      /\ UNCHANGED <<fate, server, feed, exposed>>
      /\ UNCHANGED <<atom, el, node, pendingMutations, pendingByScope>>
  BY DEF Succeeds, Ends, serverVars, shownVars, pendingVars
<1>2. HookTypes' /\ Counted'
  <2>1. Ends(m, FALSE)
    BY DEF Succeeds
  <2>2. QED
    BY <1>1, <2>1, EndsCounts
<1>3. \A n \in Edits : call'[n] = IF n = m THEN "over" ELSE call[n]
  BY <1>1 DEF IInv, TypeOK
<1>5. /\ FeedTypes' /\ ServerTypes' /\ ShownTypes' /\ PendingTypes' /\ exposed' \in SUBSET Edits
      /\ call' \in [Edits -> {"new", "sent", "over"}] /\ FeedOK' /\ Placed'
  BY <1>1 DEF FeedTypes, ServerTypes, ShownTypes, PendingTypes, FeedOK, Placed, IInv, TypeOK
<1>6. Clean'
  <2> SUFFICES ASSUME NEW n \in Edits, Open(n)' PROVE ShownOK(n)' /\ PendingOK(n)'
    BY DEF Clean
  <2>1. ShownOK(n) /\ PendingOK(n)
    BY <1>1 DEF IInv, Clean, Open
  <2>2. call'[n] = call[n]
    BY <1>1, <1>3 DEF Open
  <2>3. QED
    BY <1>1, <2>1, <2>2 DEF ShownOK, PendingOK
<1>7. QED
  BY <1>2, <1>5, <1>6, PartsMakeIInv

LEMMA ResetStep ==
  ASSUME IInv, NEW t \in Scopes, reset(t)
  PROVE  IInv'
<1>1. /\ UNCHANGED <<fate, server, call, feed, exposed>>
      /\ UNCHANGED <<atom, el, node, pendingMutations, pendingByScope>>
  BY DEF reset, serverVars, shownVars, pendingVars
<1>2. /\ FeedTypes' /\ ServerTypes' /\ ShownTypes' /\ PendingTypes' /\ exposed' \in SUBSET Edits
      /\ call' \in [Edits -> {"new", "sent", "over"}] /\ FeedOK' /\ Placed'
  BY <1>1 DEF FeedTypes, ServerTypes, ShownTypes, PendingTypes, FeedOK, Placed, IInv, TypeOK
<1>3. Clean'
  BY <1>1 DEF IInv, Clean, Open, ShownOK, PendingOK
<1>4. QED
  BY <1>2, <1>3, ResetCounts, PartsMakeIInv

-----------------------------------------------------------------------------
(* The server, and what it pushes.                                         *)

\* What the server has it keeps.
LEMMA CommitStep ==
  ASSUME IInv, NEW m \in All, Commit(m)
  PROVE  IInv'
<1> DEFINE t == ScopeOf[m]
<1>1. /\ UNCHANGED <<call, hook, exposed, atom, el, node, pendingMutations, pendingByScope>>
      /\ fate' = [fate EXCEPT ![m] = "committed"] /\ server' = [server EXCEPT ![t] = m]
  BY DEF Commit, shownVars, pendingVars
<1>2. t \in Scopes /\ m \in Content
  BY OptimisticAssumption DEF Content
<1>3. \A n \in All : fate'[n] = IF n = m THEN "committed" ELSE fate[n]
  BY <1>1 DEF IInv, TypeOK
<1>4. \A v : Settled(v, fate) => Settled(v, fate')
  BY <1>3 DEF Settled, All
<1>5. ServerTypes'
  BY <1>1, <1>2 DEF ServerTypes, IInv, TypeOK
<1>6. FeedTypes' /\ FeedOK'
  <2>1. \A i \in DOMAIN feed : Pushed(feed[i], fate')
    <3>1. ASSUME NEW i \in DOMAIN feed PROVE Pushed(feed[i], fate')
      <4>1. Pushed(feed[i], fate) /\ feed[i] \in Message
        BY DEF IInv, FeedOK, TypeOK
      <4>2. feed[i].mutation_id # None => feed[i].mutation_id \in All
        BY <4>1 DEF Message, All
      <4>3. QED
        BY <1>3, <1>4, <4>1, <4>2 DEF Pushed
    <3>2. QED
      BY <3>1
  <2>2. CASE feed' = feed
    BY <2>1, <2>2 DEF FeedTypes, FeedOK, IInv, TypeOK
  <2>3. CASE feed' # feed
    <3>1. PICK kind \in {"message", "patch", "live"}, id \in {None} \union ({m} \intersect Edits) :
            /\ Len(feed) < MaxFeed
            /\ feed' = Append(feed, [kind |-> kind, scope |-> t, data |-> m,
                                     mutation_id |-> id])
      BY <2>3 DEF Commit
    <3> DEFINE msg == [kind |-> kind, scope |-> t, data |-> m, mutation_id |-> id]
    <3>2. msg \in Message
      BY <1>2 DEF Message
    <3>3. Pushed(msg, fate')
      BY <1>3 DEF Pushed, Home, Settled, All
    <3> HIDE DEF msg
    <3>4. feed \in Seq(Message) /\ Len(feed) \in Nat /\ feed' = Append(feed, msg)
      BY <3>1 DEF msg, IInv, TypeOK
    <3>5. FeedTypes'
      BY <3>1, <3>2, <3>4, OptimisticAssumption DEF FeedTypes
    <3>6. \A i \in DOMAIN feed' : feed'[i] = msg \/ (i \in DOMAIN feed /\ feed'[i] = feed[i])
      BY <3>2, <3>4
    <3>7. QED
      BY <2>1, <3>3, <3>5, <3>6 DEF FeedOK
  <2>4. QED
    BY <2>2, <2>3
<1>7. /\ ShownTypes' /\ PendingTypes' /\ exposed' \in SUBSET Edits
      /\ call' \in [Edits -> {"new", "sent", "over"}] /\ Placed'
  BY <1>1 DEF ShownTypes, PendingTypes, Placed, IInv, TypeOK
<1>8. Clean'
  <2> SUFFICES ASSUME NEW n \in Edits, Open(n)' PROVE ShownOK(n)' /\ PendingOK(n)'
    BY DEF Clean
  <2>1. n \in All
    BY DEF All
  <2>2. ShownOK(n) /\ PendingOK(n)
    BY <1>1, <1>3, <2>1 DEF IInv, Clean, Open
  <2>3. QED
    BY <1>1, <2>2 DEF ShownOK, PendingOK
<1>9. QED
  BY <1>1, <1>5, <1>6, <1>7, <1>8, OthersCount, PartsMakeIInv

LEMMA RefuseStep ==
  ASSUME IInv, NEW m \in Edits, Refuse(m)
  PROVE  IInv'
<1>1. /\ UNCHANGED <<server, call, hook, feed, exposed, atom, el, node>>
      /\ UNCHANGED <<pendingMutations, pendingByScope>>
      /\ fate[m] = "none" /\ fate' = [fate EXCEPT ![m] = "refused"]
  BY DEF Refuse, shownVars, pendingVars
<1>2. m \in All
  BY DEF All
<1>3. \A n \in All : fate'[n] = "committed" <=> fate[n] = "committed"
  BY <1>1, <1>2 DEF IInv, TypeOK
<1>4. \A v : Settled(v, fate') <=> Settled(v, fate)
  BY <1>3 DEF Settled, All
<1>5. FeedOK'
  <2>1. ASSUME NEW i \in DOMAIN feed PROVE Pushed(feed[i], fate')
    <3>1. Pushed(feed[i], fate) /\ feed[i] \in Message
      BY DEF IInv, FeedOK, TypeOK
    <3>2. feed[i].mutation_id # None => feed[i].mutation_id \in All
      BY <3>1 DEF Message, All
    <3>3. QED
      BY <1>3, <1>4, <3>1, <3>2 DEF Pushed
  <2>2. QED
    BY <1>1, <2>1 DEF FeedOK
<1>6. /\ FeedTypes' /\ ServerTypes' /\ ShownTypes' /\ PendingTypes' /\ exposed' \in SUBSET Edits
      /\ call' \in [Edits -> {"new", "sent", "over"}] /\ Placed'
  BY <1>1 DEF FeedTypes, ServerTypes, ShownTypes, PendingTypes, Placed, IInv, TypeOK
<1>7. Clean'
  <2> SUFFICES ASSUME NEW n \in Edits, Open(n)' PROVE ShownOK(n)' /\ PendingOK(n)'
    BY DEF Clean
  <2>1. n \in All
    BY DEF All
  <2>2. ShownOK(n) /\ PendingOK(n)
    BY <1>1, <1>3, <2>1 DEF IInv, Clean, Open
  <2>3. QED
    BY <1>1, <2>2 DEF ShownOK, PendingOK
<1>8. QED
  BY <1>1, <1>5, <1>6, <1>7, OthersCount, PartsMakeIInv

\* The message that arrives is one the server pushed.
LEMMA ReceivesFacts ==
  ASSUME IInv, NEW kind, Receives(kind)
  PROVE  /\ FeedTypes' /\ ServerTypes' /\ FeedOK'
         /\ call' \in [Edits -> {"new", "sent", "over"}] /\ exposed' \in SUBSET Edits
         /\ UNCHANGED <<fate, call, exposed, hook>>
         /\ Head(feed) \in Message /\ Pushed(Head(feed), fate)
<1>1. feed # <<>> /\ feed' = Tail(feed) /\ UNCHANGED <<fate, server, call, exposed, hook>>
  BY DEF Receives, serverVars
<1>2. feed \in Seq(Message) /\ Len(feed) <= MaxFeed /\ Len(feed) \in Nat
  BY DEF IInv, TypeOK
<1>3. /\ feed' \in Seq(Message) /\ Len(feed') = Len(feed) - 1
      /\ Head(feed) \in Message /\ Head(feed) = feed[1] /\ 1 \in DOMAIN feed
      /\ \A i \in DOMAIN feed' : i + 1 \in DOMAIN feed /\ feed'[i] = feed[i + 1]
  BY <1>1, <1>2
<1>4. FeedTypes'
  BY <1>2, <1>3, OptimisticAssumption DEF FeedTypes
<1>5. FeedOK' /\ Pushed(Head(feed), fate)
  BY <1>1, <1>3 DEF IInv, FeedOK
<1>6. QED
  BY <1>1, <1>3, <1>4, <1>5 DEF ServerTypes, IInv, TypeOK

\* A message that is shown is on the server.
LEMMA PatchedKeeps ==
  ASSUME IInv, NEW s \in Scopes, NEW data \in Content, Home(data, s), Settled(data, fate),
         NEW dropped \in BOOLEAN, Patched(s, data, dropped), UNCHANGED <<fate, call>>
  PROVE  /\ ShownTypes'
         /\ \A u \in Scopes : Home(atom'[u], u) /\ Home(el'[u], u) /\ Home(node'[u], u)
         /\ \A m \in Edits : fate[m] # "committed" /\ ShownOK(m) => ShownOK(m)'
<1>0. data # None
  BY OptimisticAssumption
<1>1. /\ node' = node
      /\ \A u \in Scopes : u # s => atom'[u] = atom[u] /\ el'[u] = el[u]
      /\ atom'[s] \in {atom[s], data} /\ el'[s] \in {el[s], data}
      /\ el'[s] # data => atom'[s] = atom[s]
  <2>1. CASE s \in Streamed
    BY <1>0, <2>1 DEF Patched, Applied, IInv, TypeOK
  <2>2. CASE s \notin Streamed
    BY <2>2 DEF Patched, IInv, TypeOK
  <2>3. QED
    BY <2>1, <2>2
<1>2. ShownTypes'
  <2>1. el' = [u \in Scopes |-> el'[u]] /\ atom' = [u \in Scopes |-> atom'[u]]
    BY DEF Patched, IInv, TypeOK
  <2>2. \A u \in Scopes : el'[u] \in Content /\ atom'[u] \in Content \union {None}
    BY <1>1 DEF IInv, TypeOK
  <2>3. node' \in [Scopes -> Content]
    BY <1>1 DEF IInv, TypeOK
  <2>4. QED
    BY <2>1, <2>2, <2>3 DEF ShownTypes
<1>3. \A u \in Scopes : Home(atom'[u], u) /\ Home(el'[u], u) /\ Home(node'[u], u)
  BY <1>1 DEF IInv, Placed
<1>4. ASSUME NEW m \in Edits, fate[m] # "committed", ShownOK(m) PROVE ShownOK(m)'
  <2>1. data # m
    BY <1>4 DEF Settled
  <2>2. ASSUME NEW u \in Scopes
        PROVE  /\ m \in {atom'[u], el'[u], node'[u]} => call'[m] = "sent"
               /\ el'[u] = m => atom'[u] \in {m, None}
    BY <1>1, <1>4, <2>1 DEF ShownOK
  <2>3. QED
    BY <2>2 DEF ShownOK
<1>5. QED
  BY <1>2, <1>3, <1>4

\* A message of an SSE hub: an echo confirms its edit, which the server has.
LEMMA MessageStep ==
  ASSUME IInv, applyLivePatchPayload
  PROVE  IInv'
<1> DEFINE msg == Head(feed)
           id == msg.mutation_id
           dropped == id = None /\ Guarded(msg.scope)
<1>1. Receives("message") /\ Patched(msg.scope, msg.data, dropped)
      /\ (IF id # None THEN confirmOptimistic(id) ELSE UNCHANGED pendingVars)
  BY DEF applyLivePatchPayload
<1>2. /\ FeedTypes' /\ ServerTypes' /\ FeedOK'
      /\ call' \in [Edits -> {"new", "sent", "over"}] /\ exposed' \in SUBSET Edits
      /\ UNCHANGED <<fate, call, exposed, hook>>
      /\ msg \in Message /\ Pushed(msg, fate)
  BY <1>1, ReceivesFacts
<1>3. /\ msg.scope \in Scopes /\ msg.data \in Content /\ id \in Edits \union {None}
      /\ Home(msg.data, msg.scope) /\ Settled(msg.data, fate)
      /\ id # None => fate[id] = "committed"
  BY <1>2 DEF Message, Pushed
<1>4. dropped \in BOOLEAN
  BY DEF Guarded
<1> HIDE DEF dropped, id, msg
<1>5. /\ ShownTypes'
      /\ \A u \in Scopes : Home(atom'[u], u) /\ Home(el'[u], u) /\ Home(node'[u], u)
      /\ \A m \in Edits : fate[m] # "committed" /\ ShownOK(m) => ShownOK(m)'
  BY <1>1, <1>2, <1>3, <1>4, PatchedKeeps
<1>6. /\ PendingTypes'
      /\ \A n \in Edits : /\ pendingMutations'[n] \in {pendingMutations[n], None}
                          /\ pendingMutations'[n] # pendingMutations[n] => n = id /\ id # None
  <2>1. CASE UNCHANGED pendingVars
    BY <2>1 DEF pendingVars, PendingTypes, IInv, TypeOK
  <2>2. CASE id # None /\ forget(id)
    <3>1. id \in Edits
      BY <1>3, <2>2
    <3>2. QED
      BY <2>2, <3>1, ForgetKeeps DEF IInv
  <2>3. QED
    BY <1>1, <2>1, <2>2 DEF confirmOptimistic
<1>7. Placed'
  <2>1. \A n \in Edits : pendingMutations'[n] # None => pendingMutations'[n] = pendingMutations[n]
    BY <1>6
  <2>2. QED
    BY <1>5, <2>1 DEF IInv, Placed
<1>8. Clean'
  <2> SUFFICES ASSUME NEW m \in Edits, Open(m)' PROVE ShownOK(m)' /\ PendingOK(m)'
    BY DEF Clean
  <2>1. ShownOK(m) /\ PendingOK(m) /\ fate[m] # "committed"
    BY <1>2 DEF IInv, Clean, Open
  <2>2. pendingMutations'[m] = pendingMutations[m]
    BY <1>3, <1>6, <2>1
  <2>3. \A n \in Edits : pendingMutations'[n] # None => pendingMutations'[n] = pendingMutations[n]
    BY <1>6
  <2>4. PendingOK(m)'
    BY <1>2, <2>1, <2>2, <2>3 DEF PendingOK
  <2>5. QED
    BY <1>5, <2>1, <2>4
<1>9. QED
  BY <1>2, <1>5, <1>6, <1>7, <1>8, OthersCount, PartsMakeIInv

\* The events without an echo.
LEMMA EventStep ==
  ASSUME IInv, onPatchEvent \/ onLiveEvent
  PROVE  IInv'
<1> DEFINE msg == Head(feed)
<1>1. PICK kind \in {"patch", "live"} : Receives(kind)
  BY DEF onPatchEvent, onLiveEvent
<1>2. /\ FeedTypes' /\ ServerTypes' /\ FeedOK'
      /\ call' \in [Edits -> {"new", "sent", "over"}] /\ exposed' \in SUBSET Edits
      /\ UNCHANGED <<fate, call, exposed, hook>>
      /\ msg \in Message /\ Pushed(msg, fate)
  BY <1>1, ReceivesFacts
<1>3. /\ msg.scope \in Scopes /\ msg.data \in Content
      /\ Home(msg.data, msg.scope) /\ Settled(msg.data, fate)
  BY <1>2 DEF Message, Pushed
<1>4. UNCHANGED <<pendingMutations, pendingByScope>>
  BY DEF onPatchEvent, onLiveEvent, pendingVars
<1>5. /\ ShownTypes'
      /\ \A u \in Scopes : Home(atom'[u], u) /\ Home(el'[u], u) /\ Home(node'[u], u)
      /\ \A m \in Edits : fate[m] # "committed" /\ ShownOK(m) => ShownOK(m)'
  <2>1. CASE onPatchEvent
    <3>1. Patched(msg.scope, msg.data, FALSE)
      BY <2>1 DEF onPatchEvent
    <3> HIDE DEF msg
    <3>2. QED
      BY <1>2, <1>3, <3>1, PatchedKeeps
  <2>2. CASE onLiveEvent
    <3>1. /\ UNCHANGED <<atom, el>>
          /\ node' = node \/ node' = [node EXCEPT ![msg.scope] = msg.data]
      BY <2>2 DEF onLiveEvent
    <3> HIDE DEF msg
    <3>2. \A u \in Scopes : node'[u] = node[u] \/ (u = msg.scope /\ node'[u] = msg.data)
      BY <1>3, <3>1 DEF IInv, TypeOK
    <3>3. ShownTypes'
      BY <1>3, <3>1 DEF ShownTypes, IInv, TypeOK
    <3>4. \A u \in Scopes : Home(atom'[u], u) /\ Home(el'[u], u) /\ Home(node'[u], u)
      BY <1>3, <3>1, <3>2 DEF IInv, Placed
    <3>6. ASSUME NEW m \in Edits, fate[m] # "committed", ShownOK(m) PROVE ShownOK(m)'
      <4>1. msg.data # m
        BY <1>3, <3>6 DEF Settled
      <4>2. QED
        BY <1>2, <3>1, <3>2, <3>6, <4>1 DEF ShownOK
    <3>7. QED
      BY <3>3, <3>4, <3>6
  <2>3. QED
    BY <2>1, <2>2
<1>6. PendingTypes' /\ Placed'
  BY <1>4, <1>5 DEF PendingTypes, Placed, IInv, TypeOK
<1>7. Clean'
  BY <1>2, <1>4, <1>5 DEF IInv, Clean, Open, PendingOK
<1>8. QED
  BY <1>2, <1>5, <1>6, <1>7, OthersCount, PartsMakeIInv

LEMMA DestroyStep ==
  ASSUME IInv, destroyAllLive
  PROVE  IInv'
<1>1. /\ UNCHANGED <<fate, server, call, hook, atom, el, node>>
      /\ exposed' = exposed \union {m \in Edits : pendingMutations[m] # None} /\ feed' = <<>>
      /\ pendingMutations' = [m \in Edits |-> None]
      /\ pendingByScope' = [s \in Scopes |-> {}]
  BY DEF destroyAllLive, serverVars, shownVars
<1>2. FeedTypes' /\ FeedOK'
  BY <1>1, OptimisticAssumption DEF FeedTypes, FeedOK
<1>3. PendingTypes'
  BY <1>1 DEF PendingTypes
<1>4. /\ ServerTypes' /\ ShownTypes' /\ Placed' /\ exposed' \in SUBSET Edits
      /\ call' \in [Edits -> {"new", "sent", "over"}]
  BY <1>1 DEF ServerTypes, ShownTypes, Placed, IInv, TypeOK
<1>5. Clean'
  <2> SUFFICES ASSUME NEW m \in Edits, Open(m)' PROVE ShownOK(m)' /\ PendingOK(m)'
    BY DEF Clean
  <2>1. ShownOK(m) /\ PendingOK(m) /\ pendingMutations[m] = None
    BY <1>1 DEF IInv, Clean, Open
  <2>2. call'[m] # "sent"
    BY <1>1, <2>1 DEF PendingOK
  <2>3. QED
    BY <1>1, <2>1, <2>2 DEF ShownOK, PendingOK
<1>6. QED
  BY <1>1, <1>2, <1>3, <1>4, <1>5, OthersCount, PartsMakeIInv

-----------------------------------------------------------------------------
(* The invariant, and what follows from it.                                *)

\* The initial states satisfy the inductive invariant.
LEMMA InitIInv == Init => IInv
<1> SUFFICES ASSUME Init PROVE IInv
  OBVIOUS
<1>1. \A s \in Scopes : SentIn(s) = {}
  BY DEF Init, SentIn
<1>2. Counted
  BY <1>1, FS_EmptySet DEF Init, Counted
<1>3. First \in Content /\ First # None /\ First \notin All
  BY OptimisticAssumption DEF Content
<1>4. TypeOK
  <2>1. 0 \in 0..Cardinality(Edits)
    BY FS_CardinalityType, OptimisticAssumption
  <2>2. hook \in [Scopes -> [pending : BOOLEAN, error : BOOLEAN, count : 0..Cardinality(Edits)]]
    BY <2>1 DEF Init
  <2>3. feed \in Seq(Message) /\ Len(feed) <= MaxFeed
    BY OptimisticAssumption DEF Init
  <2>4. pendingByScope =
          [s \in Scopes |-> {m \in Edits : ScopeOf[m] = s /\ pendingMutations[m] # None}]
    BY DEF Init
  <2>5. /\ atom \in [Scopes -> Content \union {None}]
        /\ el \in [Scopes -> Content] /\ node \in [Scopes -> Content]
        /\ server \in [Scopes -> Content]
    BY <1>3 DEF Init
  <2>6. QED
    BY <2>2, <2>3, <2>4, <2>5 DEF Init, TypeOK
<1>5. Placed
  BY <1>3, OptimisticAssumption DEF Init, Placed, Home, Content
<1>6. FeedOK
  BY DEF Init, FeedOK
<1>7. Clean
  <2>1. \A m \in Edits : m # First /\ m # None
    BY <1>3, EditFacts DEF All
  <2>2. QED
    BY <2>1 DEF Init, Clean, ShownOK, PendingOK
<1>8. QED
  BY <1>2, <1>4, <1>5, <1>6, <1>7 DEF IInv

\* Every step keeps the invariant.
LEMMA StepIInv == IInv /\ [Next]_vars => IInv'
<1> SUFFICES ASSUME IInv, [Next]_vars PROVE IInv'
  OBVIOUS
<1>1. ASSUME NEW m \in Edits, mutate(m) \/ Succeeds(m) \/ Fails(m) \/ Refuse(m) PROVE IInv'
  BY <1>1, MutateStep, SucceedsStep, FailsStep, RefuseStep
<1>2. ASSUME NEW m \in All, Commit(m) PROVE IInv'
  BY <1>2, CommitStep
<1>3. ASSUME NEW s \in Scopes, reset(s) PROVE IInv'
  BY <1>3, ResetStep
<1>4. CASE applyLivePatchPayload \/ onPatchEvent \/ onLiveEvent \/ destroyAllLive
  BY <1>4, MessageStep, EventStep, DestroyStep
<1>5. CASE UNCHANGED vars
  <2>1. /\ UNCHANGED <<fate, server, call, feed, exposed, hook, atom, el, node>>
        /\ UNCHANGED <<pendingMutations, pendingByScope>>
    BY <1>5 DEF vars, serverVars, shownVars, pendingVars
  <2>2. /\ FeedTypes' /\ ServerTypes' /\ ShownTypes' /\ PendingTypes' /\ exposed' \in SUBSET Edits
        /\ call' \in [Edits -> {"new", "sent", "over"}] /\ FeedOK' /\ Placed'
    BY <2>1 DEF FeedTypes, ServerTypes, ShownTypes, PendingTypes, FeedOK, Placed, IInv, TypeOK
  <2>3. Clean'
    BY <2>1 DEF IInv, Clean, Open, ShownOK, PendingOK
  <2>4. QED
    BY <2>1, <2>2, <2>3, OthersCount, PartsMakeIInv
<1>6. QED
  BY <1>1, <1>2, <1>3, <1>4, <1>5 DEF Next

\* The inductive invariant holds.
LEMMA Invariance == Spec => []IInv
<1>1. QED
  BY InitIInv, StepIInv, PTL DEF Spec

\* The types of the page, and that the reverse index the guard asks is that of
\* the pending edits.
THEOREM TypeCorrect == Spec => []TypeOK
<1>1. IInv => TypeOK
  BY DEF IInv
<1>2. QED
  BY <1>1, Invariance, PTL

\* An edit that was not overtaken by another one of its scope or forgotten by
\* destroyAllLive() while it was under way, and that had something to go back to,
\* leaves nothing behind when it fails.
THEOREM FailedEditsAreGone == Spec => []WithdrawnIsGone
<1>1. IInv => WithdrawnIsGone
  <2> SUFFICES ASSUME IInv, NEW m \in Edits, m \notin exposed, Withdrawn(m), NEW s \in Scopes
               PROVE  m \notin {atom[s], el[s], node[s]}
    BY DEF WithdrawnIsGone
  <2>1. ShownOK(m)
    BY DEF IInv, Clean, Open, Withdrawn
  <2>2. QED
    BY <2>1 DEF ShownOK, Withdrawn
<1>2. QED
  BY <1>1, Invariance, PTL
=============================================================================
