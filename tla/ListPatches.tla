----------------------------- MODULE ListPatches -----------------------------
(***************************************************************************)
(* The algebra of a live list: reconcileListRows, which turns two versions *)
(* of a list into patches, and the two ways patches are applied, to an     *)
(* array of rows (json.ts: the baked JSON and the store of an island) and  *)
(* to the DOM (live-client-script.ts).                                     *)
(*                                                                         *)
(* A row is its key and its content.  Positions count from 1.  The patches *)
(* "fields" and "replace-row" both give a row its new content, and the     *)
(* watcher sends the first as the second: they are one op here.            *)
(***************************************************************************)
EXTENDS Integers, Sequences, SequencesExt

CONSTANTS
  Keys,     \* keys of rows
  Contents, \* contents of rows
  Nested    \* the contents with a field that is an object, an array or a Date

ASSUME NestedAreContents == Nested \subseteq Contents

Row == [key : Keys, val : Contents]

KeysOf(rows) == [i \in DOMAIN rows |-> rows[i].key]
Has(rows, k) == \E i \in DOMAIN rows : rows[i].key = k

\* Where a key is, 0 if it is nowhere.
IndexOf(rows, k) == SelectInSeq(rows, LAMBDA r : r.key = k)
RowOf(rows, k) == rows[IndexOf(rows, k)]

\* indexRows throws on a duplicate key, so the lists it accepts are these.
IsList(rows) == rows \in Seq(Row) /\ IsInjective(KeysOf(rows))
Lists == {rows \in BoundedSeq(Row, Cardinality(Keys)) : IsList(rows)}

\* The elements of s at the positions P.
Picked(s, P) == FlattenSeq([i \in DOMAIN s |-> IF i \in P THEN <<s[i]>> ELSE <<>>])

\* splice at an index clamped to the length.
Spliced(s, i, e) == InsertAt(s, IF i > Len(s) + 1 THEN Len(s) + 1 ELSE i, e)

\* The element at q is taken out and put in at i.
Shifted(s, q, i) == Spliced(RemoveAt(s, q), i, s[q])

-----------------------------------------------------------------------------
(* reconcileListRows.                                                      *)

Removals(previous, next) ==
  FlattenSeq([i \in DOMAIN previous |->
    IF Has(next, previous[i].key) THEN <<>>
    ELSE <<[op |-> "remove", key |-> previous[i].key]>>])

Insertions(previous, next) ==
  FlattenSeq([i \in DOMAIN next |->
    IF Has(previous, next[i].key) THEN <<>>
    ELSE <<[op |-> "insert", key |-> next[i].key, to |-> i, row |-> next[i]]>>])

\* The order of the keys once removals and insertions are applied.
VirtualOrder(previous, next) ==
  LET kept == Picked(KeysOf(previous), {j \in DOMAIN previous : Has(next, previous[j].key)})
      order[i \in 0..Len(next)] ==
        IF i = 0 THEN kept
        ELSE IF Has(previous, next[i].key) THEN order[i - 1]
        ELSE Spliced(order[i - 1], i, next[i].key)
  IN order[Len(next)]

\* Where key i of next is in an order of keys.
Found(order, next, i) == SelectInSeq(order, LAMBDA k : k = next[i].key)

\* A key that is not where it belongs is moved there.
PutInPlace(order, next, i) ==
  LET q == Found(order, next, i) IN
  IF q \in {0, i} THEN order ELSE Shifted(order, q, i)

\* The orders once the first i keys have put in place.
Orders(previous, next) ==
  LET start == VirtualOrder(previous, next)
      order[i \in 0..Len(next)] ==
        IF i = 0 THEN start ELSE PutInPlace(order[i - 1], next, i)
  IN order

\* (Mistake: the order is not updated as moves are found.)
MovesFromFixedOrder(previous, next) ==
  LET order == Orders(previous, next) IN
  FlattenSeq([i \in DOMAIN next |->
    IF Found(order[0], next, i) \in {0, i} THEN <<>>
    ELSE <<[op |-> "move", key |-> next[i].key, to |-> i]>>])

Moves(previous, next) ==
  LET order == Orders(previous, next) IN
  FlattenSeq([i \in DOMAIN next |->
    IF Found(order[i - 1], next, i) \in {0, i} THEN <<>>
    ELSE <<[op |-> "move", key |-> next[i].key, to |-> i]>>])

\* (Mistake: every kept row is sent again.)
AllReplacements(previous, next) ==
  FlattenSeq([i \in DOMAIN next |->
    IF ~Has(previous, next[i].key) THEN <<>>
    ELSE <<[op |-> "replace", key |-> next[i].key, row |-> next[i]]>>])

\* diffShallowFields compares field by field with Object.is.  The old row has
\* been to the database and back: a nested value of it is never the same
\* object, whatever it holds.
Unchanged(old, new) == old = new /\ new.val \notin Nested

Replacements(previous, next) ==
  FlattenSeq([i \in DOMAIN next |->
    IF \/ ~Has(previous, next[i].key)
       \/ Unchanged(RowOf(previous, next[i].key), next[i])
    THEN <<>>
    ELSE <<[op |-> "replace", key |-> next[i].key, row |-> next[i]]>>])

Reconcile(previous, next) ==
  Removals(previous, next) \o Insertions(previous, next)
    \o Moves(previous, next) \o Replacements(previous, next)

-----------------------------------------------------------------------------
(* applyListPatchToRows.                                                   *)

\* A re-delivered insert must not duplicate the row.
Inserted(rows, p) == IF Has(rows, p.key) THEN rows ELSE Spliced(rows, p.to, p.row)

Removed(rows, p) == Picked(rows, {i \in DOMAIN rows : rows[i].key # p.key})

Moved(rows, p) ==
  IF Has(rows, p.key) THEN Shifted(rows, IndexOf(rows, p.key), p.to) ELSE rows

Replaced(rows, p) ==
  [i \in DOMAIN rows |-> IF rows[i].key = p.key THEN p.row ELSE rows[i]]

ApplyToRows(rows, p) ==
  CASE p.op = "insert"  -> Inserted(rows, p)
    [] p.op = "remove"  -> Removed(rows, p)
    [] p.op = "move"    -> Moved(rows, p)
    [] p.op = "replace" -> Replaced(rows, p)

\* patches.reduce(applyListPatchToJson).
ApplyAllToRows(rows, patches) == FoldLeft(ApplyToRows, rows, patches)

-----------------------------------------------------------------------------
(* _patchList: querySelector finds the first element with the key, and an  *)
(* insert does not look for one.                                           *)

ApplyToDom(dom, p) ==
  CASE p.op = "insert" -> Spliced(dom, p.to, p.row)
    [] p.op # "insert" /\ ~Has(dom, p.key) -> dom
    [] p.op = "remove" /\ Has(dom, p.key) -> RemoveAt(dom, IndexOf(dom, p.key))
    [] p.op = "move" /\ Has(dom, p.key) -> Shifted(dom, IndexOf(dom, p.key), p.to)
    [] p.op = "replace" /\ Has(dom, p.key) ->
         ReplaceAt(dom, IndexOf(dom, p.key), p.row)

ApplyAllToDom(dom, patches) == FoldLeft(ApplyToDom, dom, patches)
=============================================================================
