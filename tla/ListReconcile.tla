---------------------------- MODULE ListReconcile ----------------------------
(***************************************************************************)
(* One diff of a live list and its delivery, patch by patch, to the two    *)
(* kinds of readers.  Patches may be delivered again to a reader of rows   *)
(* that has had them all: an island that replays the log of its page, a    *)
(* stream that reconnects, a tick that repeats after a failure.            *)
(***************************************************************************)
EXTENDS ListPatches

VARIABLES
  previous, next,  \* the two versions of the list
  patches,         \* the diff that leads from one to the other
  delivered,       \* how many of the patches have been delivered
  rows,            \* what a reader of rows has
  dom              \* what a page shows

deliveryVars == <<previous, next, patches, delivered, rows, dom>>

DeliveryInit ==
  /\ previous \in Lists
  /\ next \in Lists
  /\ patches = Reconcile(previous, next)
  /\ delivered = 0
  /\ rows = previous
  /\ dom = previous

Complete == delivered = Len(patches)

Deliver ==
  /\ ~Complete
  /\ delivered' = delivered + 1
  /\ rows' = ApplyToRows(rows, patches[delivered'])
  /\ dom' = ApplyToDom(dom, patches[delivered'])
  /\ UNCHANGED <<previous, next, patches>>

Redeliver(i) ==
  /\ Complete
  /\ rows' = ApplyToRows(rows, patches[i])
  /\ UNCHANGED <<previous, next, patches, delivered, dom>>

DeliveryNext ==
  \/ Deliver
  \/ \E i \in DOMAIN patches : Redeliver(i)

DeliverySpec == DeliveryInit /\ [][DeliveryNext]_deliveryVars

-----------------------------------------------------------------------------
(* Properties.                                                             *)

\* The patches of a diff turn the old list into the new one, in an array and
\* in a page; a patch that is delivered again changes nothing; and at no point
\* on the way does a reader hold a row twice.
DiffIsSound ==
  /\ IsList(rows) /\ IsList(dom)
  /\ Complete => rows = next /\ dom = next

\* What is inserted is not there yet, and what is removed, moved or replaced is.
Hits ==
  ~Complete =>
    LET p == patches[delivered + 1] IN
    (p.op = "insert") = ~Has(dom, p.key)

\* The order of two rows.
Before(list, j, k) ==
  \E a, b \in DOMAIN list : a < b /\ list[a].key = j /\ list[b].key = k

\* A row of flat fields with the content it had is not sent again, and if the
\* rows that stay keep their order none is moved, whatever is inserted and
\* removed around them.
Frugal ==
  LET kept == {k \in Keys : Has(previous, k) /\ Has(next, k)} IN
  \A i \in DOMAIN patches :
    /\ patches[i].op = "replace" =>
         ~Unchanged(RowOf(previous, patches[i].key), patches[i].row)
    /\ patches[i].op = "move" =>
         \E j, k \in kept : Before(previous, j, k) /\ Before(next, k, j)

\* No patch of a diff is wasted: the reader it was computed for does not ignore
\* it, and it says something that changed.  (A row with a nested value is sent
\* with every diff, changed or not: the one exception.)
NoPatchIsWasted == Hits /\ Frugal
=============================================================================
