----------------------------- MODULE MCPageServe -----------------------------
(***************************************************************************)
(* A page for everyone and a page per user below one shared layout.        *)
(***************************************************************************)
EXTENDS PageServe, TLC

CONSTANTS u1, home, mine, frame, l1, l2

MCChain == [k \in Routes |-> {frame}]
MCLists == [k \in Routes |-> IF k = home THEN {l1, l2} ELSE {}]
MCActor == [w \in Writes |-> <<u1, mine>>]

\* Requests may overlap while loaders change, while actions run, and while pages
\* are tombstoned, deletions, writes and registrations failing now and then; what
\* deleteLayout promises is examined where they do not overlap, with loaders that
\* stay pure and with loaders that change.
MCRegimes == {{"overlap", "personal"}, {"overlap", "actions", "faults"},
              {"overlap", "tombstones", "faults"},
              {"deploys", "crashes", "purges"}, {"deploys", "personal"}}
MCDeploys == {{"deploys"}}

\* Bound: where actions run, requests are for the per-user page, as no action
\* promises anything about the other; where pages are tombstoned, they are for the
\* page that everybody shares, as the other has neither lists nor such a row.  The
\* lists of a page are registered in the order in which load() returns them.
WhatMatters ==
  \A r \in Requests :
    InFlight(r) => /\ "actions" \in regime => req[r].route \in PerUser
                   /\ "tombstones" \in regime => req[r].route \notin PerUser
                   /\ l1 \in req[r].unlisted => l2 \in req[r].unlisted

\* Bound: where requests overlap, deleteLayout comes while one is under way, which
\* finds what it would have found had it come before; and it promises nothing there.
NoPromise == "overlap" \in regime => ordered = 0

Symmetric == Permutations(Requests)
=============================================================================
