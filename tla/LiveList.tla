------------------------------- MODULE LiveList -------------------------------
(***************************************************************************)
(* A live list of one page, in the process that watches it: the stored     *)
(* rows (kiln_fsr_lists), the artifact of the page, the tick that requeries *)
(* the list, the render that registers it, and a browser that follows it.  *)
(*                                                                         *)
(* The patches of a list are emitted in the process that computes them and *)
(* reach an open page in order (HubStream is about the stream).  A page is *)
(* loaded and subscribed in one step.  The artifact is the one on disk,    *)
(* the patch mode is the default 'json', the list has no debounce, and     *)
(* notices of writes are those EventPipeline hands over.                   *)
(***************************************************************************)
EXTENDS ListPatches

CONSTANTS
  Results,      \* what the query of the list may return
  MaxWrites,    \* bound: committed writes
  MaxRenders,   \* bound: full renders
  MaxUpsets     \* bound: purges, failed steps of a tick, and crashes

ASSUME ResultsAreLists == \A rows \in Results : IsList(rows)

ASSUME BoundsAreNat ==
  /\ MaxWrites \in Nat
  /\ MaxRenders \in Nat
  /\ MaxUpsets \in Nat

\* reconcileListRows, tabulated.
Diff == [p \in Results |-> [n \in Results |-> Reconcile(p, n)]]

VARIABLES
  data,        \* what the query returns now
  owed,        \* notices not handled yet, of changes and of deletions
  row,         \* the list's row of kiln_fsr_lists
  shell, json, \* the artifact: rows of the HTML, and the JSON beside it
  registered,  \* the list has a target in liveListTargets
  tick,        \* revalidateLiveList
  req,         \* the render in flight
  page,        \* a page in a browser
  reloaded,    \* its kiln-live-list-reload mark in sessionStorage
  cut,         \* history: a tick stopped between two of its effects
  rebaked,     \* history: the artifact was baked over a stored list
  used         \* what has been spent of the bounds

vars == <<data, owed, row, shell, json, registered, tick, req, page, reloaded,
          cut, rebaked, used>>

NoRow == [known |-> FALSE, stale |-> FALSE, claimed |-> FALSE, due |-> FALSE,
          rows |-> <<>>]
NoShell == [there |-> FALSE, rows |-> <<>>]
NoJson == [there |-> FALSE, data |-> <<>>, lists |-> <<>>, page |-> <<>>]
NoTick == [pc |-> "idle", prev |-> <<>>, next |-> <<>>, patches |-> <<>>,
           saved |-> NoJson]
NoReq == [pc |-> "idle", val |-> <<>>, patches |-> <<>>]
NoPage == [open |-> FALSE, shown |-> <<>>, container |-> FALSE, steady |-> FALSE]

Spend(what) == used' = [used EXCEPT ![what] = @ + 1]

TypeOK ==
  /\ data \in Results
  /\ owed \in [changes : 0..MaxWrites, deletions : 0..MaxWrites]
  /\ row \in [known : BOOLEAN, stale : BOOLEAN, claimed : BOOLEAN,
              due : BOOLEAN, rows : Results \union {<<>>}]
  /\ ~row.known => row = NoRow
  /\ shell \in [there : BOOLEAN, rows : Results \union {<<>>}]
  /\ \A file \in {json, tick.saved} :
       /\ IsList(file.data)
       /\ file.lists \in Results \union {<<>>}
       /\ file.page \in Results \union {<<>>}
       /\ ~file.there => file = NoJson
  /\ registered \in BOOLEAN
  /\ tick.pc \in {"idle", "query", "read", "write", "mark", "emit"}
  /\ {tick.prev, tick.next} \subseteq Results \union {<<>>}
  /\ tick.pc \in {"write", "mark"} => tick.saved.there
  /\ req.pc \in {"idle", "load", "json", "html", "read", "upsert"}
  /\ req.val \in Results \union {<<>>}
  /\ page.shown \in Seq(Row)
  /\ {page.open, page.container, page.steady} \subseteq BOOLEAN
  /\ {reloaded, cut, rebaked} \subseteq BOOLEAN

Init ==
  /\ data \in Results
  /\ owed = [changes |-> 0, deletions |-> 0]
  /\ row = NoRow
  /\ shell = NoShell
  /\ json = NoJson
  /\ registered = FALSE
  /\ tick = NoTick
  /\ req = NoReq
  /\ page = NoPage
  /\ reloaded = FALSE
  /\ cut = FALSE
  /\ rebaked = FALSE
  /\ used = [writes |-> 0, renders |-> 0, upsets |-> 0]

-----------------------------------------------------------------------------
(* Browsers.                                                               *)

\* materializeBakedShell: a row of the shell with a newer HTML in the
\* snapshot is replaced; no row is inserted, removed or moved.
Materialized ==
  [i \in DOMAIN shell.rows |->
     IF Has(json.lists, shell.rows[i].key)
     THEN RowOf(json.lists, shell.rows[i].key) ELSE shell.rows[i]]

\* A page opens and looks for its lists: one rendered without rows has no
\* container.  The page is steady (history) if it has one, it shows the stored
\* rows r, and the patches that led to r are not still to be sent.
Opens(shown, r) ==
  /\ page' = [open |-> TRUE, shown |-> shown, container |-> shown # <<>>,
              steady |-> /\ r.known /\ r.rows = shown
                         /\ shown # <<>> /\ tick.pc # "emit"]
  /\ reloaded' = (reloaded /\ shown = <<>>)

\* _patchList, patch after patch: without a container an insert reloads the
\* page, once; with one the patches change the DOM.
Receive(patches, steady) ==
  LET inserts == \E i \in DOMAIN patches : patches[i].op = "insert" IN
  CASE page.open /\ page.container /\ patches # <<>> ->
         /\ page' = [page EXCEPT !.shown = ApplyAllToDom(@, patches), !.steady = steady]
         /\ reloaded' = FALSE
    [] page.open /\ ~page.container /\ inserts /\ ~reloaded ->
         /\ page' = NoPage
         /\ reloaded' = TRUE
    [] OTHER -> UNCHANGED <<page, reloaded>>

\* A request finds both files and a registered list: it is answered with the
\* materialized shell.
Hit ==
  /\ ~page.open
  /\ shell.there /\ json.there /\ registered
  /\ Opens(Materialized, row)
  /\ UNCHANGED <<data, owed, row, shell, json, registered, tick, req, cut,
                 rebaked, used>>

Close ==
  /\ page.open
  /\ page' = NoPage
  /\ reloaded' = FALSE
  /\ UNCHANGED <<data, owed, row, shell, json, registered, tick, req, cut,
                 rebaked, used>>

-----------------------------------------------------------------------------
(* Writes and their notices.                                               *)

Write(result, kind) ==
  /\ used.writes < MaxWrites
  /\ data' = result
  /\ owed' = [owed EXCEPT ![kind] = @ + 1]
  /\ Spend("writes")
  /\ UNCHANGED <<row, shell, json, registered, tick, req, page, reloaded, cut,
                 rebaked>>

\* (Mistake: a list that is not stored is flagged.)
ChangedBlindly ==
  /\ owed.changes > 0
  /\ owed' = [owed EXCEPT !.changes = @ - 1]
  /\ row' = [row EXCEPT !.stale = TRUE]
  /\ UNCHANGED <<data, shell, json, registered, tick, req, page, reloaded, cut,
                 rebaked, used>>

\* invalidateDependency flags the row, if there is one.  The watcher calls the
\* store at once: only registrations wait for each other.
Changed ==
  /\ owed.changes > 0
  /\ owed' = [owed EXCEPT !.changes = @ - 1]
  /\ row' = [row EXCEPT !.stale = row.known]
  /\ UNCHANGED <<data, shell, json, registered, tick, req, page, reloaded, cut,
                 rebaked, used>>

\* The stored list goes; a page that follows it is told nothing, and a tick
\* that is under way works for a row that is gone.
RemoveRow ==
  /\ row' = NoRow
  /\ page' = [page EXCEPT !.steady = FALSE]
  /\ cut' = (cut \/ tick.pc # "idle")

\* deleteDependentRoutes.  The artifact stays: the row of kiln_fsr that names
\* it carries no depends_on.
Deleted ==
  /\ owed.deletions > 0
  /\ owed' = [owed EXCEPT !.deletions = @ - 1]
  /\ RemoveRow
  /\ UNCHANGED <<data, shell, json, registered, tick, req, reloaded, rebaked, used>>

\* purgeInactiveRoutes and the sweep that calls it: the row and the files go,
\* the registration stays.
Purge ==
  /\ used.upsets < MaxUpsets
  /\ row.known
  /\ RemoveRow
  /\ shell' = NoShell
  /\ json' = NoJson
  /\ Spend("upsets")
  /\ UNCHANGED <<data, owed, registered, tick, req, reloaded, rebaked>>

-----------------------------------------------------------------------------
(* A full render, and the registration of its list.                        *)

StartRender(files) ==
  /\ req.pc = "idle" /\ used.renders < MaxRenders
  /\ shell' = files.shell
  /\ json' = files.json
  /\ req' = [req EXCEPT !.pc = "load"]
  /\ Spend("renders")
  /\ UNCHANGED <<data, owed, row, registered, tick, page, reloaded, cut, rebaked>>

\* A file is missing, or the artifact is there and the list is not registered.
Miss ==
  LET half == shell.there /\ ~json.there IN
  /\ ~(shell.there /\ json.there /\ registered)
  /\ StartRender([shell |-> IF half THEN NoShell ELSE shell, json |-> json])

\* The artifact is of another build or another layout, or dormant and stale:
\* it is deleted.
Reject ==
  /\ shell.there /\ json.there
  /\ StartRender([shell |-> NoShell, json |-> NoJson])

Load ==
  /\ req.pc = "load"
  /\ req' = [req EXCEPT !.pc = "json", !.val = data]
  /\ UNCHANGED <<data, owed, row, shell, json, registered, tick, page, reloaded,
                 cut, rebaked, used>>

BakeJson ==
  /\ req.pc = "json"
  /\ json' = [there |-> TRUE, data |-> req.val, lists |-> <<>>, page |-> req.val]
  /\ req' = [req EXCEPT !.pc = "html"]
  /\ rebaked' = row.known
  /\ UNCHANGED <<data, owed, row, shell, registered, tick, page, reloaded, cut, used>>

BakeHtml ==
  /\ req.pc = "html"
  /\ shell' = [there |-> TRUE, rows |-> req.val]
  /\ req' = [req EXCEPT !.pc = "read"]
  /\ UNCHANGED <<data, owed, row, json, registered, tick, page, reloaded, cut,
                 rebaked, used>>

\* getSnapshot and reconcileRegistration.
ReadSnapshot ==
  /\ req.pc = "read"
  /\ req' = [req EXCEPT !.pc = "upsert",
               !.patches = IF row.known THEN Diff[row.rows][req.val] ELSE <<>>]
  /\ UNCHANGED <<data, owed, row, shell, json, registered, tick, page, reloaded,
                 cut, rebaked, used>>

\* upsertSnapshot stores the rows of a list it does not know, and leaves those
\* of one it knows; the patches go to the open page either way.  The response
\* is a page of its own: this one, if none is open.
Register ==
  LET stored == IF row.known THEN row ELSE [NoRow EXCEPT !.known = TRUE, !.rows = req.val]
  IN
  /\ req.pc = "upsert"
  /\ row' = stored
  /\ registered' = TRUE
  /\ req' = NoReq
  /\ IF page.open
     THEN Receive(req.patches, page.steady /\ req.patches = <<>>)
     ELSE Opens(req.val, stored)
  /\ UNCHANGED <<data, owed, shell, json, tick, cut, rebaked, used>>

-----------------------------------------------------------------------------
(* The tick: processStaleLists and revalidateLiveList.                     *)

\* last_patched_at is revalidate_secs old.
TimerElapses ==
  /\ row.known /\ ~row.due
  /\ row' = [row EXCEPT !.due = TRUE]
  /\ UNCHANGED <<data, owed, shell, json, registered, tick, req, page, reloaded,
                 cut, rebaked, used>>

\* refresh_claimed_until has passed; the tick that took the claim is over.
ClaimExpires ==
  /\ row.claimed /\ tick.pc = "idle"
  /\ row' = [row EXCEPT !.claimed = FALSE]
  /\ UNCHANGED <<data, owed, shell, json, registered, tick, req, page, reloaded,
                 cut, rebaked, used>>

\* (Mistake: a list is claimed only if it is flagged.)
ClaimFlagged ==
  /\ tick.pc = "idle"
  /\ row.known /\ ~row.claimed
  /\ row.stale
  /\ row' = [row EXCEPT !.claimed = TRUE]
  /\ tick' = IF registered THEN [NoTick EXCEPT !.pc = "query", !.prev = row.rows]
             ELSE NoTick
  /\ UNCHANGED <<data, owed, shell, json, registered, req, page, reloaded, cut,
                 rebaked, used>>

\* fetchStaleLists.  A list that is not registered keeps the claim and is
\* skipped.
Claim ==
  /\ tick.pc = "idle"
  /\ row.known /\ ~row.claimed
  /\ row.stale \/ row.due
  /\ row' = [row EXCEPT !.claimed = TRUE]
  /\ tick' = IF registered THEN [NoTick EXCEPT !.pc = "query", !.prev = row.rows]
             ELSE NoTick
  /\ UNCHANGED <<data, owed, shell, json, registered, req, page, reloaded, cut,
                 rebaked, used>>

\* The patches are those from the rows of the claim to those of the query.
Query ==
  /\ tick.pc = "query"
  /\ tick' = [tick EXCEPT !.pc = "read", !.next = data,
                          !.patches = Diff[tick.prev][data]]
  /\ UNCHANGED <<data, owed, row, shell, json, registered, req, page, reloaded,
                 cut, rebaked, used>>

\* fs.readFile throws if the file is missing, and the tick of the list ends.
ReadJson ==
  /\ tick.pc = "read"
  /\ tick' = IF json.there THEN [tick EXCEPT !.pc = "write", !.saved = json]
             ELSE NoTick
  /\ UNCHANGED <<data, owed, row, shell, json, registered, req, page, reloaded,
                 cut, rebaked, used>>

\* The patches are applied to data, not to pageData.
WriteJson ==
  /\ tick.pc = "write"
  /\ tick' = [tick EXCEPT !.pc = "mark"]
  /\ json' = [tick.saved EXCEPT !.data = ApplyAllToRows(@, tick.patches),
                                !.lists = tick.next]
  /\ UNCHANGED <<data, owed, row, shell, registered, req, page, reloaded, cut,
                 rebaked, used>>

\* (Mistake: the flag is cleared and the rows are not stored.)
MarkFreshOnly ==
  /\ tick.pc = "mark"
  /\ row' = IF row.known THEN [NoRow EXCEPT !.known = TRUE, !.rows = row.rows]
            ELSE row
  /\ tick' = [tick EXCEPT !.pc = "emit", !.saved = NoJson]
  /\ UNCHANGED <<data, owed, shell, json, registered, req, page, reloaded, cut,
                 rebaked, used>>

\* markFresh asks for no version.
MarkFresh ==
  /\ tick.pc = "mark"
  /\ row' = IF row.known THEN [NoRow EXCEPT !.known = TRUE, !.rows = tick.next]
            ELSE row
  /\ tick' = [tick EXCEPT !.pc = "emit", !.saved = NoJson]
  /\ UNCHANGED <<data, owed, shell, json, registered, req, page, reloaded, cut,
                 rebaked, used>>

Emit ==
  /\ tick.pc = "emit"
  /\ tick' = NoTick
  /\ Receive(tick.patches, page.steady)
  /\ UNCHANGED <<data, owed, row, shell, json, registered, req, cut, rebaked, used>>

\* (Mistake: the file is not written back.)
FailWithoutRollback ==
  /\ tick.pc \in {"query", "read", "write", "mark"}
  /\ used.upsets < MaxUpsets
  /\ tick' = NoTick
  /\ Spend("upsets")
  /\ UNCHANGED <<data, owed, row, shell, json, registered, req, page, reloaded,
                 cut, rebaked>>

\* A step of the tick throws.  Once the file has been read it is written back,
\* if that does not fail too; the claim stands.
Fail ==
  /\ tick.pc \in {"query", "read", "write", "mark"}
  /\ used.upsets < MaxUpsets
  /\ tick' = NoTick
  /\ \/ /\ json' = IF tick.pc \in {"write", "mark"} THEN tick.saved ELSE json
        /\ cut' = cut
     \/ /\ tick.pc = "mark"
        /\ json' = json
        /\ cut' = TRUE
  /\ Spend("upsets")
  /\ UNCHANGED <<data, owed, row, shell, registered, req, page, reloaded, rebaked>>

\* The process dies and comes back: the row and the files are as they were,
\* and the registry is empty.
Restart ==
  /\ used.upsets < MaxUpsets
  /\ tick' = NoTick
  /\ req' = NoReq
  /\ registered' = FALSE
  /\ cut' = (cut \/ tick.pc \in {"mark", "emit"})
  /\ Spend("upsets")
  /\ UNCHANGED <<data, owed, row, shell, json, page, reloaded, rebaked>>

TickStep == Query \/ ReadJson \/ WriteJson \/ MarkFresh \/ Emit

Next ==
  \/ Hit \/ Close
  \/ \E result \in Results : Write(result, "changes") \/ Write(result, "deletions")
  \/ Changed \/ Deleted \/ Purge
  \/ Miss \/ Reject \/ Load \/ BakeJson \/ BakeHtml \/ ReadSnapshot \/ Register
  \/ TimerElapses \/ ClaimExpires \/ Claim
  \/ TickStep
  \/ Fail \/ Restart

Spec == Init /\ [][Next]_vars

\* The loop of the watcher goes on, time passes, and the list keeps its
\* revalidate interval.
FairSpec ==
  /\ Spec
  /\ WF_vars(Changed)
  /\ WF_vars(TimerElapses) /\ WF_vars(ClaimExpires) /\ WF_vars(Claim)
  /\ WF_vars(TickStep)

-----------------------------------------------------------------------------
(* Properties.                                                             *)

\* A page that opened with the stored rows shows them ever after, through
\* ticks, failures, retries and reads of the query that raced with writes,
\* except between the UPDATE and the patches; unless a tick was cut short or
\* the list was removed or registered anew under it.
PageInStep ==
  page.open /\ page.steady /\ tick.pc # "emit" /\ ~cut => page.shown = row.rows

\* Outside the tick's two writes the JSON of the artifact holds the stored
\* rows, whichever step of whichever tick failed: the file is rolled back
\* when the row cannot follow it.
ArtifactInStep ==
  row.known /\ json.there /\ tick.pc # "mark" /\ ~cut /\ ~rebaked =>
    /\ json.data = row.rows
    /\ json.lists \in {<<>>, row.rows}

\* An invalidation may be lost (markFresh clears it, or the list was not
\* stored yet), but not for good: once writes stop, a registered list ends up
\* with the rows its query returns.
ListCatchesUp ==
  <>[](row.known /\ registered /\ json.there => row.rows = data)

\* "HTML and JSON are written together so shell and snapshot can never
\* diverge" (page-render.ts), and pageData "must stay in lockstep with data or
\* that path serves stale props" (watcher.ts): at rest the three readers of an
\* artifact, the HTML, the JSON and the tick, find the same rows.
ReadersAgree ==
  shell.there /\ json.there /\ tick.pc = "idle" /\ req.pc = "idle" =>
    /\ Materialized = json.data
    /\ json.page = json.data
=============================================================================
