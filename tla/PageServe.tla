------------------------------ MODULE PageServe ------------------------------
(***************************************************************************)
(* The page handler and the artifacts it keeps: how a request finds the    *)
(* baked shell and snapshot of a page, decides whether they may be served, *)
(* re-renders the page inside its layouts when they may not, and what it   *)
(* writes back.  Layouts are baked once and shared by every page below     *)
(* them.  Around the handler: actions that invalidate the actor's own      *)
(* page, deploys, deleteLayout, tombstones, purges and crashes.            *)
(*                                                                         *)
(* Live slots inside an artifact are the subject of Freshness and LiveList *)
(* and do not appear here, nor do the lists of a layout, which have a      *)
(* route of their own.  What a render shows is reduced to the writes it    *)
(* reflects, the users it was made for and the release whose code made it. *)
(* A layout stands for one instance of its pattern.                        *)
(***************************************************************************)
EXTENDS Integers, FiniteSets

CONSTANTS
  Procs,        \* server processes
  Requests,     \* connections, each of which carries one request at a time
  Routes,       \* concrete paths of pages
  Layouts,      \* layouts
  Chain,        \* Chain[k]: the layouts around page k
  PerUser,      \* the pages that declare bake = 'user'; the others are 'auto'
  Lists,        \* Lists[k]: the Live.lists that load() of page k returns
  Users,        \* what identity(req) may return
  Anonymous,    \* ... null
  Writes,       \* actions that may run
  Actor,        \* Actor[w]: the user and the page of action w
  None,         \* the absence of an artifact
  HasBuildId,   \* fsr.buildId is set
  Regimes,      \* what may happen together in one behaviour
  MaxRelease,   \* bound: releases
  MaxChanges,   \* bound: changes of what a loader reads
  MaxCrashes    \* bound: crashes

AllLists == UNION {Lists[k] : k \in Routes}

ASSUME PageServeAssumption ==
  /\ Routes \intersect Layouts = {}
  /\ Chain \in [Routes -> SUBSET Layouts]
  /\ PerUser \subseteq Routes
  /\ Lists \in [Routes -> SUBSET AllLists]
  /\ Anonymous \notin Users
  /\ Actor \in [Writes -> Users \X Routes]
  /\ None \notin Users
  /\ None \notin [by : Nat, for : SUBSET (Users \union {Anonymous})]
  /\ HasBuildId \in BOOLEAN
  /\ Regimes \subseteq SUBSET {"overlap", "personal", "actions", "deploys",
                              "crashes", "purges", "tombstones", "faults"}
  /\ MaxRelease \in Nat \ {0} /\ MaxChanges \in Nat /\ MaxCrashes \in Nat

VARIABLES
  regime,         \* what may happen in this behaviour
  release,        \* the release that runs; fsr.buildId names it
  varies,         \* loaders that read what is not in their cache key
  tombstoned,     \* pages whose row is tombstoned
  act,            \* where each action is
  layout,         \* the layout cache
  html, json,     \* the page artifacts: shell and snapshot
  knownImpure,    \* pages a process has demoted
  impureLayouts,  \* layouts a process has demoted, for each page
  registered,     \* the lists of a page that a process refreshes
  missed,         \* ... and those it has failed to register
  req,            \* the request on each connection
  owed,           \* writes whose actor has been promised to see them
  ordered,        \* the release that the last deleteLayout promised
  changes, crashes

cached == <<layout, html, json>>
memory == <<knownImpure, impureLayouts, registered, missed>>
ghosts == <<owed, ordered>>
world == <<regime, release, varies, tombstoned, changes, crashes>>
vars == <<world, act, cached, memory, req, ghosts>>

-----------------------------------------------------------------------------
(* What is cached, and under which key.                                    *)

Viewers == Users \union {Anonymous}
Loaders == Routes \union Layouts
Releases == 1..MaxRelease

\* The key of an artifact: the route, and the variant u:<id> under bake='user'.
Key(k, u) == <<k, IF k \in PerUser /\ u # Anonymous THEN u ELSE None>>
Keys == {Key(k, u) : k \in Routes, u \in Viewers}

\* A rendered layout: the release that rendered it and those it is specific to.
Chrome == [by : Releases, for : SUBSET Viewers]
NoChrome == [l \in Layouts |-> None]
Chromes == [Layouts -> Chrome \union {None}]

\* A shell embeds its layouts; a snapshot records their signature instead.
Shell == [data : SUBSET Writes, for : SUBSET Viewers, chrome : Chromes]
Snapshot == [data : SUBSET Writes, for : SUBSET Viewers, signature : Chromes,
             build : Releases]

\* Every layout around the page is there.
Complete(k, chrome) == \A l \in Chain[k] : chrome[l] # None

\* computeLayoutSignature: the hash of each entry, or 'MISSING'.
Signature(k) == [l \in Layouts |-> IF l \in Chain[k] THEN layout[l] ELSE None]

\* (Mistake: the signature of the shell is not checked.)
ValidByBuild(k, snap) ==
  snap # None /\ (HasBuildId => snap.build = release)

\* materializeBakedShell, the layout signature and the deploy fingerprint.
Valid(k, snap) ==
  /\ snap # None
  /\ Signature(k) = snap.signature
  /\ HasBuildId => snap.build = release

\* Whose identity the loader x shows in a render for u.
Personal(x, u) == IF x \in varies \union PerUser THEN {u} ELSE {}

-----------------------------------------------------------------------------
ActPc == {"none", "ran", "done"}
ReqPc == {"shell", "snapshot", "check", "drop", "serve", "load", "assemble",
          "sign", "storeSnapshot", "storeShell", "register", "respond"}

\* The variables of handle(): the page props (loaded, data, for), the layouts
\* rendered or read so far, those not yet written back, anyLayoutImpure, the
\* artifacts read, the signature taken and the lists not yet registered.  floor
\* and since are what had been promised when it arrived.
Request == [pc : ReqPc, proc : Procs, route : Routes, user : Viewers,
            eligible : BOOLEAN, loaded : BOOLEAN, data : SUBSET Writes,
            for : SUBSET Viewers, chrome : Chromes, unstored : SUBSET Layouts,
            layoutImpure : BOOLEAN, shell : Shell \union {None},
            snap : Snapshot \union {None}, signature : Chromes,
            unlisted : SUBSET AllLists,
            floor : SUBSET Writes, since : 0..MaxRelease]

\* An anonymous reader of a per-user page and a page this process has demoted
\* are rendered without touching the cache.
Eligible(p, k, u) == k \notin knownImpure[p] /\ ~(k \in PerUser /\ u = Anonymous)

\* registerLiveLists is for the artifact that everybody shares.
ToRegister(k, u) == IF Key(k, u)[2] = None THEN Lists[k] ELSE {}

NewRequest(p, k, u) ==
  [pc |-> IF Eligible(p, k, u) THEN "shell" ELSE "load", proc |-> p, route |-> k,
   user |-> u, eligible |-> Eligible(p, k, u), loaded |-> FALSE, data |-> {},
   for |-> {}, chrome |-> NoChrome, unstored |-> {}, layoutImpure |-> FALSE,
   shell |-> None, snap |-> None, signature |-> NoChrome,
   unlisted |-> ToRegister(k, u),
   floor |-> {w \in owed : Actor[w] = <<u, k>>}, since |-> ordered]

\* A connection that carries no request.
Vacant == [pc |-> "idle"]

TypeOK ==
  /\ regime \in Regimes
  /\ release \in Releases
  /\ varies \subseteq Loaders
  /\ tombstoned \subseteq Routes
  /\ act \in [Writes -> ActPc]
  /\ layout \in Chromes
  /\ html \in [Keys -> Shell \union {None}]
  /\ \A key \in Keys : html[key] # None => Complete(key[1], html[key].chrome)
  /\ json \in [Keys -> Snapshot \union {None}]
  /\ knownImpure \in [Procs -> SUBSET Routes]
  /\ impureLayouts \in [Procs -> [Routes -> SUBSET Layouts]]
  /\ registered \in [Procs -> [Routes -> SUBSET AllLists]]
  /\ missed \in [Procs -> [Routes -> SUBSET AllLists]]
  /\ req \in [Requests -> Request \union {Vacant}]
  /\ \A r \in Requests : req[r].pc = "assemble"
                        => Complete(req[r].route, req[r].chrome)
  /\ owed \subseteq Writes
  /\ ordered \in 0..MaxRelease
  /\ changes \in 0..MaxChanges
  /\ crashes \in 0..MaxCrashes

\* What a process knows when it starts.
Fresh == [knownImpure |-> {}, impureLayouts |-> [k \in Routes |-> {}],
          registered |-> [k \in Routes |-> {}], missed |-> [k \in Routes |-> {}]]

Init ==
  /\ regime \in Regimes
  /\ release = 1
  /\ varies = {}
  /\ tombstoned = {}
  /\ act = [w \in Writes |-> "none"]
  /\ layout = NoChrome
  /\ html = [key \in Keys |-> None]
  /\ json = [key \in Keys |-> None]
  /\ knownImpure = [p \in Procs |-> Fresh.knownImpure]
  /\ impureLayouts = [p \in Procs |-> Fresh.impureLayouts]
  /\ registered = [p \in Procs |-> Fresh.registered]
  /\ missed = [p \in Procs |-> Fresh.missed]
  /\ req = [r \in Requests |-> Vacant]
  /\ owed = {} /\ ordered = 0
  /\ changes = 0 /\ crashes = 0

InFlight(r) == req[r].pc # "idle"
KeyOf(r) == Key(req[r].route, req[r].user)
Unattended(key) == \A r \in Requests : InFlight(r) => KeyOf(r) # key
AtRest == \A r \in Requests : ~InFlight(r)

\* Only the request changes.
Turn(r, to) == req' = [req EXCEPT ![r] = to]

\* What an unlink leaves of a file; its failure is swallowed.
Left(file) == IF "faults" \in regime THEN {None, file} ELSE {None}

\* cache.delete.
DeleteArtifact(key) ==
  \E shell \in Left(html[key]), snap \in Left(json[key]) :
    /\ html' = [html EXCEPT ![key] = shell]
    /\ json' = [json EXCEPT ![key] = snap]

-----------------------------------------------------------------------------
(* Serving from the cache: steps 1 to 3 of handle().                       *)

\* A request arrives.
Arrive(r, p, k, u) ==
  /\ ~InFlight(r)
  /\ "overlap" \in regime \/ Unattended(Key(k, u))
  /\ Turn(r, NewRequest(p, k, u))
  /\ UNCHANGED <<world, act, cached, memory, ghosts>>

\* cache.getHtml.
ReadShell(r) ==
  LET shell == html[KeyOf(r)] IN
  /\ req[r].pc = "shell"
  /\ Turn(r, [req[r] EXCEPT !.shell = shell,
                            !.pc = IF shell = None THEN "load" ELSE "snapshot"])
  /\ UNCHANGED <<world, act, cached, memory, ghosts>>

\* cache.getJson, a second read.
ReadSnapshot(r) ==
  /\ req[r].pc = "snapshot"
  /\ Turn(r, [req[r] EXCEPT !.snap = json[KeyOf(r)], !.pc = "check"])
  /\ UNCHANGED <<world, act, cached, memory, ghosts>>

Check(r) ==
  /\ req[r].pc = "check"
  /\ Turn(r, [req[r] EXCEPT
                !.pc = IF Valid(req[r].route, req[r].snap) THEN "serve" ELSE "drop"])
  /\ UNCHANGED <<world, act, cached, memory, ghosts>>

\* The artifact is corrupt, or its layouts or the release have changed.
Drop(r) ==
  /\ req[r].pc = "drop"
  /\ DeleteArtifact(KeyOf(r))
  /\ Turn(r, [req[r] EXCEPT !.pc = "load", !.shell = None, !.snap = None])
  /\ UNCHANGED <<world, act, layout, memory, ghosts>>

\* (Mistake: what is valid is served, whatever the watcher knows of it.)
KnownToWatcher(p, k) == TRUE

\* hasRegisteredRoute, which one list of the page is enough for, or else load()
\* shows that there is nothing to register.
Served(p, k) == registered[p][k] # {} \/ Lists[k] = {}

\* A valid artifact is the answer, unless this process has yet to register
\* the page's lists: then the page is rendered in full.
Serve(r) ==
  LET q == req[r] IN
  /\ q.pc = "serve"
  /\ Turn(r, IF Served(q.proc, q.route)
             THEN [q EXCEPT !.pc = "respond",
                            !.data = q.shell.data \intersect q.snap.data,
                            !.chrome = q.shell.chrome]
             ELSE [q EXCEPT !.pc = "load", !.shell = None, !.snap = None])
  /\ UNCHANGED <<world, act, cached, memory, ghosts>>

-----------------------------------------------------------------------------
(* Rendering: steps 4 to 7.  The page's load() and every layout run side   *)
(* by side.                                                                *)

Rendering(r) == req[r].pc = "load"

\* load() under the purity tracker.  A page shows what its own actions write.
LoadPage(r) ==
  /\ Rendering(r) /\ ~req[r].loaded
  /\ Turn(r, [req[r] EXCEPT !.loaded = TRUE,
                            !.data = {w \in Writes : act[w] # "none" /\ Actor[w][2] = req[r].route},
                            !.for = Personal(req[r].route, req[r].user)])
  /\ UNCHANGED <<world, act, cached, memory, ghosts>>

\* getLayoutHtml: a cached layout is used as it is, by whichever release it
\* was baked.
ReuseLayout(r, l) ==
  /\ Rendering(r)
  /\ l \in Chain[req[r].route] /\ req[r].chrome[l] = None
  /\ l \notin impureLayouts[req[r].proc][req[r].route]
  /\ layout[l] # None
  /\ Turn(r, [req[r] EXCEPT !.chrome[l] = layout[l]])
  /\ UNCHANGED <<world, act, cached, memory, ghosts>>

\* Otherwise the layout's own load() runs, in the layout mode of the tracker,
\* and the layout is baked.
BakeLayout(r, l) ==
  LET q == req[r]
      for == Personal(l, q.user) IN
  /\ Rendering(r)
  /\ l \in Chain[q.route] /\ q.chrome[l] = None
  /\ l \in impureLayouts[q.proc][q.route] \/ layout[l] = None
  /\ Turn(r, [q EXCEPT !.chrome[l] = [by |-> release, for |-> for],
                       !.unstored = @ \union {l}])
  /\ UNCHANGED <<world, act, cached, memory, ghosts>>

\* A pure layout is cached.  An impure one bars the page from being baked;
\* the first time, whatever an earlier render left of it is deleted.
StoreLayout(r, l) ==
  LET q == req[r]
      pure == q.chrome[l].for = {} IN
  /\ Rendering(r)
  /\ l \in q.unstored
  /\ \/ pure /\ layout' = [layout EXCEPT ![l] = q.chrome[l]]
     \/ /\ ~pure /\ l \notin impureLayouts[q.proc][q.route]
        /\ \E left \in Left(layout[l]) : layout' = [layout EXCEPT ![l] = left]
     \/ ~pure /\ l \in impureLayouts[q.proc][q.route] /\ UNCHANGED layout
  /\ impureLayouts' = IF pure THEN impureLayouts
                      ELSE [impureLayouts EXCEPT ![q.proc][q.route] = @ \union {l}]
  /\ Turn(r, [q EXCEPT !.unstored = @ \ {l}, !.layoutImpure = @ \/ ~pure])
  /\ UNCHANGED <<world, act, html, json, knownImpure, registered, missed, ghosts>>

\* (Mistake: nobody waits for the layouts.)
AssembleAtOnce(r) ==
  /\ Rendering(r) /\ req[r].loaded /\ req[r].unstored = {}
  /\ Turn(r, [req[r] EXCEPT !.pc = "assemble"])
  /\ UNCHANGED <<world, act, cached, memory, ghosts>>

\* Everything has resolved: the page is baked and assembled.
Assemble(r) ==
  /\ Rendering(r) /\ req[r].loaded /\ req[r].unstored = {}
  /\ Complete(req[r].route, req[r].chrome)
  /\ Turn(r, [req[r] EXCEPT !.pc = "assemble"])
  /\ UNCHANGED <<world, act, cached, memory, ghosts>>

\* A load() throws or redirects; or a write, or the HTML of a list, fails after
\* the render.  The answer is not the page.  Layouts that are being written go
\* on: the request is over with the last of them.
Throws(r) ==
  LET q == req[r] IN
  /\ \/ Rendering(r) /\ q.unstored = {}
     \/ "faults" \in regime /\ q.pc \in {"storeSnapshot", "storeShell", "register"}
  /\ missed' = IF q.pc = "register"
               THEN [missed EXCEPT ![q.proc][q.route] = @ \union q.unlisted] ELSE missed
  /\ Turn(r, Vacant)
  /\ UNCHANGED <<world, act, cached, knownImpure, impureLayouts, registered, ghosts>>

-----------------------------------------------------------------------------
(* Writing back: steps 11 and 12.                                          *)

BakesAuto(q) == q.route \notin PerUser
Pure(q) == q.for = {}

\* (Mistake: the purity of the layouts is forgotten.)
ShouldBakePage(q) == q.eligible /\ (Pure(q) \/ ~BakesAuto(q))

ShouldBake(q) == q.eligible /\ ~q.layoutImpure /\ (Pure(q) \/ ~BakesAuto(q))

\* An impure render demotes an 'auto' page for the life of the process, and
\* deletes what a pure render left.  A tombstoned page is neither baked nor are
\* its lists registered.
Demote(r) ==
  LET q == req[r]
      demoted == ~Pure(q) /\ BakesAuto(q) /\ q.route \notin knownImpure[q.proc] IN
  /\ q.pc = "assemble"
  /\ IF demoted
     THEN /\ knownImpure' = [knownImpure EXCEPT ![q.proc] = @ \union {q.route}]
          /\ DeleteArtifact(KeyOf(r))
     ELSE UNCHANGED <<knownImpure, html, json>>
  /\ Turn(r, [q EXCEPT !.pc = IF q.route \in tombstoned THEN "respond"
                             ELSE IF ShouldBake(q) THEN "sign" ELSE "register",
                       !.eligible = FALSE, !.layoutImpure = FALSE])
  /\ UNCHANGED <<world, act, layout, impureLayouts, registered, missed, ghosts>>

\* The signature is that of the layout cache now, not of the layouts used.
Sign(r) ==
  /\ req[r].pc = "sign"
  /\ Turn(r, [req[r] EXCEPT !.signature = Signature(req[r].route),
                            !.pc = "storeSnapshot"])
  /\ UNCHANGED <<world, act, cached, memory, ghosts>>

\* cache.setJson ...
StoreSnapshot(r) ==
  LET q == req[r] IN
  /\ q.pc = "storeSnapshot"
  /\ json' = [json EXCEPT ![KeyOf(r)] =
                [data |-> q.data, for |-> q.for, signature |-> q.signature,
                 build |-> release]]
  /\ Turn(r, [q EXCEPT !.pc = "storeShell"])
  /\ UNCHANGED <<world, act, layout, html, memory, ghosts>>

\* ... and then cache.setHtml and setBakedPaths.
StoreShell(r) ==
  LET q == req[r] IN
  /\ q.pc = "storeShell"
  /\ html' = [html EXCEPT ![KeyOf(r)] =
                [data |-> q.data, for |-> q.for, chrome |-> q.chrome]]
  /\ Turn(r, [q EXCEPT !.pc = "register", !.signature = NoChrome])
  /\ UNCHANGED <<world, act, layout, json, memory, ghosts>>

\* registerLiveList of one list of the page, for every list in turn.
Register(r, l) ==
  LET q == req[r] IN
  /\ q.pc = "register" /\ l \in q.unlisted
  /\ registered' = [registered EXCEPT ![q.proc][q.route] = @ \union {l}]
  /\ missed' = [missed EXCEPT ![q.proc][q.route] = @ \ {l}]
  /\ Turn(r, [q EXCEPT !.unlisted = @ \ {l}])
  /\ UNCHANGED <<world, act, cached, knownImpure, impureLayouts, ghosts>>

\* Its queries fail.  That is logged, and the page is answered all the same.
RegisterFails(r, l) ==
  LET q == req[r] IN
  /\ "faults" \in regime
  /\ q.pc = "register" /\ l \in q.unlisted
  /\ missed' = [missed EXCEPT ![q.proc][q.route] = @ \union ({l} \ registered[q.proc][q.route])]
  /\ Turn(r, [q EXCEPT !.unlisted = @ \ {l}])
  /\ UNCHANGED <<world, act, cached, knownImpure, impureLayouts, registered, ghosts>>

\* Every list has had its turn.
Registered(r) ==
  /\ req[r].pc = "register" /\ req[r].unlisted = {}
  /\ Turn(r, [req[r] EXCEPT !.pc = "respond"])
  /\ UNCHANGED <<world, act, cached, memory, ghosts>>

\* respondWithNavigationShape.
Respond(r) ==
  /\ req[r].pc = "respond"
  /\ Turn(r, Vacant)
  /\ UNCHANGED <<world, act, cached, memory, ghosts>>

-----------------------------------------------------------------------------
(* Actions, and the world around the handler.                              *)

\* The action commits its write.
RunAction(w) ==
  /\ "actions" \in regime
  /\ act[w] = "none"
  /\ act' = [act EXCEPT ![w] = "ran"]
  /\ UNCHANGED <<world, cached, memory, req, ghosts>>

ActorKey(w) == Key(Actor[w][2], Actor[w][1])

\* What a request has read or rendered shows the write.
Reflects(q, w) ==
  /\ q.shell # None => w \in q.shell.data
  /\ q.snap # None => w \in q.snap.data
  /\ q.loaded \/ q.pc = "respond" => w \in q.data

\* The actor's artifact is gone, and no request for it that is under way has in
\* hand what is older than the write.
Promised(w, shell, snap) ==
  /\ Actor[w][2] \in PerUser
  /\ shell = None /\ snap = None
  /\ \A r \in Requests : InFlight(r) /\ KeyOf(r) = ActorKey(w) => Reflects(req[r], w)

\* (Mistake: the actor's artifact is left to the watcher.)
AnswerActorOnly(w) ==
  /\ act[w] = "ran"
  /\ act' = [act EXCEPT ![w] = "done"]
  /\ owed' = IF Promised(w, None, None) THEN owed \union {w} ELSE owed
  /\ UNCHANGED <<world, cached, memory, req, ordered>>

\* invalidateActor, before the answer or the redirect goes out.
InvalidateActor(w) ==
  /\ act[w] = "ran"
  /\ act' = [act EXCEPT ![w] = "done"]
  /\ IF Actor[w][2] \in PerUser THEN DeleteArtifact(ActorKey(w))
                                ELSE UNCHANGED <<html, json>>
  /\ owed' = IF Promised(w, html'[ActorKey(w)], json'[ActorKey(w)])
             THEN owed \union {w} ELSE owed
  /\ UNCHANGED <<world, layout, memory, req, ordered>>

\* The action throws after it has committed: nothing is deleted.
ActionFails(w) ==
  /\ act[w] = "ran"
  /\ act' = [act EXCEPT ![w] = "done"]
  /\ UNCHANGED <<world, cached, memory, req, ghosts>>

\* cache.deleteLayout, by the application; it propagates the layouts of the
\* running release.
DeleteLayout(l) ==
  /\ "overlap" \in regime \/ AtRest
  /\ \E left \in Left(layout[l]) : layout' = [layout EXCEPT ![l] = left]
  /\ ordered' = IF AtRest /\ \A m \in Layouts : layout'[m] = None
                THEN release ELSE ordered
  /\ UNCHANGED <<world, act, html, json, memory, req, owed>>

Restarted(P) ==
  /\ knownImpure' = [p \in Procs |-> IF p \in P THEN Fresh.knownImpure ELSE knownImpure[p]]
  /\ impureLayouts' = [p \in Procs |-> IF p \in P THEN Fresh.impureLayouts ELSE impureLayouts[p]]
  /\ registered' = [p \in Procs |-> IF p \in P THEN Fresh.registered ELSE registered[p]]
  /\ missed' = [p \in Procs |-> IF p \in P THEN Fresh.missed ELSE missed[p]]
  /\ req' = [r \in Requests |-> IF InFlight(r) /\ req[r].proc \notin P
                                THEN req[r] ELSE Vacant]

\* All processes are replaced by those of the next release.
Deploy ==
  /\ "deploys" \in regime
  /\ release < MaxRelease
  /\ release' = release + 1
  /\ Restarted(Procs)
  /\ UNCHANGED <<regime, varies, tombstoned, changes, crashes, act, cached, ghosts>>

\* A process dies and is started again.
Crash(p) ==
  /\ "crashes" \in regime
  /\ crashes < MaxCrashes
  /\ crashes' = crashes + 1
  /\ Restarted({p})
  /\ UNCHANGED <<regime, release, varies, tombstoned, changes, act, cached, ghosts>>

\* What a loader reads depends on the data: it begins to read identity (or a
\* layout begins to read beyond its own params), or stops.
Change(x) ==
  /\ "personal" \in regime
  /\ changes < MaxChanges
  /\ changes' = changes + 1
  /\ varies' = IF x \in varies THEN varies \ {x} ELSE varies \union {x}
  /\ UNCHANGED <<regime, release, tombstoned, crashes, act, cached, memory, req, ghosts>>

\* purgeInactiveRoutes, or any other KilnCache.delete.
Purge(key) ==
  /\ "purges" \in regime
  /\ html[key] # None \/ json[key] # None
  /\ DeleteArtifact(key)
  /\ UNCHANGED <<world, act, layout, memory, req, ghosts>>

\* store.tombstone, by the application: the row is marked for good and the
\* artifact it records is deleted.  What isTombstoned reads is the row of the
\* artifact that everybody shares, which there is once that has been baked.
Tombstone(k) ==
  /\ "tombstones" \in regime
  /\ k \notin PerUser \union tombstoned
  /\ html[<<k, None>>] # None
  /\ tombstoned' = tombstoned \union {k}
  /\ DeleteArtifact(<<k, None>>)
  /\ UNCHANGED <<regime, release, varies, changes, crashes, act, layout, memory, req, ghosts>>

-----------------------------------------------------------------------------
Lookup(r) == ReadShell(r) \/ ReadSnapshot(r) \/ Check(r) \/ Drop(r) \/ Serve(r)

Render(r) ==
  \/ LoadPage(r) \/ Assemble(r) \/ Throws(r)
  \/ \E l \in Layouts : ReuseLayout(r, l) \/ BakeLayout(r, l) \/ StoreLayout(r, l)

WriteBack(r) ==
  \/ Demote(r) \/ Sign(r) \/ StoreSnapshot(r) \/ StoreShell(r)
  \/ \E l \in AllLists : Register(r, l) \/ RegisterFails(r, l)
  \/ Registered(r) \/ Respond(r)

Next ==
  \/ \E r \in Requests :
       \/ \E p \in Procs, k \in Routes, u \in Viewers : Arrive(r, p, k, u)
       \/ Lookup(r) \/ Render(r) \/ WriteBack(r)
  \/ \E w \in Writes : RunAction(w) \/ InvalidateActor(w) \/ ActionFails(w)
  \/ \E l \in Layouts : DeleteLayout(l)
  \/ \E x \in Loaders : Change(x)
  \/ \E key \in Keys : Purge(key)
  \/ \E k \in Routes : Tombstone(k)
  \/ \E p \in Procs : Crash(p)
  \/ Deploy

Spec == Init /\ [][Next]_vars

-----------------------------------------------------------------------------
(* Properties.                                                             *)

\* Those who share the artifact at key.
Readers(key) == IF key[2] = None THEN {} ELSE {key[2]}

\* What is cached shows nobody's identity but that of the user it is keyed by,
\* though a loader may begin to read identity at any time, in any process, and
\* a page embeds layouts that other pages baked (purity.ts, steps 5 and 11 of
\* page-render.ts).
CachedForAll ==
  /\ \A l \in Layouts : layout[l] # None => layout[l].for = {}
  /\ \A key \in Keys :
       /\ json[key] # None => json[key].for \subseteq Readers(key)
       /\ html[key] # None =>
            /\ html[key].for \subseteq Readers(key)
            /\ \A l \in Layouts : html[key].chrome[l] # None
                                    => html[key].chrome[l].for = {}

\* Whoever was answered by an action of bake='user' sees its write on every
\* later request, in whichever process (buildActionHandler's invalidateActor),
\* if the deletion of the actor's artifact did not fail and no request that had
\* rendered the artifact before the write was still under way: see Promised.
ActorSeesOwnWrite ==
  \A r \in Requests : req[r].pc = "respond" => req[r].floor \subseteq req[r].data

\* Where requests for one artifact do not overlap, no deletion fails and
\* processes are replaced together, deleteLayout alone brings the layouts of the
\* running release to every page below, those baked long before included (docs:
\* ADR-011).
ChromeIsCurrent ==
  regime \intersect {"overlap", "faults"} = {} =>
    \A r \in Requests : req[r].pc = "respond" =>
      \A l \in Chain[req[r].route] : req[r].chrome[l].by >= req[r].since

\* The list is registered in the process, its registration has failed there, or
\* a request that has rendered the page is about to register it.
Attempted(p, k, l) ==
  \/ l \in registered[p][k] \union missed[p][k]
  \/ \E t \in Requests : /\ req[t].pc = "register" /\ req[t].proc = p /\ req[t].route = k
                         /\ l \in req[t].unlisted

\* No process answers with a page that everybody shares without having taken up
\* each of its lists, unless the page is tombstoned: not even its first answer
\* after a restart, from a warm cache, or one that finds the first of several
\* lists registered (steps 3 and 11 of page-render.ts).
ListIsLive ==
  \A r \in Requests :
    req[r].pc = "respond" /\ KeyOf(r)[2] = None /\ req[r].route \notin tombstoned
      => \A l \in Lists[req[r].route] : Attempted(req[r].proc, req[r].route, l)

\* What a comment says of fsr.buildId: an answer shows the running release,
\* without a manual flush after the deploy.
DeployNeedsNoFlush ==
  HasBuildId => \A r \in Requests : req[r].pc = "respond" =>
    \A l \in Chain[req[r].route] : req[r].chrome[l].by = release
=============================================================================
