--------------------------- MODULE PageServeProofs ---------------------------
(***************************************************************************)
(* Theorems about PageServe, for every set of processes, requests, pages,  *)
(* layouts, users and actions: the types, that what is cached shows nobody *)
(* but its reader, that an actor sees its own write, that no page leaves a *)
(* process before the process has taken up each of its lists, and that     *)
(* deleteLayout brings the layouts of the running release to every page.   *)
(*                                                                         *)
(* The first three follow from what a request has in hand at each of its   *)
(* steps: what it read of the cache, what it rendered, and whether a       *)
(* layout that is specific to somebody is still to be written back or has  *)
(* been counted.  The fourth relates a process's lists to the requests     *)
(* that are registering them: see LInv.  The last relates, besides, what   *)
(* is in hand to what is in the cache now: see Current.                    *)
(***************************************************************************)
EXTENDS PageServe, TLAPS

Baking == {"sign", "storeSnapshot", "storeShell"}
BeforeBake == {"shell", "snapshot", "check", "drop", "serve", "load", "assemble"}

\* What a request has read and rendered.
Made(q) ==
  /\ q.eligible => ~(q.route \in PerUser /\ q.user = Anonymous)
  /\ q.for \subseteq {q.user}
  /\ q.pc \in {"snapshot", "check", "drop", "serve"} => q.shell # None
  /\ q.pc = "serve" => q.snap # None
  /\ q.pc \in Baking \union {"assemble"} => Complete(q.route, q.chrome)
  /\ q.pc = "assemble" => q.unstored = {}
  /\ q.pc \in Baking \union {"assemble", "register"} => q.loaded

\* A layout that is specific to somebody is to be written back or has been
\* counted; what is baked is for the readers of its key.
Attributed(q) ==
  /\ q.pc \in BeforeBake => \A l \in Layouts :
       q.chrome[l] # None /\ q.chrome[l].for # {} => l \in q.unstored \/ q.layoutImpure
  /\ q.pc \in Baking =>
       /\ q.for \subseteq Readers(Key(q.route, q.user))
       /\ \A l \in Layouts : q.chrome[l] # None => q.chrome[l].for = {}

\* Whatever it shows reflects the writes in ow whose actor it answers.
Seen(q, ow) ==
  /\ q.floor \subseteq {w \in ow : Actor[w] = <<q.user, q.route>>}
  /\ \A w \in ow : ActorKey(w) = Key(q.route, q.user) =>
       /\ q.shell # None => w \in q.shell.data
       /\ q.snap # None => w \in q.snap.data
       /\ q.loaded \/ q.pc = "respond" => w \in q.data

RequestOK(q, ow) ==
  q.pc # "idle" => Made(q) /\ Attributed(q) /\ Seen(q, ow)

\* What is cached reflects every write its reader is owed.
Kept ==
  \A w \in owed :
    /\ act[w] = "done"
    /\ Actor[w][2] \in PerUser
    /\ html[ActorKey(w)] # None => w \in html[ActorKey(w)].data
    /\ json[ActorKey(w)] # None => w \in json[ActorKey(w)].data

RequestsOK == \A r \in Requests : RequestOK(req[r], owed)

IInv == TypeOK /\ CachedForAll /\ Kept /\ RequestsOK

CacheTypes ==
  /\ layout \in Chromes
  /\ html \in [Keys -> Shell \union {None}]
  /\ \A key \in Keys : html[key] # None => Complete(key[1], html[key].chrome)
  /\ json \in [Keys -> Snapshot \union {None}]

MemoryTypes ==
  /\ knownImpure \in [Procs -> SUBSET Routes]
  /\ impureLayouts \in [Procs -> [Routes -> SUBSET Layouts]]
  /\ registered \in [Procs -> [Routes -> SUBSET AllLists]]
  /\ missed \in [Procs -> [Routes -> SUBSET AllLists]]

-----------------------------------------------------------------------------
(* Keys.                                                                   *)

\* A key names its page, and its reader if it has one.
LEMMA KeyFacts ==
  ASSUME NEW k \in Routes, NEW u \in Viewers
  PROVE  /\ Key(k, u) \in Keys
         /\ Key(k, u)[1] = k
         /\ Readers(Key(k, u)) = IF k \in PerUser /\ u # Anonymous THEN {u} ELSE {}
<1>1. k \in PerUser /\ u # Anonymous => u # None
  BY PageServeAssumption DEF Viewers
<1>2. QED
  BY <1>1 DEF Key, Keys, Readers

\* The artifact of an actor.
LEMMA ActorKeyFacts ==
  ASSUME NEW w \in Writes
  PROVE  /\ ActorKey(w) \in Keys
         /\ ActorKey(w)[1] = Actor[w][2]
         /\ Actor[w][1] \in Users /\ Actor[w][2] \in Routes
<1>1. Actor[w][1] \in Viewers /\ Actor[w][1] \in Users /\ Actor[w][2] \in Routes
  BY PageServeAssumption DEF Viewers
<1>2. QED
  BY <1>1, KeyFacts DEF ActorKey

\* The lists of a page are lists.
LEMMA ListFacts == \A k \in Routes : Lists[k] \subseteq AllLists
  BY PageServeAssumption

\* A request in flight is of the type of its fields.
LEMMA FlightFacts ==
  ASSUME TypeOK, NEW r \in Requests, InFlight(r)
  PROVE  /\ req[r] \in Request
         /\ KeyOf(r) \in Keys /\ KeyOf(r)[1] = req[r].route
         /\ KeyOf(r) = Key(req[r].route, req[r].user)
<1>1. req[r] \in Request
  BY DEF TypeOK, InFlight, Vacant
<1>2. req[r].route \in Routes /\ req[r].user \in Viewers
  BY <1>1 DEF Request
<1>3. QED
  BY <1>1, <1>2, KeyFacts DEF KeyOf

-----------------------------------------------------------------------------
(* A step of a request.                                                    *)

\* A step that changes one request keeps the invariant if what it makes of
\* the request and of the cache is in order.
LEMMA Stepped ==
  ASSUME IInv, NEW r \in Requests, NEW to \in Request \union {Vacant}, Turn(r, to),
         UNCHANGED <<world, act, ghosts>>,
         CacheTypes', MemoryTypes', CachedForAll', Kept',
         to.pc = "assemble" => Complete(to.route, to.chrome),
         RequestOK(to, owed)
  PROVE  IInv'
<1>1. \A t \in Requests : req'[t] = IF t = r THEN to ELSE req[t]
  BY DEF Turn, IInv, TypeOK
<1>2. req' \in [Requests -> Request \union {Vacant}]
  BY DEF Turn, IInv, TypeOK
<1>3. \A t \in Requests : req'[t].pc = "assemble" => Complete(req'[t].route, req'[t].chrome)
  BY <1>1 DEF IInv, TypeOK
<1>4. TypeOK'
  BY <1>2, <1>3 DEF IInv, TypeOK, CacheTypes, MemoryTypes, world, ghosts
<1>5. \A t \in Requests : RequestOK(req[t], owed)
  BY DEF IInv, RequestsOK
<1>6. owed' = owed
  BY DEF ghosts
<1>7. RequestsOK'
  BY <1>1, <1>5, <1>6 DEF RequestsOK
<1>8. QED
  BY <1>4, <1>7 DEF IInv

\* A step that changes nothing but the request.
LEMMA Turned ==
  ASSUME IInv, NEW r \in Requests, NEW to \in Request \union {Vacant}, Turn(r, to),
         UNCHANGED <<world, act, cached, memory, ghosts>>,
         to.pc = "assemble" => Complete(to.route, to.chrome),
         RequestOK(to, owed)
  PROVE  IInv'
<1>1. CacheTypes' /\ MemoryTypes'
  BY DEF IInv, TypeOK, CacheTypes, MemoryTypes, cached, memory
<1>2. CachedForAll' /\ Kept'
  BY DEF IInv, CachedForAll, Kept, cached, ghosts
<1>3. QED
  BY <1>1, <1>2, Stepped

-----------------------------------------------------------------------------
(* The steps of a request that change nothing else.                        *)

\* Requests that arrive.
LEMMA ArriveStep ==
  ASSUME IInv, NEW r \in Requests, NEW p \in Procs, NEW k \in Routes, NEW u \in Viewers,
         Arrive(r, p, k, u)
  PROVE  IInv'
<1> DEFINE to == NewRequest(p, k, u)
<1>1. /\ to.pc \in {"shell", "load"} /\ to.proc = p /\ to.route = k /\ to.user = u
      /\ to.eligible => ~(k \in PerUser /\ u = Anonymous)
      /\ to.for = {} /\ ~to.loaded /\ to.chrome = NoChrome
      /\ to.shell = None /\ to.snap = None
      /\ to.floor = {w \in owed : Actor[w] = <<u, k>>}
  BY DEF NewRequest, Eligible
<1>2. to \in Request
  <2>1. NoChrome \in Chromes
    BY DEF NoChrome, Chromes
  <2>2. owed \subseteq Writes /\ ordered \in 0..MaxRelease
    BY DEF IInv, TypeOK
  <2>3. ToRegister(k, u) \subseteq AllLists
    BY ListFacts DEF ToRegister
  <2>4. QED
    BY <2>1, <2>2, <2>3 DEF NewRequest, Eligible, Request, ReqPc
<1>3. RequestOK(to, owed)
  <2> HIDE DEF to
  <2>1. Made(to)
    BY <1>1 DEF Made, Baking
  <2>2. Attributed(to)
    BY <1>1 DEF Attributed, NoChrome, Baking
  <2>3. Seen(to, owed)
    BY <1>1 DEF Seen
  <2>4. QED
    BY <2>1, <2>2, <2>3 DEF RequestOK
<1>4. Turn(r, to) /\ UNCHANGED <<world, act, cached, memory, ghosts>>
  BY DEF Arrive
<1> HIDE DEF to
<1>5. to.pc # "assemble"
  BY <1>1
<1>6. QED
  BY <1>2, <1>3, <1>4, <1>5, Turned

\* Step 1: the shell and the snapshot are read.
LEMMA ReadShellStep ==
  ASSUME IInv, NEW r \in Requests, ReadShell(r)
  PROVE  IInv'
<1> DEFINE shell == html[KeyOf(r)]
           to == [req[r] EXCEPT !.shell = shell,
                                !.pc = IF shell = None THEN "load" ELSE "snapshot"]
<1>1. InFlight(r) /\ req[r].pc = "shell"
  BY DEF ReadShell, InFlight
<1>2. /\ req[r] \in Request
      /\ KeyOf(r) \in Keys /\ KeyOf(r) = Key(req[r].route, req[r].user)
  BY <1>1, FlightFacts DEF IInv
<1>3. shell \in Shell \union {None}
  BY <1>2 DEF IInv, TypeOK
<1>4. to \in Request
  BY <1>2, <1>3 DEF Request, ReqPc
<1>5. RequestOK(req[r], owed)
  BY DEF IInv, RequestsOK
<1>6. RequestOK(to, owed)
  <2>1. Made(to)
    BY <1>1, <1>2, <1>5 DEF RequestOK, Made, Request, Baking
  <2>2. Attributed(to)
    BY <1>1, <1>2, <1>5 DEF RequestOK, Attributed, Request, Baking, BeforeBake
  <2>3. \A w \in owed : ActorKey(w) = KeyOf(r) /\ shell # None => w \in shell.data
    BY DEF IInv, Kept
  <2>4. Seen(to, owed)
    BY <1>1, <1>2, <1>5, <2>3 DEF RequestOK, Seen, Request
  <2>5. QED
    BY <2>1, <2>2, <2>4 DEF RequestOK
<1>7. Turn(r, to) /\ UNCHANGED <<world, act, cached, memory, ghosts>>
  BY DEF ReadShell
<1>8. to.pc # "assemble"
  BY <1>2 DEF Request
<1> HIDE DEF to
<1>9. QED
  BY <1>4, <1>6, <1>7, <1>8, Turned

\* A request in hand, as its step finds it.
LEMMA InHandFacts ==
  ASSUME IInv, NEW r \in Requests, InFlight(r)
  PROVE  /\ req[r] \in Request
         /\ KeyOf(r) \in Keys /\ KeyOf(r)[1] = req[r].route
         /\ KeyOf(r) = Key(req[r].route, req[r].user)
         /\ Made(req[r]) /\ Attributed(req[r])
         /\ Seen(req[r], owed)
BY FlightFacts DEF IInv, RequestsOK, RequestOK, InFlight

\* A connection that is vacant again.
LEMMA VacantStep ==
  ASSUME IInv, NEW r \in Requests, Throws(r) \/ Respond(r)
  PROVE  IInv'
<1>1. Turn(r, Vacant) /\ UNCHANGED <<world, act, cached, ghosts>>
  BY DEF Throws, Respond
<1>2. RequestOK(Vacant, owed) /\ Vacant.pc # "assemble"
  BY DEF RequestOK, Vacant
<1>3. MemoryTypes'
  <2>1. CASE Respond(r)
    BY <2>1 DEF Respond, memory, MemoryTypes, IInv, TypeOK
  <2>2. CASE Throws(r)
    <3>1. InFlight(r)
      BY <2>2 DEF Throws, Rendering, InFlight
    <3>2. req[r].proc \in Procs /\ req[r].route \in Routes /\ req[r].unlisted \in SUBSET AllLists
      BY <3>1, FlightFacts DEF IInv, Request
    <3>3. missed' \in [Procs -> [Routes -> SUBSET AllLists]]
      BY <2>2, <3>2 DEF Throws, IInv, TypeOK
    <3>4. QED
      BY <2>2, <3>3 DEF Throws, MemoryTypes, IInv, TypeOK
  <2>3. QED
    BY <2>1, <2>2
<1>4. CacheTypes' /\ CachedForAll' /\ Kept'
  BY <1>1 DEF CacheTypes, CachedForAll, Kept, IInv, TypeOK, cached, ghosts
<1>5. QED
  BY <1>1, <1>2, <1>3, <1>4, Stepped

LEMMA ReadSnapshotStep ==
  ASSUME IInv, NEW r \in Requests, ReadSnapshot(r)
  PROVE  IInv'
<1> DEFINE snap == json[KeyOf(r)]
           to == [req[r] EXCEPT !.snap = snap, !.pc = "check"]
<1>1. InFlight(r) /\ req[r].pc = "snapshot"
  BY DEF ReadSnapshot, InFlight
<1>2. req[r] \in Request
  BY <1>1, InHandFacts
<1>3. snap \in Snapshot \union {None}
  BY <1>1, InHandFacts DEF IInv, TypeOK
<1>4. to \in Request
  BY <1>2, <1>3 DEF Request, ReqPc
<1>5. RequestOK(to, owed)
  <2>1. Made(to)
    BY <1>1, <1>2, InHandFacts DEF Made, Request, Baking
  <2>2. Attributed(to)
    BY <1>1, <1>2, InHandFacts DEF Attributed, Request, Baking, BeforeBake
  <2>3. \A w \in owed : ActorKey(w) = KeyOf(r) /\ snap # None => w \in snap.data
    BY DEF IInv, Kept
  <2>4. Seen(to, owed)
    BY <1>1, <1>2, <2>3, InHandFacts DEF Seen, Request
  <2>5. QED
    BY <2>1, <2>2, <2>4 DEF RequestOK
<1>6. Turn(r, to) /\ UNCHANGED <<world, act, cached, memory, ghosts>>
  BY DEF ReadSnapshot
<1>7. to.pc # "assemble"
  BY <1>2 DEF Request
<1> HIDE DEF to
<1>8. QED
  BY <1>4, <1>5, <1>6, <1>7, Turned

LEMMA CheckStep ==
  ASSUME IInv, NEW r \in Requests, Check(r)
  PROVE  IInv'
<1> DEFINE valid == Valid(req[r].route, req[r].snap)
           to == [req[r] EXCEPT !.pc = IF valid THEN "serve" ELSE "drop"]
<1>1. InFlight(r) /\ req[r].pc = "check"
  BY DEF Check, InFlight
<1>2. req[r] \in Request
  BY <1>1, InHandFacts
<1>3. to \in Request
  BY <1>2 DEF Request, ReqPc
<1>4. RequestOK(to, owed)
  <2>0. valid => req[r].snap # None
    BY DEF Valid
  <2> HIDE DEF valid
  <2>1. Made(to)
    BY <1>1, <1>2, <2>0, InHandFacts DEF Made, Request, Baking
  <2>2. Attributed(to)
    BY <1>1, <1>2, InHandFacts DEF Attributed, Request, Baking, BeforeBake
  <2>3. Seen(to, owed)
    BY <1>1, <1>2, InHandFacts DEF Seen, Request
  <2>4. QED
    BY <2>1, <2>2, <2>3 DEF RequestOK
<1>5. Turn(r, to) /\ UNCHANGED <<world, act, cached, memory, ghosts>>
  BY DEF Check
<1>6. to.pc # "assemble"
  BY <1>2 DEF Request
<1> HIDE DEF to
<1>7. QED
  BY <1>3, <1>4, <1>5, <1>6, Turned

\* What is served was read whole, by a process that refreshes its list.
LEMMA ServeStep ==
  ASSUME IInv, NEW r \in Requests, Serve(r)
  PROVE  IInv'
<1> DEFINE q == req[r]
<1>1. InFlight(r) /\ q.pc = "serve"
  BY DEF Serve, InFlight
<1>2. q \in Request /\ q.shell # None /\ q.snap # None
  BY <1>1, InHandFacts DEF Made
<1>3. q.shell \in Shell /\ q.snap \in Snapshot
  BY <1>2 DEF Request
<1>4. CASE Served(q.proc, q.route)
  <2> DEFINE to == [q EXCEPT !.pc = "respond",
                             !.data = q.shell.data \intersect q.snap.data,
                             !.chrome = q.shell.chrome]
  <2>1. to \in Request
    BY <1>2, <1>3 DEF Request, ReqPc, Shell, Snapshot
  <2>2. RequestOK(to, owed)
    <3>1. Made(to)
      BY <1>1, <1>2, InHandFacts DEF Made, Request, Baking
    <3>2. Attributed(to)
      BY <1>2 DEF Attributed, Request, Baking, BeforeBake
    <3>3. Seen(to, owed)
      BY <1>2, InHandFacts, <1>1 DEF Seen, Request
    <3>4. QED
      BY <3>1, <3>2, <3>3 DEF RequestOK
  <2>3. Turn(r, to) /\ UNCHANGED <<world, act, cached, memory, ghosts>>
    BY <1>4 DEF Serve
  <2>4. to.pc # "assemble"
    BY <1>2 DEF Request
  <2> HIDE DEF to, q
  <2>5. QED
    BY <2>1, <2>2, <2>3, <2>4, Turned
<1>5. CASE ~Served(q.proc, q.route)
  <2> DEFINE to == [q EXCEPT !.pc = "load", !.shell = None, !.snap = None]
  <2>1. to \in Request
    BY <1>2 DEF Request, ReqPc
  <2>2. RequestOK(to, owed)
    <3>1. Made(to)
      BY <1>1, <1>2, InHandFacts DEF Made, Request, Baking
    <3>2. Attributed(to)
      BY <1>1, <1>2, InHandFacts DEF Attributed, Request, Baking, BeforeBake
    <3>3. Seen(to, owed)
      BY <1>1, <1>2, InHandFacts DEF Seen, Request
    <3>4. QED
      BY <3>1, <3>2, <3>3 DEF RequestOK
  <2>3. Turn(r, to) /\ UNCHANGED <<world, act, cached, memory, ghosts>>
    BY <1>5 DEF Serve
  <2>4. to.pc # "assemble"
    BY <1>2 DEF Request
  <2> HIDE DEF to, q
  <2>5. QED
    BY <2>1, <2>2, <2>3, <2>4, Turned
<1>6. QED
  BY <1>4, <1>5

\* load() shows every action of its page that has run.
LEMMA LoadPageStep ==
  ASSUME IInv, NEW r \in Requests, LoadPage(r)
  PROVE  IInv'
<1> DEFINE q == req[r]
           data == {w \in Writes : act[w] # "none" /\ Actor[w][2] = q.route}
           for == Personal(q.route, q.user)
           to == [q EXCEPT !.loaded = TRUE, !.data = data, !.for = for]
<1>1. InFlight(r) /\ q.pc = "load"
  BY DEF LoadPage, Rendering, InFlight
<1>2. q \in Request /\ KeyOf(r) = Key(q.route, q.user) /\ KeyOf(r)[1] = q.route
  BY <1>1, InHandFacts
<1>3. for \subseteq {q.user} /\ for \subseteq Viewers
  BY <1>2 DEF Personal, Request
<1>4. to \in Request
  BY <1>2, <1>3 DEF Request
<1>5. \A w \in owed : ActorKey(w) = KeyOf(r) => w \in data
  <2> SUFFICES ASSUME NEW w \in owed, ActorKey(w) = KeyOf(r) PROVE w \in data
    OBVIOUS
  <2>1. w \in Writes /\ act[w] = "done"
    BY DEF IInv, Kept, TypeOK
  <2>2. Actor[w][2] = q.route
    BY <2>1, <1>2, ActorKeyFacts
  <2>3. QED
    BY <2>1, <2>2
<1> HIDE DEF data, for
<1>6. RequestOK(to, owed)
  <2>1. Made(to)
    BY <1>1, <1>2, <1>3, InHandFacts DEF Made, Request, Baking
  <2>2. Attributed(to)
    BY <1>1, <1>2, InHandFacts DEF Attributed, Request, Baking, BeforeBake
  <2>3. Seen(to, owed)
    BY <1>1, <1>2, <1>5, InHandFacts DEF Seen, Request
  <2>4. QED
    BY <2>1, <2>2, <2>3 DEF RequestOK
<1>7. Turn(r, to) /\ UNCHANGED <<world, act, cached, memory, ghosts>>
  BY DEF LoadPage, data, for
<1>8. to.pc # "assemble"
  BY <1>1, <1>2 DEF Request
<1> HIDE DEF to
<1>9. QED
  BY <1>4, <1>6, <1>7, <1>8, Turned

\* A layout that a request takes over or bakes.
LEMMA LayoutStep ==
  ASSUME IInv, NEW r \in Requests, NEW l \in Layouts, ReuseLayout(r, l) \/ BakeLayout(r, l)
  PROVE  IInv'
<1> DEFINE q == req[r]
<1>1. InFlight(r) /\ q.pc = "load"
  BY DEF ReuseLayout, BakeLayout, Rendering, InFlight
<1>2. q \in Request
  BY <1>1, InHandFacts
<1>3. PICK c \in Chrome, U \in SUBSET Layouts :
        /\ Turn(r, [q EXCEPT !.chrome[l] = c, !.unstored = U])
        /\ q.unstored \subseteq U
        /\ c.for # {} => l \in U
  <2>1. CASE ReuseLayout(r, l)
    <3>1. layout[l] \in Chrome /\ layout[l].for = {}
      BY <2>1 DEF ReuseLayout, IInv, TypeOK, Chromes, CachedForAll
    <3>2. q.unstored \in SUBSET Layouts
      BY <1>2 DEF Request
    <3>3. [q EXCEPT !.chrome[l] = layout[l], !.unstored = q.unstored]
            = [q EXCEPT !.chrome[l] = layout[l]]
      BY <1>2 DEF Request
    <3>4. QED
      BY <2>1, <3>1, <3>2, <3>3 DEF ReuseLayout
  <2>2. CASE BakeLayout(r, l)
    <3> DEFINE c == [by |-> release, for |-> Personal(l, q.user)]
               U == q.unstored \union {l}
    <3>1. c \in Chrome
      BY <1>2 DEF Chrome, Personal, Request, IInv, TypeOK
    <3>2. U \in SUBSET Layouts
      BY <1>2 DEF Request
    <3>3. Turn(r, [q EXCEPT !.chrome[l] = c, !.unstored = U])
      BY <2>2 DEF BakeLayout
    <3>4. QED
      BY <3>1, <3>2, <3>3
  <2>3. QED
    BY <2>1, <2>2
<1> DEFINE to == [q EXCEPT !.chrome[l] = c, !.unstored = U]
<1>4. to \in Request
  BY <1>2 DEF Request, Chromes
<1>5. \A m \in Layouts : to.chrome[m] = IF m = l THEN c ELSE q.chrome[m]
  BY <1>2 DEF Request, Chromes
<1>6. RequestOK(to, owed)
  <2>1. Made(to)
    BY <1>1, <1>2, InHandFacts DEF Made, Request, Baking
  <2>2. Attributed(to)
    BY <1>1, <1>2, <1>3, <1>5, InHandFacts DEF Attributed, Request, Baking, BeforeBake
  <2>3. Seen(to, owed)
    BY <1>1, <1>2, InHandFacts DEF Seen, Request
  <2>4. QED
    BY <2>1, <2>2, <2>3 DEF RequestOK
<1>7. Turn(r, to) /\ UNCHANGED <<world, act, cached, memory, ghosts>>
  BY <1>3 DEF ReuseLayout, BakeLayout
<1>8. to.pc # "assemble"
  BY <1>1, <1>2 DEF Request
<1> HIDE DEF to
<1>9. QED
  BY <1>4, <1>6, <1>7, <1>8, Turned

LEMMA AssembleStep ==
  ASSUME IInv, NEW r \in Requests, Assemble(r)
  PROVE  IInv'
<1> DEFINE to == [req[r] EXCEPT !.pc = "assemble"]
<1>1. /\ InFlight(r) /\ req[r].pc = "load" /\ req[r].loaded /\ req[r].unstored = {}
      /\ Complete(req[r].route, req[r].chrome)
  BY DEF Assemble, Rendering, InFlight
<1>2. req[r] \in Request
  BY <1>1, InHandFacts
<1>3. to \in Request
  BY <1>2 DEF Request, ReqPc
<1>4. RequestOK(to, owed)
  <2>1. Made(to)
    BY <1>1, <1>2, InHandFacts DEF Made, Request, Baking
  <2>2. Attributed(to)
    BY <1>1, <1>2, InHandFacts DEF Attributed, Request, Baking, BeforeBake
  <2>3. Seen(to, owed)
    BY <1>1, <1>2, InHandFacts DEF Seen, Request
  <2>4. QED
    BY <2>1, <2>2, <2>3 DEF RequestOK
<1>5. Turn(r, to) /\ UNCHANGED <<world, act, cached, memory, ghosts>>
  BY DEF Assemble
<1>6. Complete(to.route, to.chrome)
  BY <1>1, <1>2 DEF Request
<1> HIDE DEF to
<1>7. QED
  BY <1>3, <1>4, <1>5, <1>6, Turned

LEMMA SignStep ==
  ASSUME IInv, NEW r \in Requests, Sign(r)
  PROVE  IInv'
<1> DEFINE signature == Signature(req[r].route)
           to == [req[r] EXCEPT !.signature = signature, !.pc = "storeSnapshot"]
<1>1. InFlight(r) /\ req[r].pc = "sign"
  BY DEF Sign, InFlight
<1>2. req[r] \in Request
  BY <1>1, InHandFacts
<1>3. signature \in Chromes
  BY DEF Signature, Chromes, IInv, TypeOK
<1> HIDE DEF signature
<1>4. to \in Request
  BY <1>2, <1>3 DEF Request, ReqPc
<1>5. RequestOK(to, owed)
  <2>1. Made(to)
    BY <1>1, <1>2, InHandFacts DEF Made, Request, Baking
  <2>2. Attributed(to)
    BY <1>1, <1>2, InHandFacts DEF Attributed, Request, Baking, BeforeBake
  <2>3. Seen(to, owed)
    BY <1>1, <1>2, InHandFacts DEF Seen, Request
  <2>4. QED
    BY <2>1, <2>2, <2>3 DEF RequestOK
<1>6. Turn(r, to) /\ UNCHANGED <<world, act, cached, memory, ghosts>>
  BY DEF Sign, signature
<1>7. to.pc # "assemble"
  BY <1>2 DEF Request
<1> HIDE DEF to
<1>8. QED
  BY <1>4, <1>5, <1>6, <1>7, Turned

-----------------------------------------------------------------------------
(* The steps of a request that change the cache or what a process knows.   *)

\* What is left of an artifact when it is deleted.
LEMMA DeletedFacts ==
  ASSUME TypeOK, NEW key \in Keys, DeleteArtifact(key)
  PROVE  /\ html' \in [Keys -> Shell \union {None}]
         /\ json' \in [Keys -> Snapshot \union {None}]
         /\ \A k \in Keys : html'[k] \in {None, html[k]} /\ json'[k] \in {None, json[k]}
<1>1. PICK shell \in Left(html[key]), snap \in Left(json[key]) :
        html' = [html EXCEPT ![key] = shell] /\ json' = [json EXCEPT ![key] = snap]
  BY DEF DeleteArtifact
<1>2. shell \in {None, html[key]} /\ snap \in {None, json[key]}
  BY <1>1 DEF Left
<1>3. QED
  BY <1>1, <1>2 DEF TypeOK

\* An artifact may be deleted at any time.
LEMMA DeleteKeeps ==
  ASSUME IInv, NEW key \in Keys, DeleteArtifact(key), layout' = layout,
         UNCHANGED <<act, owed>>
  PROVE  CacheTypes' /\ CachedForAll' /\ Kept'
<1>1. /\ html' \in [Keys -> Shell \union {None}]
      /\ json' \in [Keys -> Snapshot \union {None}]
      /\ \A k \in Keys : html'[k] \in {None, html[k]} /\ json'[k] \in {None, json[k]}
  BY DeletedFacts DEF IInv
<1>2. CacheTypes'
  <2>1. \A k \in Keys : html'[k] # None => Complete(k[1], html'[k].chrome)
    BY <1>1 DEF IInv, TypeOK
  <2>2. QED
    BY <1>1, <2>1 DEF CacheTypes, IInv, TypeOK
<1>3. CachedForAll'
  BY <1>1 DEF CachedForAll, IInv
<1>4. Kept'
  <2>1. \A w \in owed : ActorKey(w) \in Keys
    BY ActorKeyFacts DEF IInv, TypeOK
  <2>2. QED
    BY <1>1, <2>1 DEF Kept, IInv
<1>5. QED
  BY <1>2, <1>3, <1>4

LEMMA DropStep ==
  ASSUME IInv, NEW r \in Requests, Drop(r)
  PROVE  IInv'
<1> DEFINE to == [req[r] EXCEPT !.pc = "load", !.shell = None, !.snap = None]
<1>1. InFlight(r) /\ req[r].pc = "drop"
  BY DEF Drop, InFlight
<1>2. req[r] \in Request /\ KeyOf(r) \in Keys
  BY <1>1, InHandFacts
<1>3. to \in Request
  BY <1>2 DEF Request, ReqPc
<1>4. /\ Turn(r, to) /\ DeleteArtifact(KeyOf(r)) /\ layout' = layout
      /\ UNCHANGED <<world, act, ghosts>> /\ UNCHANGED memory
  BY DEF Drop
<1>5. MemoryTypes'
  BY <1>4 DEF memory, MemoryTypes, IInv, TypeOK
<1>6. CacheTypes' /\ CachedForAll' /\ Kept'
  BY <1>2, <1>4, DeleteKeeps DEF ghosts
<1>7. RequestOK(to, owed)
  <2>1. Made(to)
    BY <1>1, <1>2, InHandFacts DEF Made, Request, Baking
  <2>2. Attributed(to)
    BY <1>1, <1>2, InHandFacts DEF Attributed, Request, Baking, BeforeBake
  <2>3. Seen(to, owed)
    BY <1>1, <1>2, InHandFacts DEF Seen, Request
  <2>4. QED
    BY <2>1, <2>2, <2>3 DEF RequestOK
<1>8. to.pc # "assemble"
  BY <1>2 DEF Request
<1> HIDE DEF to
<1>9. QED
  BY <1>3, <1>4, <1>5, <1>6, <1>7, <1>8, Stepped

\* Only a layout that is for everybody is cached.
LEMMA StoreLayoutStep ==
  ASSUME IInv, NEW r \in Requests, NEW l \in Layouts, StoreLayout(r, l)
  PROVE  IInv'
<1> DEFINE q == req[r]
           pure == q.chrome[l].for = {}
           to == [q EXCEPT !.unstored = @ \ {l}, !.layoutImpure = @ \/ ~pure]
<1>1. InFlight(r) /\ q.pc = "load" /\ l \in q.unstored
  BY DEF StoreLayout, Rendering, InFlight
<1>2. q \in Request /\ q.proc \in Procs /\ q.route \in Routes
  BY <1>1, InHandFacts DEF Request
<1>3. to \in Request
  <2>1. (q.layoutImpure \/ ~pure) \in BOOLEAN
    OBVIOUS
  <2>2. q.unstored \ {l} \in SUBSET Layouts
    BY <1>2 DEF Request
  <2> HIDE DEF pure
  <2>3. QED
    BY <1>2, <2>1, <2>2 DEF Request
<1>4. /\ Turn(r, to) /\ UNCHANGED <<html, json>>
      /\ UNCHANGED <<world, act, ghosts>> /\ UNCHANGED <<knownImpure, registered, missed>>
  BY DEF StoreLayout
<1>5. MemoryTypes'
  <2>1. impureLayouts' = impureLayouts
        \/ impureLayouts' = [impureLayouts EXCEPT ![q.proc][q.route] = @ \union {l}]
    BY DEF StoreLayout
  <2>2. impureLayouts \in [Procs -> [Routes -> SUBSET Layouts]]
    BY DEF IInv, TypeOK
  <2>3. impureLayouts' \in [Procs -> [Routes -> SUBSET Layouts]]
    BY <1>2, <2>1, <2>2
  <2>4. QED
    BY <1>4, <2>3 DEF MemoryTypes, IInv, TypeOK
<1>6. /\ layout' \in Chromes
      /\ \A m \in Layouts : layout'[m] # None => layout'[m].for = {}
  <2>1. layout \in Chromes /\ \A m \in Layouts : layout[m] # None => layout[m].for = {}
    BY DEF IInv, TypeOK, CachedForAll
  <2>2. q.chrome[l] \in Chrome \union {None}
    BY <1>2 DEF Request, Chromes
  <2>3. \/ pure /\ layout' = [layout EXCEPT ![l] = q.chrome[l]]
        \/ \E left \in {None, layout[l]} : layout' = [layout EXCEPT ![l] = left]
        \/ layout' = layout
    BY DEF StoreLayout, Left
  <2>4. QED
    BY <2>1, <2>2, <2>3 DEF Chromes
<1>7. CacheTypes' /\ CachedForAll' /\ Kept'
  BY <1>4, <1>6 DEF CacheTypes, CachedForAll, Kept, IInv, TypeOK, ghosts
<1>8. RequestOK(to, owed)
  <2>1. Made(to)
    BY <1>1, <1>2, InHandFacts DEF Made, Request, Baking
  <2>2. Attributed(to)
    <3>1. to.unstored = q.unstored \ {l} /\ to.chrome = q.chrome /\ to.pc = q.pc
      BY <1>2 DEF Request
    <3>2. to.layoutImpure <=> q.layoutImpure \/ ~pure
      BY <1>2 DEF Request
    <3>3. ASSUME NEW m \in Layouts, q.chrome[m] # None, q.chrome[m].for # {}
          PROVE  m \in to.unstored \/ to.layoutImpure
      BY <1>1, <3>1, <3>2, <3>3, InHandFacts DEF Attributed, BeforeBake
    <3> HIDE DEF to
    <3>4. QED
      BY <1>1, <3>1, <3>3 DEF Attributed, Baking
  <2>3. Seen(to, owed)
    BY <1>1, <1>2, InHandFacts DEF Seen, Request
  <2>4. QED
    BY <2>1, <2>2, <2>3 DEF RequestOK
<1>9. to.pc # "assemble"
  BY <1>1, <1>2 DEF Request
<1> HIDE DEF to
<1>10. QED
  BY <1>3, <1>4, <1>5, <1>7, <1>8, <1>9, Stepped

\* What is about to be baked is for the readers of its key.
LEMMA DemoteStep ==
  ASSUME IInv, NEW r \in Requests, Demote(r)
  PROVE  IInv'
<1> DEFINE q == req[r]
           bake == ShouldBake(q)
           to == [q EXCEPT !.pc = IF q.route \in tombstoned THEN "respond"
                                  ELSE IF bake THEN "sign" ELSE "register",
                           !.eligible = FALSE, !.layoutImpure = FALSE]
<1>1. InFlight(r) /\ q.pc = "assemble"
  BY DEF Demote, InFlight
<1>2. /\ q \in Request /\ q.proc \in Procs /\ q.route \in Routes /\ q.user \in Viewers
      /\ KeyOf(r) \in Keys
  BY <1>1, InHandFacts DEF Request
<1>3. to \in Request
  <2>1. (IF q.route \in tombstoned THEN "respond" ELSE IF bake THEN "sign" ELSE "register") \in ReqPc
    BY DEF ReqPc
  <2>2. QED
    BY <1>2, <2>1 DEF Request
<1>4. /\ Turn(r, to) /\ layout' = layout
      /\ UNCHANGED <<world, act, ghosts>> /\ UNCHANGED <<impureLayouts, registered, missed>>
      /\ \/ DeleteArtifact(KeyOf(r)) /\ knownImpure' = [knownImpure EXCEPT ![q.proc] = @ \union {q.route}]
         \/ UNCHANGED <<knownImpure, html, json>>
  BY DEF Demote
<1>5. MemoryTypes'
  BY <1>2, <1>4 DEF MemoryTypes, IInv, TypeOK
<1>6. CacheTypes' /\ CachedForAll' /\ Kept'
  <2>1. CASE DeleteArtifact(KeyOf(r))
    BY <1>2, <1>4, <2>1, DeleteKeeps DEF ghosts
  <2>2. CASE UNCHANGED <<html, json>>
    BY <1>4, <2>2 DEF CacheTypes, CachedForAll, Kept, IInv, TypeOK, ghosts
  <2>3. QED
    BY <1>4, <2>1, <2>2
<1>7. bake => /\ q.for \subseteq Readers(Key(q.route, q.user))
              /\ \A l \in Layouts : q.chrome[l] # None => q.chrome[l].for = {}
  <2> SUFFICES ASSUME bake
               PROVE  /\ q.for \subseteq Readers(Key(q.route, q.user))
                      /\ \A l \in Layouts : q.chrome[l] # None => q.chrome[l].for = {}
    OBVIOUS
  <2> HIDE DEF to, q
  <2>1. q.eligible /\ ~q.layoutImpure /\ (q.for = {} \/ q.route \in PerUser)
    BY DEF ShouldBake, Pure, BakesAuto
  <2>2. Made(q) /\ Attributed(q)
    BY <1>1, InHandFacts DEF q
  <2>3. q.for \subseteq Readers(Key(q.route, q.user))
    BY <1>2, <2>1, <2>2, KeyFacts DEF Made
  <2>4. \A l \in Layouts : q.chrome[l] # None => q.chrome[l].for = {}
    BY <1>1, <2>1, <2>2 DEF Made, Attributed, BeforeBake
  <2>5. QED
    BY <2>3, <2>4
<1> HIDE DEF bake
<1>8. RequestOK(to, owed)
  <2>1. Made(to)
    BY <1>1, <1>2, InHandFacts DEF Made, Request, Baking
  <2>2. Attributed(to)
    BY <1>1, <1>2, <1>7 DEF Attributed, Request, Baking, BeforeBake
  <2>3. Seen(to, owed)
    BY <1>1, <1>2, InHandFacts DEF Seen, Made, Request
  <2>4. QED
    BY <2>1, <2>2, <2>3 DEF RequestOK
<1>9. to.pc # "assemble"
  BY <1>2 DEF Request
<1> HIDE DEF to
<1>10. QED
  BY <1>3, <1>4, <1>5, <1>6, <1>8, <1>9, Stepped

LEMMA StoreSnapshotStep ==
  ASSUME IInv, NEW r \in Requests, StoreSnapshot(r)
  PROVE  IInv'
<1> DEFINE q == req[r]
           snap == [data |-> q.data, for |-> q.for, signature |-> q.signature,
                    build |-> release]
           to == [q EXCEPT !.pc = "storeShell"]
<1>1. InFlight(r) /\ q.pc = "storeSnapshot"
  BY DEF StoreSnapshot, InFlight
<1>2. /\ q \in Request /\ KeyOf(r) \in Keys /\ KeyOf(r) = Key(q.route, q.user)
      /\ Made(q) /\ Attributed(q) /\ Seen(q, owed)
  BY <1>1, InHandFacts
<1>3. to \in Request
  BY <1>2 DEF Request, ReqPc
<1>4. /\ Turn(r, to) /\ UNCHANGED <<layout, html>>
      /\ UNCHANGED <<world, act, ghosts>> /\ UNCHANGED memory
      /\ json' = [json EXCEPT ![KeyOf(r)] = snap]
  BY DEF StoreSnapshot
<1>5. MemoryTypes'
  BY <1>4 DEF memory, MemoryTypes, IInv, TypeOK
<1>6. \A k \in Keys : json'[k] = IF k = KeyOf(r) THEN snap ELSE json[k]
  BY <1>2, <1>4 DEF IInv, TypeOK
<1>7. CacheTypes'
  <2>1. snap \in Snapshot
    BY <1>2 DEF Snapshot, Request, IInv, TypeOK
  <2>2. QED
    BY <1>2, <1>4, <2>1 DEF CacheTypes, IInv, TypeOK
<1>8. CachedForAll'
  <2>1. snap.for \subseteq Readers(KeyOf(r))
    BY <1>1, <1>2 DEF Attributed, Baking
  <2>2. QED
    BY <1>4, <1>6, <2>1 DEF CachedForAll, IInv
<1>9. Kept'
  <2>1. \A w \in owed : ActorKey(w) = KeyOf(r) => w \in snap.data
    BY <1>1, <1>2 DEF Seen, Made, Baking
  <2>2. \A w \in owed : ActorKey(w) \in Keys
    BY ActorKeyFacts DEF IInv, TypeOK
  <2>3. QED
    BY <1>4, <1>6, <2>1, <2>2 DEF Kept, IInv, ghosts
<1>10. RequestOK(to, owed)
  <2>1. Made(to)
    BY <1>1, <1>2 DEF Made, Request, Baking
  <2>2. Attributed(to)
    BY <1>1, <1>2 DEF Attributed, Request, Baking, BeforeBake
  <2>3. Seen(to, owed)
    BY <1>1, <1>2 DEF Seen, Request
  <2>4. QED
    BY <2>1, <2>2, <2>3 DEF RequestOK
<1>11. to.pc # "assemble"
  BY <1>2 DEF Request
<1> HIDE DEF to
<1>12. QED
  BY <1>3, <1>4, <1>5, <1>7, <1>8, <1>9, <1>10, <1>11, Stepped

LEMMA StoreShellStep ==
  ASSUME IInv, NEW r \in Requests, StoreShell(r)
  PROVE  IInv'
<1> DEFINE q == req[r]
           shell == [data |-> q.data, for |-> q.for, chrome |-> q.chrome]
           to == [q EXCEPT !.pc = "register", !.signature = NoChrome]
<1>1. InFlight(r) /\ q.pc = "storeShell"
  BY DEF StoreShell, InFlight
<1>2. /\ q \in Request /\ KeyOf(r) \in Keys /\ KeyOf(r) = Key(q.route, q.user)
      /\ KeyOf(r)[1] = q.route
      /\ Made(q) /\ Attributed(q) /\ Seen(q, owed)
  BY <1>1, InHandFacts
<1>3. to \in Request
  BY <1>2 DEF Request, ReqPc, NoChrome, Chromes
<1>4. /\ Turn(r, to) /\ UNCHANGED <<layout, json>>
      /\ UNCHANGED <<world, act, ghosts>> /\ UNCHANGED memory
      /\ html' = [html EXCEPT ![KeyOf(r)] = shell]
  BY DEF StoreShell
<1>5. MemoryTypes'
  BY <1>4 DEF memory, MemoryTypes, IInv, TypeOK
<1>6. \A k \in Keys : html'[k] = IF k = KeyOf(r) THEN shell ELSE html[k]
  BY <1>2, <1>4 DEF IInv, TypeOK
<1>7. CacheTypes'
  <2>1. shell \in Shell
    BY <1>2 DEF Shell, Request
  <2>2. html' \in [Keys -> Shell \union {None}]
    BY <1>2, <1>4, <2>1 DEF IInv, TypeOK
  <2>3. Complete(KeyOf(r)[1], shell.chrome)
    BY <1>1, <1>2 DEF Made, Baking
  <2>4. \A k \in Keys : html'[k] # None => Complete(k[1], html'[k].chrome)
    BY <1>6, <2>3 DEF IInv, TypeOK
  <2>5. QED
    BY <1>4, <2>2, <2>4 DEF CacheTypes, IInv, TypeOK
<1>8. CachedForAll'
  <2>1. /\ shell.for \subseteq Readers(KeyOf(r))
        /\ \A l \in Layouts : shell.chrome[l] # None => shell.chrome[l].for = {}
    BY <1>1, <1>2 DEF Attributed, Baking
  <2>2. QED
    BY <1>4, <1>6, <2>1 DEF CachedForAll, IInv
<1>9. Kept'
  <2>1. \A w \in owed : ActorKey(w) = KeyOf(r) => w \in shell.data
    BY <1>1, <1>2 DEF Seen, Made, Baking
  <2>2. \A w \in owed : ActorKey(w) \in Keys
    BY ActorKeyFacts DEF IInv, TypeOK
  <2>3. QED
    BY <1>4, <1>6, <2>1, <2>2 DEF Kept, IInv, ghosts
<1>10. RequestOK(to, owed)
  <2>1. Made(to)
    BY <1>1, <1>2 DEF Made, Request, Baking
  <2>2. Attributed(to)
    BY <1>2 DEF Attributed, Request, Baking, BeforeBake
  <2>3. Seen(to, owed)
    BY <1>1, <1>2 DEF Seen, Request
  <2>4. QED
    BY <2>1, <2>2, <2>3 DEF RequestOK
<1>11. to.pc # "assemble"
  BY <1>2 DEF Request
<1> HIDE DEF to
<1>12. QED
  BY <1>3, <1>4, <1>5, <1>7, <1>8, <1>9, <1>10, <1>11, Stepped

\* A list is registered, or not.
LEMMA RegisterStep ==
  ASSUME IInv, NEW r \in Requests, NEW l \in AllLists, Register(r, l) \/ RegisterFails(r, l)
  PROVE  IInv'
<1> DEFINE q == req[r]
           to == [q EXCEPT !.unlisted = @ \ {l}]
<1>1. InFlight(r) /\ q.pc = "register"
  BY DEF Register, RegisterFails, InFlight
<1>2. q \in Request /\ q.proc \in Procs /\ q.route \in Routes
  BY <1>1, InHandFacts DEF Request
<1>3. to \in Request
  BY <1>2 DEF Request
<1>4. /\ Turn(r, to) /\ UNCHANGED cached
      /\ UNCHANGED <<world, act, ghosts>> /\ UNCHANGED <<knownImpure, impureLayouts>>
  BY DEF Register, RegisterFails
<1>5. /\ registered' \in [Procs -> [Routes -> SUBSET AllLists]]
      /\ missed' \in [Procs -> [Routes -> SUBSET AllLists]]
  <2>1. /\ registered \in [Procs -> [Routes -> SUBSET AllLists]]
        /\ missed \in [Procs -> [Routes -> SUBSET AllLists]]
    BY DEF IInv, TypeOK
  <2>2. CASE Register(r, l)
    <3>1. /\ registered' = [registered EXCEPT ![q.proc][q.route] = @ \union {l}]
          /\ missed' = [missed EXCEPT ![q.proc][q.route] = @ \ {l}]
      BY <2>2 DEF Register
    <3>2. QED
      BY <1>2, <2>1, <3>1
  <2>3. CASE RegisterFails(r, l)
    <3>1. /\ registered' = registered
          /\ missed' = [missed EXCEPT ![q.proc][q.route] =
                          @ \union ({l} \ registered[q.proc][q.route])]
      BY <2>3 DEF RegisterFails
    <3>2. QED
      BY <1>2, <2>1, <3>1
  <2>4. QED
    BY <2>2, <2>3
<1>6. MemoryTypes'
  BY <1>4, <1>5 DEF MemoryTypes, IInv, TypeOK
<1>7. CacheTypes' /\ CachedForAll' /\ Kept'
  BY <1>4 DEF CacheTypes, CachedForAll, Kept, IInv, TypeOK, ghosts, cached
<1>8. RequestOK(to, owed)
  <2>1. Made(to)
    BY <1>1, <1>2, InHandFacts DEF Made, Request, Baking
  <2>2. Attributed(to)
    BY <1>1, <1>2 DEF Attributed, Request, Baking, BeforeBake
  <2>3. Seen(to, owed)
    BY <1>1, <1>2, InHandFacts DEF Seen, Request
  <2>4. QED
    BY <2>1, <2>2, <2>3 DEF RequestOK
<1>9. to.pc # "assemble"
  BY <1>1, <1>2 DEF Request
<1> HIDE DEF to
<1>10. QED
  BY <1>3, <1>4, <1>6, <1>7, <1>8, <1>9, Stepped

LEMMA RegisteredStep ==
  ASSUME IInv, NEW r \in Requests, Registered(r)
  PROVE  IInv'
<1> DEFINE to == [req[r] EXCEPT !.pc = "respond"]
<1>1. InFlight(r) /\ req[r].pc = "register"
  BY DEF Registered, InFlight
<1>2. req[r] \in Request
  BY <1>1, InHandFacts
<1>3. to \in Request
  BY <1>2 DEF Request, ReqPc
<1>4. RequestOK(to, owed)
  <2>1. Made(to)
    BY <1>1, <1>2, InHandFacts DEF Made, Request, Baking
  <2>2. Attributed(to)
    BY <1>2 DEF Attributed, Request, Baking, BeforeBake
  <2>3. Seen(to, owed)
    BY <1>1, <1>2, InHandFacts DEF Seen, Made, Baking, Request
  <2>4. QED
    BY <2>1, <2>2, <2>3 DEF RequestOK
<1>5. Turn(r, to) /\ UNCHANGED <<world, act, cached, memory, ghosts>>
  BY DEF Registered
<1>6. to.pc # "assemble"
  BY <1>2 DEF Request
<1> HIDE DEF to
<1>7. QED
  BY <1>3, <1>4, <1>5, <1>6, Turned

-----------------------------------------------------------------------------
(* The steps of actions and of the world.                                  *)

\* A step that leaves the requests alone.
LEMMA AroundKeeps ==
  ASSUME IInv, UNCHANGED req, UNCHANGED memory, CacheTypes', CachedForAll', Kept',
         regime' = regime, release' = release, varies' \subseteq Loaders,
         tombstoned' \subseteq Routes,
         act' \in [Writes -> ActPc], owed' \subseteq Writes, ordered' \in 0..MaxRelease,
         changes' \in 0..MaxChanges, crashes' = crashes,
         \A r \in Requests : InFlight(r) => Seen(req[r], owed')
  PROVE  IInv'
<1>1. TypeOK'
  BY DEF IInv, TypeOK, CacheTypes, memory
<1>2. \A r \in Requests : RequestOK(req[r], owed')
  BY DEF IInv, RequestsOK, RequestOK, InFlight
<1>3. RequestsOK'
  BY <1>2 DEF RequestsOK
<1>4. QED
  BY <1>1, <1>3 DEF IInv

\* The request of a process that goes is gone; the others know what they knew.
LEMMA RestartKeeps ==
  ASSUME IInv, NEW P \in SUBSET Procs, Restarted(P), UNCHANGED <<act, cached, ghosts>>,
         regime' = regime, release' \in Releases, varies' = varies, changes' = changes,
         tombstoned' = tombstoned,
         crashes' \in 0..MaxCrashes
  PROVE  IInv'
<1>1. \A r \in Requests :
        \/ req'[r] = Vacant
        \/ (req'[r] = req[r] /\ InFlight(r) /\ req[r].proc \in Procs \ P)
  <2>1. ASSUME NEW r \in Requests, InFlight(r) PROVE req[r].proc \in Procs
    BY <2>1, FlightFacts DEF IInv, Request
  <2>2. \A r \in Requests : req'[r] = IF InFlight(r) /\ req[r].proc \notin P
                                       THEN req[r] ELSE Vacant
    BY DEF Restarted, InFlight
  <2>3. QED
    BY <2>1, <2>2
<1>2. MemoryTypes'
  BY DEF Restarted, MemoryTypes, Fresh, IInv, TypeOK
<1>3. TypeOK'
  <2>1. req' \in [Requests -> Request \union {Vacant}]
    BY DEF Restarted, IInv, TypeOK
  <2>2. \A r \in Requests : req'[r].pc = "assemble" => Complete(req'[r].route, req'[r].chrome)
    BY <1>1 DEF Vacant, IInv, TypeOK
  <2>3. CacheTypes'
    BY DEF CacheTypes, IInv, TypeOK, cached
  <2>4. QED
    BY <1>2, <2>1, <2>2, <2>3 DEF MemoryTypes, CacheTypes, IInv, TypeOK, ghosts
<1>4. CachedForAll' /\ Kept'
  BY DEF CachedForAll, Kept, IInv, cached, ghosts
<1>5. ASSUME NEW r \in Requests PROVE RequestOK(req'[r], owed')
  <2>1. CASE req'[r] = Vacant
    BY <2>1 DEF RequestOK, Vacant
  <2>2. CASE req'[r] = req[r] /\ req[r].proc \in Procs \ P
    BY <2>2 DEF IInv, RequestsOK, RequestOK, ghosts
  <2>3. QED
    BY <1>1, <2>1, <2>2
<1>6. QED
  BY <1>3, <1>4, <1>5 DEF IInv, RequestsOK

\* The actions of the application.
LEMMA ActionSteps ==
  ASSUME IInv, NEW w \in Writes, RunAction(w) \/ InvalidateActor(w) \/ ActionFails(w)
  PROVE  IInv'
<1>1. act' \in [Writes -> ActPc] /\ \A v \in Writes : act[v] = "done" => act'[v] = "done"
  BY DEF RunAction, InvalidateActor, ActionFails, ActPc, IInv, TypeOK
<1>2. /\ UNCHANGED req /\ UNCHANGED memory /\ layout' = layout /\ ordered' = ordered
      /\ UNCHANGED world
  BY DEF RunAction, InvalidateActor, ActionFails, cached, ghosts
<1>3. ActorKey(w) \in Keys /\ \A v \in owed : v \in Writes /\ ActorKey(v) \in Keys
  BY ActorKeyFacts DEF IInv, TypeOK
<1>4. \/ UNCHANGED <<html, json>>
      \/ Actor[w][2] \in PerUser /\ DeleteArtifact(ActorKey(w))
  BY DEF RunAction, InvalidateActor, ActionFails, cached
<1>5. /\ html' \in [Keys -> Shell \union {None}] /\ json' \in [Keys -> Snapshot \union {None}]
      /\ \A key \in Keys : html'[key] \in {None, html[key]} /\ json'[key] \in {None, json[key]}
  BY <1>3, <1>4, DeletedFacts DEF IInv, TypeOK
<1>6. CacheTypes'
  <2>1. \A k \in Keys : html'[k] # None => Complete(k[1], html'[k].chrome)
    BY <1>5 DEF IInv, TypeOK
  <2>2. QED
    BY <1>2, <1>5, <2>1 DEF CacheTypes, IInv, TypeOK
<1>7. CachedForAll'
  BY <1>2, <1>5 DEF CachedForAll, IInv
<1>8. \/ owed' = owed
      \/ /\ InvalidateActor(w) /\ owed' = owed \union {w}
         /\ Promised(w, html'[ActorKey(w)], json'[ActorKey(w)])
  BY DEF RunAction, InvalidateActor, ActionFails, ghosts
<1>9. Kept'
  <2>1. \A v \in owed : /\ act'[v] = "done" /\ Actor[v][2] \in PerUser
                        /\ html'[ActorKey(v)] # None => v \in html'[ActorKey(v)].data
                        /\ json'[ActorKey(v)] # None => v \in json'[ActorKey(v)].data
    BY <1>1, <1>3, <1>5 DEF IInv, Kept
  <2>2. CASE owed' = owed
    BY <2>1, <2>2 DEF Kept
  <2>3. CASE /\ InvalidateActor(w) /\ owed' = owed \union {w}
             /\ Promised(w, html'[ActorKey(w)], json'[ActorKey(w)])
    <3>1. /\ act'[w] = "done" /\ Actor[w][2] \in PerUser
          /\ html'[ActorKey(w)] = None /\ json'[ActorKey(w)] = None
      BY <2>3 DEF InvalidateActor, Promised, IInv, TypeOK
    <3>2. QED
      BY <2>1, <2>3, <3>1 DEF Kept
  <2>4. QED
    BY <1>8, <2>2, <2>3
<1>10. ASSUME NEW r \in Requests, InFlight(r) PROVE Seen(req[r], owed')
  <2>1. Seen(req[r], owed) /\ KeyOf(r) = Key(req[r].route, req[r].user)
    BY <1>10, InHandFacts
  <2>2. CASE owed' = owed
    BY <2>1, <2>2
  <2>3. CASE owed' = owed \union {w} /\ Promised(w, html'[ActorKey(w)], json'[ActorKey(w)])
    <3>1. ActorKey(w) = Key(req[r].route, req[r].user) => Reflects(req[r], w)
      BY <1>10, <2>1, <2>3 DEF Promised
    <3>2. QED
      BY <2>1, <2>3, <3>1 DEF Seen, Reflects
  <2>4. QED
    BY <1>8, <2>2, <2>3
<1>11. owed' \subseteq Writes
  BY <1>8 DEF IInv, TypeOK
<1>12. /\ regime' = regime /\ release' = release /\ varies' \subseteq Loaders
       /\ tombstoned' \subseteq Routes
       /\ ordered' \in 0..MaxRelease /\ changes' \in 0..MaxChanges /\ crashes' = crashes
  BY <1>2 DEF world, IInv, TypeOK
<1>13. QED
  BY <1>1, <1>2, <1>6, <1>7, <1>9, <1>10, <1>11, <1>12, AroundKeeps

\* Layouts and artifacts are deleted, and what a loader reads changes.
LEMMA AroundSteps ==
  ASSUME IInv,
         \/ \E l \in Layouts : DeleteLayout(l)
         \/ \E x \in Loaders : Change(x)
         \/ \E key \in Keys : Purge(key)
         \/ \E k \in Routes : Tombstone(k)
  PROVE  IInv'
<1>0. /\ UNCHANGED <<regime, release, crashes>> /\ UNCHANGED <<act, owed, req>>
      /\ UNCHANGED memory
  BY DEF DeleteLayout, Change, Purge, Tombstone, world, ghosts
<1>1. /\ act' \in [Writes -> ActPc] /\ owed' \subseteq Writes
      /\ \A r \in Requests : InFlight(r) => Seen(req[r], owed')
  BY <1>0, InHandFacts DEF IInv, TypeOK
<1>2. CASE \E l \in Layouts : DeleteLayout(l)
  <2>1. PICK l \in Layouts : DeleteLayout(l)
    BY <1>2
  <2>2. /\ layout' = layout \/ layout' = [layout EXCEPT ![l] = None]
        /\ UNCHANGED <<html, json>> /\ UNCHANGED <<varies, tombstoned, changes>>
    <3>1. PICK left \in Left(layout[l]) : layout' = [layout EXCEPT ![l] = left]
      BY <2>1 DEF DeleteLayout
    <3>2. left \in {None, layout[l]} /\ layout \in Chromes
      BY <3>1 DEF Left, IInv, TypeOK
    <3>3. layout' = layout \/ layout' = [layout EXCEPT ![l] = None]
      BY <3>1, <3>2 DEF Chromes
    <3>4. QED
      BY <2>1, <3>3 DEF DeleteLayout, world
  <2>3. ordered' \in 0..MaxRelease
    BY <2>1, PageServeAssumption DEF DeleteLayout, Releases, IInv, TypeOK
  <2>4. CacheTypes' /\ CachedForAll'
    BY <2>2 DEF CacheTypes, CachedForAll, Chromes, IInv, TypeOK
  <2>5. Kept'
    BY <1>0, <2>2 DEF Kept, IInv
  <2>6. varies' \subseteq Loaders /\ tombstoned' \subseteq Routes /\ changes' \in 0..MaxChanges
    BY <2>2 DEF IInv, TypeOK
  <2>7. QED
    BY <1>0, <1>1, <2>3, <2>4, <2>5, <2>6, AroundKeeps
<1>3. CASE \E x \in Loaders : Change(x)
  <2>1. PICK x \in Loaders : Change(x)
    BY <1>3
  <2>2. UNCHANGED cached /\ ordered' = ordered
    BY <2>1 DEF Change, ghosts
  <2>3. varies' \subseteq Loaders /\ tombstoned' \subseteq Routes
    BY <2>1 DEF Change, IInv, TypeOK
  <2>4. changes' \in 0..MaxChanges
    BY <2>1, PageServeAssumption DEF Change, IInv, TypeOK
  <2>5. CacheTypes' /\ CachedForAll' /\ Kept' /\ ordered' \in 0..MaxRelease
    BY <1>0, <2>2 DEF CacheTypes, CachedForAll, Kept, cached, IInv, TypeOK
  <2>6. QED
    BY <1>0, <1>1, <2>3, <2>4, <2>5, AroundKeeps
<1>4. CASE \E key \in Keys : Purge(key)
  <2>1. PICK key \in Keys : Purge(key)
    BY <1>4
  <2>2. /\ DeleteArtifact(key) /\ layout' = layout /\ ordered' = ordered
        /\ UNCHANGED <<varies, tombstoned, changes>>
    BY <2>1 DEF Purge, ghosts, world
  <2>3. CacheTypes' /\ CachedForAll' /\ Kept'
    BY <1>0, <2>2, DeleteKeeps
  <2>4. /\ varies' \subseteq Loaders /\ tombstoned' \subseteq Routes /\ changes' \in 0..MaxChanges
        /\ ordered' \in 0..MaxRelease
    BY <2>2 DEF IInv, TypeOK
  <2>5. QED
    BY <1>0, <1>1, <2>3, <2>4, AroundKeeps
<1>5. CASE \E k \in Routes : Tombstone(k)
  <2>1. PICK k \in Routes : Tombstone(k)
    BY <1>5
  <2>2. <<k, None>> \in Keys
    <3>1. k \notin PerUser /\ Anonymous \in Viewers
      BY <2>1 DEF Tombstone, Viewers
    <3>2. Key(k, Anonymous) = <<k, None>>
      BY DEF Key
    <3>3. QED
      BY <3>1, <3>2 DEF Keys
  <2>3. /\ DeleteArtifact(<<k, None>>) /\ layout' = layout /\ ordered' = ordered
        /\ UNCHANGED <<varies, changes>> /\ tombstoned' = tombstoned \union {k}
    BY <2>1 DEF Tombstone, ghosts
  <2>4. CacheTypes' /\ CachedForAll' /\ Kept'
    BY <1>0, <2>2, <2>3, DeleteKeeps
  <2>5. /\ varies' \subseteq Loaders /\ tombstoned' \subseteq Routes /\ changes' \in 0..MaxChanges
        /\ ordered' \in 0..MaxRelease
    BY <2>3 DEF IInv, TypeOK
  <2>6. QED
    BY <1>0, <1>1, <2>4, <2>5, AroundKeeps
<1>6. QED
  BY <1>2, <1>3, <1>4, <1>5

\* A deploy replaces every process, a crash one.
LEMMA RestartSteps ==
  ASSUME IInv, Deploy \/ \E p \in Procs : Crash(p)
  PROVE  IInv'
<1>1. CASE Deploy
  <2>1. release' \in Releases
    BY <1>1, PageServeAssumption DEF Deploy, Releases, IInv, TypeOK
  <2>2. QED
    BY <1>1, <2>1, RestartKeeps DEF Deploy, IInv, TypeOK
<1>2. CASE \E p \in Procs : Crash(p)
  <2>1. PICK p \in Procs : Crash(p)
    BY <1>2
  <2>2. crashes' \in 0..MaxCrashes
    BY <2>1, PageServeAssumption DEF Crash, IInv, TypeOK
  <2>3. QED
    BY <2>1, <2>2, RestartKeeps DEF Crash, IInv, TypeOK
<1>3. QED
  BY <1>1, <1>2

-----------------------------------------------------------------------------
(* The invariant, and what follows from it.                                *)

\* The initial states satisfy the inductive invariant.
LEMMA InitIInv == Init => IInv
<1> SUFFICES ASSUME Init PROVE IInv
  OBVIOUS
<1>1. TypeOK
  <2>1. layout \in Chromes
    BY DEF Init, Chromes, NoChrome
  <2>2. /\ knownImpure \in [Procs -> SUBSET Routes]
        /\ impureLayouts \in [Procs -> [Routes -> SUBSET Layouts]]
        /\ registered \in [Procs -> [Routes -> SUBSET AllLists]]
        /\ missed \in [Procs -> [Routes -> SUBSET AllLists]]
    BY DEF Init, Fresh
  <2>3. req \in [Requests -> Request \union {Vacant}]
        /\ \A r \in Requests : req[r].pc # "assemble"
    BY DEF Init, Vacant
  <2>4. release \in Releases /\ ordered \in 0..MaxRelease /\ changes \in 0..MaxChanges
        /\ crashes \in 0..MaxCrashes
    BY PageServeAssumption DEF Init, Releases
  <2>5. /\ html \in [Keys -> Shell \union {None}] /\ \A key \in Keys : html[key] = None
        /\ json \in [Keys -> Snapshot \union {None}]
        /\ act \in [Writes -> ActPc]
    BY DEF Init, ActPc
  <2>6. QED
    BY <2>1, <2>2, <2>3, <2>4, <2>5 DEF Init, TypeOK
<1>2. CachedForAll
  BY DEF Init, CachedForAll, NoChrome
<1>3. Kept
  BY DEF Init, Kept
<1>4. RequestsOK
  BY DEF Init, RequestsOK, RequestOK, Vacant
<1>5. QED
  BY <1>1, <1>2, <1>3, <1>4 DEF IInv

\* Every step keeps the invariant.
LEMMA StepIInv == IInv /\ [Next]_vars => IInv'
<1> SUFFICES ASSUME IInv, [Next]_vars PROVE IInv'
  OBVIOUS
<1>1. ASSUME NEW r \in Requests, NEW p \in Procs, NEW k \in Routes, NEW u \in Viewers,
             Arrive(r, p, k, u)
      PROVE  IInv'
  BY <1>1, ArriveStep
<1>2. ASSUME NEW r \in Requests, Lookup(r) PROVE IInv'
  BY <1>2, ReadShellStep, ReadSnapshotStep, CheckStep, DropStep, ServeStep DEF Lookup
<1>3. ASSUME NEW r \in Requests, Render(r) PROVE IInv'
  BY <1>3, LoadPageStep, AssembleStep, VacantStep, LayoutStep, StoreLayoutStep DEF Render
<1>4. ASSUME NEW r \in Requests, WriteBack(r) PROVE IInv'
  BY <1>4, DemoteStep, SignStep, StoreSnapshotStep, StoreShellStep, RegisterStep,
     RegisteredStep, VacantStep DEF WriteBack
<1>5. ASSUME NEW w \in Writes, RunAction(w) \/ InvalidateActor(w) \/ ActionFails(w)
      PROVE  IInv'
  BY <1>5, ActionSteps
<1>6. CASE \/ \E l \in Layouts : DeleteLayout(l)
           \/ \E x \in Loaders : Change(x)
           \/ \E key \in Keys : Purge(key)
           \/ \E k \in Routes : Tombstone(k)
  BY <1>6, AroundSteps
<1>7. CASE Deploy \/ \E p \in Procs : Crash(p)
  BY <1>7, RestartSteps
<1>8. CASE UNCHANGED vars
  <2>1. UNCHANGED <<world, act, cached, memory, req, ghosts>>
    BY <1>8 DEF vars
  <2>2. TypeOK'
    BY <2>1 DEF IInv, TypeOK, world, cached, memory, ghosts
  <2>3. CachedForAll' /\ Kept' /\ RequestsOK'
    BY <2>1 DEF IInv, CachedForAll, Kept, RequestsOK, cached, memory, ghosts
  <2>4. QED
    BY <2>2, <2>3 DEF IInv
<1>9. QED
  BY <1>1, <1>2, <1>3, <1>4, <1>5, <1>6, <1>7, <1>8 DEF Next

\* The inductive invariant holds.
LEMMA Invariance == Spec => []IInv
<1>1. QED
  BY InitIInv, StepIInv, PTL DEF Spec

\* The types of the cache and of the requests: a shell in the cache has all its
\* layouts, and a page is assembled of all of them.
THEOREM TypeCorrect == Spec => []TypeOK
<1>1. IInv => TypeOK
  BY DEF IInv
<1>2. QED
  BY <1>1, Invariance, PTL

\* Nothing in the cache is specific to anybody but the reader of its key.
THEOREM CacheIsShared == Spec => []CachedForAll
<1>1. IInv => CachedForAll
  BY DEF IInv
<1>2. QED
  BY <1>1, Invariance, PTL

\* An actor of a per-user page sees the write it was answered for, on every
\* later request, whatever else runs, fails or crashes: if its artifact was
\* deleted then, and no request for it under way had rendered or read it before
\* the write (Promised).
THEOREM ActorsSeeTheirWrites == Spec => []ActorSeesOwnWrite
<1>1. IInv => ActorSeesOwnWrite
  <2> SUFFICES ASSUME IInv, NEW r \in Requests, req[r].pc = "respond", NEW w \in req[r].floor
               PROVE  w \in req[r].data
    BY DEF ActorSeesOwnWrite
  <2>1. Seen(req[r], owed)
    BY InHandFacts DEF InFlight
  <2>2. w \in owed /\ Actor[w] = <<req[r].user, req[r].route>>
    BY <2>1 DEF Seen
  <2>3. ActorKey(w) = Key(req[r].route, req[r].user)
    BY <2>2 DEF ActorKey
  <2>4. QED
    BY <2>1, <2>2, <2>3 DEF Seen
<1>2. QED
  BY <1>1, Invariance, PTL

-----------------------------------------------------------------------------
(* The lists of an answer.                                                 *)
(*                                                                         *)
(* A request that has rendered a page registers its lists one by one, and  *)
(* another is answered from the cache as soon as there is one: the others  *)
(* are then still with the request that registered it, or are registered,  *)
(* or have failed.                                                         *)

Taken(reg, mis, p, k, l) == l \in reg[p][k] \union mis[p][k]

Waits(reqs, p, k, l) ==
  \E t \in Requests : /\ reqs[t].pc = "register" /\ reqs[t].proc = p /\ reqs[t].route = k
                      /\ l \in reqs[t].unlisted

Tried(reg, mis, reqs, p, k, l) == Taken(reg, mis, p, k, l) \/ Waits(reqs, p, k, l)

Listed(reg, mis, tomb, reqs, q) ==
  /\ q.pc \notin {"idle", "register", "respond"} => q.unlisted = ToRegister(q.route, q.user)
  /\ q.pc = "register" =>
       /\ q.unlisted \subseteq ToRegister(q.route, q.user)
       /\ \A l \in ToRegister(q.route, q.user) :
            l \in q.unlisted \/ Taken(reg, mis, q.proc, q.route, l)
  /\ q.pc = "respond" /\ Key(q.route, q.user)[2] = None /\ q.route \notin tomb =>
       \A l \in Lists[q.route] : Tried(reg, mis, reqs, q.proc, q.route, l)

\* One registered list stands for all of them.
OneForAll(reg, mis, reqs) ==
  \A p \in Procs, k \in Routes :
    reg[p][k] # {} => \A l \in Lists[k] : Tried(reg, mis, reqs, p, k, l)

AllListed(reg, mis, tomb, reqs) ==
  /\ OneForAll(reg, mis, reqs)
  /\ \A r \in Requests : Listed(reg, mis, tomb, reqs, reqs[r])

LInv == AllListed(registered, missed, tombstoned, req)

\* Who carries a request.
Carried(reqs) ==
  \A t \in Requests : reqs[t].pc # "idle" => reqs[t].proc \in Procs /\ reqs[t].route \in Routes

\* What was registered or missed stays so, and the first list that a process
\* registers of a page finds all of them attempted.
Onward(reg, mis, reg2, mis2, reqs2) ==
  \A p \in Procs, k \in Routes :
    /\ \A l : Taken(reg, mis, p, k, l) => Taken(reg2, mis2, p, k, l)
    /\ reg2[p][k] # {} =>
         reg[p][k] # {} \/ \A l \in Lists[k] : Tried(reg2, mis2, reqs2, p, k, l)

\* The step of one request, if it loses no list: what it was to register still
\* is or has been.
LEMMA MovesListed ==
  ASSUME NEW reg, NEW mis, NEW tomb, NEW reqs, NEW reg2, NEW mis2, NEW tomb2, NEW reqs2,
         NEW r \in Requests,
         AllListed(reg, mis, tomb, reqs), Carried(reqs), tomb \subseteq tomb2,
         \A t \in Requests \ {r} : reqs2[t] = reqs[t],
         Onward(reg, mis, reg2, mis2, reqs2),
         reqs[r].pc = "register" => \A l \in reqs[r].unlisted :
           Tried(reg2, mis2, reqs2, reqs[r].proc, reqs[r].route, l),
         Listed(reg2, mis2, tomb2, reqs2, reqs2[r])
  PROVE  AllListed(reg2, mis2, tomb2, reqs2)
<1>1. ASSUME NEW p \in Procs, NEW k \in Routes, NEW l, Tried(reg, mis, reqs, p, k, l)
      PROVE  Tried(reg2, mis2, reqs2, p, k, l)
  <2>1. CASE Taken(reg, mis, p, k, l)
    BY <2>1 DEF Tried, Onward
  <2>2. CASE Waits(reqs, p, k, l)
    <3>1. PICK t \in Requests : /\ reqs[t].pc = "register" /\ reqs[t].proc = p /\ reqs[t].route = k
                               /\ l \in reqs[t].unlisted
      BY <2>2 DEF Waits
    <3>2. CASE t = r
      BY <3>1, <3>2
    <3>3. CASE t # r
      BY <3>1, <3>3 DEF Tried, Waits
    <3>4. QED
      BY <3>2, <3>3
  <2>3. QED
    BY <1>1, <2>1, <2>2 DEF Tried
<1>2. OneForAll(reg2, mis2, reqs2)
  BY <1>1 DEF AllListed, OneForAll, Onward
<1>3. ASSUME NEW t \in Requests, t # r
      PROVE  Listed(reg2, mis2, tomb2, reqs2, reqs[t])
  <2>1. /\ Listed(reg, mis, tomb, reqs, reqs[t])
        /\ reqs[t].pc # "idle" => reqs[t].proc \in Procs /\ reqs[t].route \in Routes
    BY DEF AllListed, Carried
  <2>2. QED
    BY <1>1, <2>1 DEF Listed, Onward
<1>4. QED
  BY <1>2, <1>3 DEF AllListed

\* The lists of a page are lists, and a request is carried by a process.
LEMMA RequestListed ==
  ASSUME IInv, LInv, NEW r \in Requests, InFlight(r)
  PROVE  /\ req[r] \in Request /\ req[r].proc \in Procs /\ req[r].route \in Routes
         /\ Listed(registered, missed, tombstoned, req, req[r])
  BY FlightFacts DEF IInv, LInv, AllListed, Request

LEMMA AllCarried == IInv => Carried(req)
  BY FlightFacts DEF IInv, Carried, Request, InFlight

\* A request moves, and none of its lists is being registered.
LEMMA TurnsListed ==
  ASSUME IInv, LInv, NEW r \in Requests, req[r].pc # "register",
         NEW to, req'[r] = to, \A t \in Requests \ {r} : req'[t] = req[t],
         UNCHANGED <<registered, missed, tombstoned>>,
         to.pc \notin {"idle", "respond"} => to.unlisted = ToRegister(to.route, to.user),
         to.pc = "respond" /\ Key(to.route, to.user)[2] = None /\ to.route \notin tombstoned
           => /\ to.proc \in Procs /\ to.route \in Routes
              /\ \A l \in Lists[to.route] : Tried(registered, missed, req, to.proc, to.route, l)
  PROVE  LInv'
<1>1. \A p, k, l : Tried(registered, missed, req, p, k, l) => Tried(registered, missed, req', p, k, l)
  BY DEF Tried, Waits
<1>2. Listed(registered, missed, tombstoned, req', to)
  BY <1>1 DEF Listed
<1>3. AllListed(registered, missed, tombstoned, req')
  BY <1>2, MovesListed, AllCarried DEF LInv, Onward
<1>4. QED
  BY <1>3 DEF LInv

\* The steps of a request up to the registration of its lists.
LEMMA LookupListed ==
  ASSUME IInv, LInv, NEW r \in Requests,
         ReadShell(r) \/ ReadSnapshot(r) \/ Check(r) \/ Drop(r)
  PROVE  LInv'
<1> DEFINE q == req[r]
<1>1. InFlight(r) /\ q.pc \in {"shell", "snapshot", "check", "drop"}
  BY DEF ReadShell, ReadSnapshot, Check, Drop, InFlight
<1>2. q \in Request /\ q.unlisted = ToRegister(q.route, q.user)
  BY <1>1, RequestListed DEF Listed
<1>3. UNCHANGED <<registered, missed, tombstoned>>
  BY DEF ReadShell, ReadSnapshot, Check, Drop, memory, world
<1>4. /\ \A t \in Requests \ {r} : req'[t] = req[t]
      /\ req'[r].pc \notin {"idle", "respond"}
      /\ req'[r].unlisted = q.unlisted /\ req'[r].route = q.route /\ req'[r].user = q.user
  <2>1. CASE ReadShell(r)
    BY <1>2, <2>1 DEF ReadShell, Turn, Request, IInv, TypeOK
  <2>2. CASE ReadSnapshot(r)
    BY <1>2, <2>2 DEF ReadSnapshot, Turn, Request, IInv, TypeOK
  <2>3. CASE Check(r)
    BY <1>2, <2>3 DEF Check, Turn, Request, IInv, TypeOK
  <2>4. CASE Drop(r)
    BY <1>2, <2>4 DEF Drop, Turn, Request, IInv, TypeOK
  <2>5. QED
    BY <2>1, <2>2, <2>3, <2>4
<1>5. QED
  BY <1>1, <1>2, <1>3, <1>4, TurnsListed

LEMMA RenderListed ==
  ASSUME IInv, LInv, NEW r \in Requests,
         \/ LoadPage(r) \/ Assemble(r)
         \/ \E l \in Layouts : ReuseLayout(r, l) \/ BakeLayout(r, l) \/ StoreLayout(r, l)
  PROVE  LInv'
<1> DEFINE q == req[r]
<1>1. InFlight(r) /\ q.pc = "load"
  BY DEF LoadPage, Assemble, ReuseLayout, BakeLayout, StoreLayout, Rendering, InFlight
<1>2. q \in Request /\ q.unlisted = ToRegister(q.route, q.user)
  BY <1>1, RequestListed DEF Listed
<1>3. UNCHANGED <<registered, missed, tombstoned>>
  BY DEF LoadPage, Assemble, ReuseLayout, BakeLayout, StoreLayout, memory, world
<1>4. /\ \A t \in Requests \ {r} : req'[t] = req[t]
      /\ req'[r].pc \notin {"idle", "respond"}
      /\ req'[r].unlisted = q.unlisted /\ req'[r].route = q.route /\ req'[r].user = q.user
  <2>1. CASE LoadPage(r)
    BY <1>1, <1>2, <2>1 DEF LoadPage, Turn, Request, IInv, TypeOK
  <2>2. CASE Assemble(r)
    BY <1>2, <2>2 DEF Assemble, Turn, Request, IInv, TypeOK
  <2>3. ASSUME NEW l \in Layouts, ReuseLayout(r, l) \/ BakeLayout(r, l) \/ StoreLayout(r, l)
        PROVE  \E c, s, i : Turn(r, [q EXCEPT !.chrome[l] = c, !.unstored = s, !.layoutImpure = i])
    <3>1. CASE ReuseLayout(r, l)
      <4>1. Turn(r, [q EXCEPT !.chrome[l] = layout[l], !.unstored = @, !.layoutImpure = @])
        BY <1>2, <3>1 DEF ReuseLayout, Request, Chromes, Turn
      <4>2. QED
        BY <4>1
    <3>2. CASE BakeLayout(r, l)
      <4>1. Turn(r, [q EXCEPT !.chrome[l] = [by |-> release, for |-> Personal(l, q.user)],
                              !.unstored = @ \union {l}, !.layoutImpure = @])
        BY <1>2, <3>2 DEF BakeLayout, Request, Chromes, Turn
      <4>2. QED
        BY <4>1
    <3>3. CASE StoreLayout(r, l)
      <4>1. PICK i : Turn(r, [q EXCEPT !.unstored = @ \ {l}, !.layoutImpure = i])
        BY <3>3 DEF StoreLayout
      <4>2. q.chrome = [q.chrome EXCEPT ![l] = @]
        BY <1>2 DEF Request, Chromes
      <4>3. [q EXCEPT !.unstored = @ \ {l}, !.layoutImpure = i]
              = [q EXCEPT !.chrome[l] = @, !.unstored = @ \ {l}, !.layoutImpure = i]
        BY <1>2, <4>2 DEF Request
      <4>4. QED
        BY <4>1, <4>3
    <3>4. QED
      BY <2>3, <3>1, <3>2, <3>3
  <2>4. ASSUME NEW l \in Layouts, NEW c, NEW s, NEW i,
               Turn(r, [q EXCEPT !.chrome[l] = c, !.unstored = s, !.layoutImpure = i])
        PROVE  /\ \A t \in Requests \ {r} : req'[t] = req[t]
               /\ req'[r].pc = "load" /\ req'[r].unlisted = q.unlisted
               /\ req'[r].route = q.route /\ req'[r].user = q.user
    BY <1>1, <1>2, <2>4 DEF Turn, Request, IInv, TypeOK
  <2>5. QED
    BY <2>1, <2>2, <2>3, <2>4
<1>5. QED
  BY <1>1, <1>2, <1>3, <1>4, TurnsListed

\* A tombstoned page is answered without its lists.
LEMMA WritesListed ==
  ASSUME IInv, LInv, NEW r \in Requests,
         Demote(r) \/ Sign(r) \/ StoreSnapshot(r) \/ StoreShell(r)
  PROVE  LInv'
<1> DEFINE q == req[r]
<1>1. InFlight(r) /\ q.pc \in {"assemble", "sign", "storeSnapshot", "storeShell"}
  BY DEF Demote, Sign, StoreSnapshot, StoreShell, InFlight
<1>2. q \in Request /\ q.unlisted = ToRegister(q.route, q.user)
  BY <1>1, RequestListed DEF Listed
<1>3. UNCHANGED <<registered, missed, tombstoned>>
  BY DEF Demote, Sign, StoreSnapshot, StoreShell, memory, world
<1>4. /\ \A t \in Requests \ {r} : req'[t] = req[t]
      /\ req'[r].pc # "idle" /\ (req'[r].pc = "respond" => q.route \in tombstoned)
      /\ req'[r].unlisted = q.unlisted /\ req'[r].route = q.route /\ req'[r].user = q.user
  <2>1. CASE Demote(r)
    <3>1. req' = [req EXCEPT ![r] =
                   [q EXCEPT !.pc = IF q.route \in tombstoned THEN "respond"
                                    ELSE IF ShouldBake(q) THEN "sign" ELSE "register",
                             !.eligible = FALSE, !.layoutImpure = FALSE]]
      BY <2>1 DEF Demote, Turn
    <3>2. QED
      BY <1>2, <3>1 DEF Request, IInv, TypeOK
  <2>2. CASE Sign(r)
    BY <1>2, <2>2 DEF Sign, Turn, Request, IInv, TypeOK
  <2>3. CASE StoreSnapshot(r)
    BY <1>2, <2>3 DEF StoreSnapshot, Turn, Request, IInv, TypeOK
  <2>4. CASE StoreShell(r)
    BY <1>2, <2>4 DEF StoreShell, Turn, Request, IInv, TypeOK
  <2>5. QED
    BY <1>1, <2>1, <2>2, <2>3, <2>4
<1>5. QED
  BY <1>1, <1>2, <1>3, <1>4, TurnsListed

LEMMA ArriveListed ==
  ASSUME IInv, LInv, NEW r \in Requests, NEW p \in Procs, NEW k \in Routes, NEW u \in Viewers,
         Arrive(r, p, k, u)
  PROVE  LInv'
<1> DEFINE to == NewRequest(p, k, u)
<1>1. /\ to.pc \in {"shell", "load"} /\ to.route = k /\ to.user = u
      /\ to.unlisted = ToRegister(k, u)
  BY DEF NewRequest
<1>2. /\ UNCHANGED <<registered, missed, tombstoned>> /\ req[r].pc # "register"
      /\ req'[r] = to /\ \A t \in Requests \ {r} : req'[t] = req[t]
  BY DEF Arrive, InFlight, memory, world, Turn, IInv, TypeOK
<1> HIDE DEF to
<1>3. QED
  BY <1>1, <1>2, TurnsListed

\* A page is served from the cache by a process that has registered a list of it.
LEMMA ServeListed ==
  ASSUME IInv, LInv, NEW r \in Requests, Serve(r)
  PROVE  LInv'
<1> DEFINE q == req[r]
<1>1. InFlight(r) /\ q.pc = "serve"
  BY DEF Serve, InFlight
<1>2. /\ q \in Request /\ q.unlisted = ToRegister(q.route, q.user)
      /\ q.proc \in Procs /\ q.route \in Routes
  BY <1>1, RequestListed DEF Listed
<1>3. UNCHANGED <<registered, missed, tombstoned>>
  BY DEF Serve, memory, world
<1>4. Served(q.proc, q.route)
        => \A l \in Lists[q.route] : Tried(registered, missed, req, q.proc, q.route, l)
  BY <1>2 DEF Served, LInv, AllListed, OneForAll
<1>5. /\ \A t \in Requests \ {r} : req'[t] = req[t]
      /\ req'[r].pc \in {"load", "respond"}
      /\ req'[r].pc = "respond" => Served(q.proc, q.route)
      /\ req'[r].unlisted = q.unlisted
      /\ req'[r].route = q.route /\ req'[r].user = q.user /\ req'[r].proc = q.proc
  BY <1>2 DEF Serve, Turn, Request, IInv, TypeOK
<1>6. QED
  BY <1>1, <1>2, <1>3, <1>4, <1>5, TurnsListed

\* The answer is out, or there is none; what was still to be registered then is
\* missed.
LEMMA VacantListed ==
  ASSUME IInv, LInv, NEW r \in Requests, Throws(r) \/ Respond(r)
  PROVE  LInv'
<1> DEFINE q == req[r]
<1>1. /\ InFlight(r) /\ Turn(r, Vacant) /\ tombstoned' = tombstoned /\ registered' = registered
  BY DEF Throws, Respond, Rendering, InFlight, world, memory
<1>2. req'[r] = Vacant /\ \A t \in Requests \ {r} : req'[t] = req[t]
  BY <1>1 DEF Turn, IInv, TypeOK
<1>3. q.proc \in Procs /\ q.route \in Routes /\ missed \in [Procs -> [Routes -> SUBSET AllLists]]
  BY <1>1, RequestListed DEF IInv, TypeOK
<1>4. /\ \A p \in Procs, k \in Routes : missed[p][k] \subseteq missed'[p][k]
      /\ q.pc = "register" => q.unlisted \subseteq missed'[q.proc][q.route]
  <2>1. CASE Throws(r) /\ q.pc = "register"
    <3>1. missed' = [missed EXCEPT ![q.proc][q.route] = @ \union q.unlisted]
      BY <2>1 DEF Throws
    <3>2. QED
      BY <1>3, <3>1
  <2>2. CASE missed' = missed /\ q.pc # "register"
    BY <2>2
  <2>3. QED
    BY <2>1, <2>2 DEF Throws, Respond, memory
<1>5. AllListed(registered', missed', tombstoned', req')
  <2>1. Onward(registered, missed, registered', missed', req')
    BY <1>1, <1>4 DEF Onward, Taken
  <2>2. q.pc = "register" =>
          \A l \in q.unlisted : Tried(registered', missed', req', q.proc, q.route, l)
    BY <1>4 DEF Tried, Taken
  <2>3. Listed(registered', missed', tombstoned', req', req'[r])
    BY <1>2 DEF Listed, Vacant
  <2>4. QED
    BY <1>1, <1>2, <2>1, <2>2, <2>3, MovesListed, AllCarried DEF LInv
<1>6. QED
  BY <1>5 DEF LInv

\* A list has its turn, whether its registration succeeds or fails.
LEMMA RegisterListed ==
  ASSUME IInv, LInv, NEW r \in Requests, NEW l \in AllLists,
         Register(r, l) \/ RegisterFails(r, l)
  PROVE  LInv'
<1> DEFINE q == req[r]
           to == [q EXCEPT !.unlisted = @ \ {l}]
<1>1. /\ InFlight(r) /\ q.pc = "register" /\ l \in q.unlisted
      /\ Turn(r, to) /\ tombstoned' = tombstoned
  BY DEF Register, RegisterFails, InFlight, world
<1>2. /\ q \in Request /\ q.proc \in Procs /\ q.route \in Routes
      /\ Listed(registered, missed, tombstoned, req, q)
  BY <1>1, RequestListed
<1>3. /\ to.pc = "register" /\ to.proc = q.proc /\ to.route = q.route /\ to.user = q.user
      /\ to.unlisted = q.unlisted \ {l}
  BY <1>1, <1>2 DEF Request
<1> HIDE DEF to
<1>4. req'[r] = to /\ \A t \in Requests \ {r} : req'[t] = req[t]
  BY <1>1 DEF Turn, IInv, TypeOK
<1>5. /\ \A p \in Procs, k \in Routes : \A m :
           Taken(registered, missed, p, k, m) => Taken(registered', missed', p, k, m)
      /\ Taken(registered', missed', q.proc, q.route, l)
      /\ \A p \in Procs, k \in Routes :
           p # q.proc \/ k # q.route => registered'[p][k] = registered[p][k]
  <2>1. /\ registered \in [Procs -> [Routes -> SUBSET AllLists]]
        /\ missed \in [Procs -> [Routes -> SUBSET AllLists]]
    BY DEF IInv, TypeOK
  <2>2. CASE Register(r, l)
    <3>1. /\ registered' = [registered EXCEPT ![q.proc][q.route] = @ \union {l}]
          /\ missed' = [missed EXCEPT ![q.proc][q.route] = @ \ {l}]
      BY <2>2 DEF Register
    <3>2. QED
      BY <1>2, <2>1, <3>1 DEF Taken
  <2>3. CASE RegisterFails(r, l)
    <3>1. /\ registered' = registered
          /\ missed' = [missed EXCEPT ![q.proc][q.route] =
                          @ \union ({l} \ registered[q.proc][q.route])]
      BY <2>3 DEF RegisterFails
    <3>2. QED
      BY <1>2, <2>1, <3>1 DEF Taken
  <2>4. QED
    BY <2>2, <2>3
<1>6. /\ q.unlisted \subseteq ToRegister(q.route, q.user)
      /\ \A m \in ToRegister(q.route, q.user) :
           m \in q.unlisted \/ Taken(registered, missed, q.proc, q.route, m)
      /\ ToRegister(q.route, q.user) = Lists[q.route]
  BY <1>1, <1>2 DEF Listed, ToRegister
<1>7. \A m \in Lists[q.route] :
        m \in to.unlisted \/ Taken(registered', missed', q.proc, q.route, m)
  BY <1>2, <1>3, <1>5, <1>6
<1>8. \A m \in Lists[q.route] : Tried(registered', missed', req', q.proc, q.route, m)
  BY <1>3, <1>4, <1>7 DEF Tried, Waits
<1>9. Listed(registered', missed', tombstoned', req', to)
  BY <1>3, <1>6, <1>7 DEF Listed
<1>10. AllListed(registered', missed', tombstoned', req')
  <2>1. \A p \in Procs, k \in Routes :
          registered'[p][k] # {} =>
            \/ registered[p][k] # {}
            \/ \A m \in Lists[k] : Tried(registered', missed', req', p, k, m)
    <3>1. SUFFICES ASSUME NEW p \in Procs, NEW k \in Routes, registered'[p][k] # {},
                          registered[p][k] = {}, NEW m \in Lists[k]
                   PROVE  Tried(registered', missed', req', p, k, m)
      OBVIOUS
    <3>2. p = q.proc /\ k = q.route
      BY <1>5, <3>1
    <3>3. QED
      BY <1>8, <3>1, <3>2
  <2>2. \A m \in q.unlisted : Tried(registered', missed', req', q.proc, q.route, m)
    BY <1>6, <1>8
  <2>3. Listed(registered', missed', tombstoned', req', req'[r])
    BY <1>4, <1>9
  <2>4. Onward(registered, missed, registered', missed', req')
    BY <1>5, <2>1 DEF Onward
  <2>5. QED
    BY <1>1, <1>4, <2>2, <2>3, <2>4, MovesListed, AllCarried DEF LInv
<1>11. QED
  BY <1>10 DEF LInv

LEMMA RegisteredListed ==
  ASSUME IInv, LInv, NEW r \in Requests, Registered(r)
  PROVE  LInv'
<1> DEFINE q == req[r]
           to == [q EXCEPT !.pc = "respond"]
<1>1. /\ InFlight(r) /\ q.pc = "register" /\ q.unlisted = {}
      /\ Turn(r, to) /\ UNCHANGED <<registered, missed, tombstoned>>
  BY DEF Registered, InFlight, world, memory
<1>2. /\ q \in Request /\ q.proc \in Procs /\ q.route \in Routes
      /\ Listed(registered, missed, tombstoned, req, q)
  BY <1>1, RequestListed
<1>3. to.pc = "respond" /\ to.proc = q.proc /\ to.route = q.route /\ to.user = q.user
  BY <1>2 DEF Request
<1> HIDE DEF to
<1>4. req'[r] = to /\ \A t \in Requests \ {r} : req'[t] = req[t]
  BY <1>1 DEF Turn, IInv, TypeOK
<1>5. Listed(registered, missed, tombstoned, req', to)
  BY <1>1, <1>2, <1>3 DEF Listed, ToRegister, Tried
<1>6. AllListed(registered, missed, tombstoned, req')
  BY <1>1, <1>4, <1>5, MovesListed, AllCarried DEF LInv, Onward
<1>7. QED
  BY <1>1, <1>6 DEF LInv

\* Nothing that the lists depend on changes but what is tombstoned.
LEMMA AroundListed ==
  ASSUME LInv, UNCHANGED <<req, registered, missed>>, tombstoned \subseteq tombstoned'
  PROVE  LInv'
<1>1. \A q : Listed(registered, missed, tombstoned, req, q)
               => Listed(registered, missed, tombstoned', req, q)
  BY DEF Listed
<1>2. AllListed(registered, missed, tombstoned', req)
  BY <1>1 DEF LInv, AllListed
<1>3. QED
  BY <1>2 DEF LInv

\* A process that starts anew has registered nothing, and nobody waits for it.
LEMMA RestartListed ==
  ASSUME IInv, LInv, NEW P \in SUBSET Procs, Restarted(P), tombstoned' = tombstoned
  PROVE  LInv'
<1>1. \A r \in Requests : req'[r] = IF InFlight(r) /\ req[r].proc \notin P THEN req[r] ELSE Vacant
  BY DEF Restarted
<1>2. /\ \A p \in P, k \in Routes : registered'[p][k] = {}
      /\ \A p \in Procs \ P : registered'[p] = registered[p] /\ missed'[p] = missed[p]
  BY DEF Restarted, Fresh
<1>3. ASSUME NEW p \in Procs \ P, NEW k \in Routes, NEW l, Tried(registered, missed, req, p, k, l)
      PROVE  Tried(registered', missed', req', p, k, l)
  <2>1. CASE Taken(registered, missed, p, k, l)
    BY <1>2, <2>1 DEF Tried, Taken
  <2>2. CASE Waits(req, p, k, l)
    BY <1>1, <2>2 DEF Tried, Waits, InFlight
  <2>3. QED
    BY <1>3, <2>1, <2>2 DEF Tried
<1>4. OneForAll(registered', missed', req')
  BY <1>2, <1>3 DEF LInv, AllListed, OneForAll
<1>5. ASSUME NEW r \in Requests
      PROVE  Listed(registered', missed', tombstoned', req', req'[r])
  <2>1. CASE ~InFlight(r) \/ req[r].proc \in P
    BY <1>1, <2>1 DEF Listed, Vacant
  <2>2. CASE InFlight(r) /\ req[r].proc \notin P
    <3>1. /\ req'[r] = req[r] /\ req[r].proc \in Procs \ P /\ req[r].route \in Routes
          /\ Listed(registered, missed, tombstoned, req, req[r])
      BY <1>1, <2>2, RequestListed
    <3>2. QED
      BY <1>2, <1>3, <3>1 DEF Listed, Taken
  <2>3. QED
    BY <2>1, <2>2
<1>6. QED
  BY <1>4, <1>5 DEF LInv, AllListed

LEMMA StepListed ==
  ASSUME IInv, LInv, [Next]_vars
  PROVE  LInv'
<1>1. ASSUME NEW r \in Requests, NEW p \in Procs, NEW k \in Routes, NEW u \in Viewers,
             Arrive(r, p, k, u)
      PROVE  LInv'
  BY <1>1, ArriveListed
<1>2. ASSUME NEW r \in Requests, Lookup(r) PROVE LInv'
  BY <1>2, LookupListed, ServeListed DEF Lookup
<1>3. ASSUME NEW r \in Requests, Render(r) PROVE LInv'
  BY <1>3, RenderListed, VacantListed DEF Render
<1>4. ASSUME NEW r \in Requests, WriteBack(r) PROVE LInv'
  BY <1>4, WritesListed, RegisterListed, RegisteredListed, VacantListed DEF WriteBack
<1>5. ASSUME NEW w \in Writes, RunAction(w) \/ InvalidateActor(w) \/ ActionFails(w)
      PROVE  LInv'
  BY <1>5, AroundListed DEF RunAction, InvalidateActor, ActionFails, memory, world
<1>6. CASE \/ \E l \in Layouts : DeleteLayout(l)
           \/ \E x \in Loaders : Change(x)
           \/ \E key \in Keys : Purge(key)
           \/ \E k \in Routes : Tombstone(k)
  BY <1>6, AroundListed DEF DeleteLayout, Change, Purge, Tombstone, memory, world
<1>7. CASE Deploy \/ \E p \in Procs : Crash(p)
  BY <1>7, RestartListed DEF Deploy, Crash
<1>8. CASE UNCHANGED vars
  BY <1>8, AroundListed DEF vars, memory, world
<1>9. QED
  BY <1>1, <1>2, <1>3, <1>4, <1>5, <1>6, <1>7, <1>8 DEF Next

\* Every list of a shared page that a process answers with has been taken up in
\* that process, however many the page has, whichever request rendered it, and
\* whatever registrations fail: registered, failed, or about to be registered.
THEOREM AnswersAreLive == Spec => []ListIsLive
<1>1. Init => LInv
  BY DEF Init, LInv, AllListed, OneForAll, Listed, Vacant, Fresh
<1>2. IInv /\ LInv /\ [Next]_vars => LInv'
  BY StepListed
<1>3. IInv /\ LInv => ListIsLive
  <2> SUFFICES ASSUME IInv, LInv, NEW r \in Requests, req[r].pc = "respond",
                      KeyOf(r)[2] = None, req[r].route \notin tombstoned,
                      NEW l \in Lists[req[r].route]
               PROVE  Attempted(req[r].proc, req[r].route, l)
    BY DEF ListIsLive
  <2>1. QED
    BY DEF LInv, AllListed, Listed, KeyOf, Attempted, Tried, Taken, Waits
<1>4. QED
  BY <1>1, <1>2, <1>3, Invariance, PTL DEF Spec

-----------------------------------------------------------------------------
(* What deleteLayout promises.                                             *)
(*                                                                         *)
(* Where the requests for one artifact do not overlap and no write or      *)
(* deletion fails, the signature of a snapshot names the layouts its shell *)
(* embeds.  But it is taken of the cache, not of what was rendered: while  *)
(* a layout may turn out specific to somebody, the render of another page  *)
(* may delete the layout between the two, and the signature then says      *)
(* MISSING.  The shell is of the release that signed it, so that the       *)
(* deploy fingerprint stands in.                                           *)

OneByOne == regime \intersect {"overlap", "faults"} = {}

\* A layout may turn out specific to somebody.
MayTurn == "personal" \in regime

UpToDate(chrome, l) == chrome[l] = layout[l] \/ (MayTurn /\ chrome[l].by = release)

Signed(chrome, signature, build, k) ==
  \A l \in Chain[k] : chrome[l] = signature[l] \/ (MayTurn /\ chrome[l].by = build)

\* No layout is older than the last deleteLayout of all of them, and one of an
\* earlier release has not been found specific to somebody by this one.
LayoutsCurrent ==
  /\ ordered <= release
  /\ ~MayTurn => varies = {}
  /\ \A l \in Layouts : layout[l] # None =>
       /\ ordered <= layout[l].by
       /\ layout[l].by # release =>
            \A p \in Procs, k \in Routes : l \notin impureLayouts[p][k]

SnapshotsSigned ==
  \A key \in Keys : html[key] # None /\ json[key] # None =>
    Signed(html[key].chrome, json[key].signature, json[key].build, key[1])

\* What a request shows is no older either.
Shows(q) ==
  /\ q.since = ordered
  /\ \A l \in Chain[q.route] : q.chrome[l] # None => ordered <= q.chrome[l].by
  /\ q.shell # None => Complete(q.route, q.shell.chrome)
  /\ q.pc \in {"register", "respond"} => Complete(q.route, q.chrome)

\* What it has rendered is what the layout cache holds, or will.
Composed(q) ==
  /\ \A l \in q.unstored :
       /\ q.chrome[l] # None /\ q.chrome[l].by = release
       /\ ~MayTurn => q.chrome[l].for = {}
       /\ layout[l] # None => layout[l].by = release
  /\ q.pc \in {"shell", "snapshot", "check", "drop", "serve", "sign"} => q.unstored = {}
  /\ q.pc \in BeforeBake \union {"sign"} =>
       \A l \in Layouts : q.chrome[l] # None => l \in q.unstored \/ UpToDate(q.chrome, l)
  /\ q.pc = "storeSnapshot" => Signed(q.chrome, q.signature, release, q.route)

\* What it has read of its artifact, which nobody else writes, and what it is
\* about to write belong together.
Found(q, shell, snap) ==
  /\ q.pc = "snapshot" => shell = q.shell \/ (shell = None /\ snap = None)
  /\ q.pc \in {"check", "serve"} => shell \in {None, q.shell}
  /\ q.pc = "check" /\ q.snap # None =>
       Signed(q.shell.chrome, q.snap.signature, q.snap.build, q.route)
  /\ q.pc = "serve" => \A l \in Chain[q.route] : UpToDate(q.shell.chrome, l)
  /\ (q.pc = "sign" \/ (q.eligible /\ q.pc \in {"load", "assemble"})) /\ shell # None =>
       \A l \in Chain[q.route] : UpToDate(shell.chrome, l)
  /\ q.pc = "storeSnapshot" /\ shell # None =>
       Signed(shell.chrome, q.signature, release, q.route)
  /\ q.pc = "storeShell" /\ snap # None =>
       Signed(q.chrome, snap.signature, snap.build, q.route)

CurrentRequest(r) ==
  InFlight(r) => /\ Shows(req[r]) /\ Composed(req[r])
                 /\ Found(req[r], html[KeyOf(r)], json[KeyOf(r)])

Apart == \A r, t \in Requests : InFlight(r) /\ InFlight(t) /\ KeyOf(r) = KeyOf(t) => r = t

Current ==
  OneByOne => /\ LayoutsCurrent /\ SnapshotsSigned /\ Apart
              /\ \A r \in Requests : CurrentRequest(r)

\* What a step may do to a layout while requests are in flight: it stays, or
\* layouts of the running release come and go.
LayoutsStay ==
  \A l \in Layouts :
    \/ layout'[l] = layout[l]
    \/ /\ layout[l] # None => layout[l].by = release /\ MayTurn
       /\ layout'[l] # None => layout'[l].by = release

\* The artifact at key stays, or is deleted.
ArtifactStays(key) ==
  \/ html'[key] = html[key] /\ json'[key] = json[key]
  \/ html'[key] = None /\ json'[key] = None

\* What was up to date stays so.
LEMMA StaysUpToDate ==
  ASSUME LayoutsStay, UNCHANGED <<regime, release>>, NEW l \in Layouts
  PROVE  \A chrome : chrome[l] # None /\ UpToDate(chrome, l) =>
           chrome[l] = layout'[l] \/ (MayTurn' /\ chrome[l].by = release')
  BY DEF LayoutsStay, UpToDate, MayTurn

\* A layout that is up to date is no older than deleteLayout wants it.
LEMMA UpToDateIsCurrent ==
  ASSUME LayoutsCurrent, NEW l \in Layouts
  PROVE  \A chrome : chrome[l] # None /\ UpToDate(chrome, l) => ordered <= chrome[l].by
  BY DEF LayoutsCurrent, UpToDate

\* The layouts around a page are layouts.
LEMMA ChainFacts == \A k \in Routes : Chain[k] \subseteq Layouts
  BY PageServeAssumption

\* A request that stands still stays current.
LEMMA StandsCurrent ==
  ASSUME IInv, NEW r \in Requests, CurrentRequest(r), req'[r] = req[r],
         UNCHANGED <<regime, release, ordered>>, LayoutsStay, ArtifactStays(KeyOf(r))
  PROVE  CurrentRequest(r)'
<1> SUFFICES ASSUME InFlight(r) PROVE CurrentRequest(r)'
  BY DEF CurrentRequest, InFlight
<1> DEFINE q == req[r]
           key == KeyOf(r)
<1>1. /\ q \in Request /\ q.route \in Routes /\ key \in Keys /\ key[1] = q.route
      /\ Shows(q) /\ Composed(q) /\ Found(q, html[key], json[key])
      /\ q.unstored \subseteq Layouts
  BY InHandFacts DEF CurrentRequest, Request
<1>2. html[key] # None => Complete(q.route, html[key].chrome)
  BY <1>1 DEF IInv, TypeOK
<1>3. Shows(q)'
  BY <1>1 DEF Shows
<1>4. Composed(q)'
  <2>1. ASSUME NEW l \in q.unstored PROVE layout'[l] # None => layout'[l].by = release
    BY <1>1, <2>1 DEF Composed, LayoutsStay
  <2>2. ASSUME NEW l \in Layouts, q.chrome[l] # None, UpToDate(q.chrome, l)
        PROVE  UpToDate(q.chrome, l)'
    BY <2>2, StaysUpToDate DEF UpToDate
  <2>3. QED
    BY <1>1, <2>1, <2>2 DEF Composed, Signed, MayTurn
<1>5. KeyOf(r)' = key
  BY DEF KeyOf
<1>6. Found(req[r], html[KeyOf(r)], json[KeyOf(r)])'
  <2>1. ASSUME NEW l \in Chain[q.route], q.shell # None, UpToDate(q.shell.chrome, l)
        PROVE  UpToDate(q.shell.chrome, l)'
    <3>1. q.shell.chrome[l] # None /\ l \in Layouts
      BY <1>1, <2>1, ChainFacts DEF Shows, Complete
    <3>2. QED
      BY <2>1, <3>1, StaysUpToDate DEF UpToDate
  <2>2. ASSUME NEW l \in Chain[q.route], html[key] # None, UpToDate(html[key].chrome, l)
        PROVE  html[key].chrome[l] = layout'[l] \/ (MayTurn' /\ html[key].chrome[l].by = release')
    <3>1. html[key].chrome[l] # None /\ l \in Layouts
      BY <1>1, <1>2, <2>2, ChainFacts DEF Complete
    <3>2. QED
      BY <2>2, <3>1, StaysUpToDate
  <2>3. q.pc = "serve" => q.shell # None
    BY InHandFacts DEF Made
  <2>4. \A chrome, signature, build :
          Signed(chrome, signature, build, q.route) =>
            \A l \in Chain[q.route] : chrome[l] = signature[l] \/ (MayTurn' /\ chrome[l].by = build)
    BY DEF Signed, MayTurn
  <2> DEFINE shell == html'[key]
             snap == json'[key]
  <2>5. \/ shell = html[key] /\ snap = json[key]
        \/ shell = None /\ snap = None
    BY DEF ArtifactStays
  <2> HIDE DEF key, shell, snap
  <2>6. /\ q.pc = "snapshot" => shell = q.shell \/ (shell = None /\ snap = None)
        /\ q.pc \in {"check", "serve"} => shell \in {None, q.shell}
    BY <1>1, <2>5 DEF Found
  <2>7. q.pc = "check" /\ q.snap # None => \A l \in Chain[q.route] :
           q.shell.chrome[l] = q.snap.signature[l] \/ (MayTurn' /\ q.shell.chrome[l].by = q.snap.build)
    BY <1>1, <2>4 DEF Found
  <2>8. q.pc = "serve" => \A l \in Chain[q.route] : UpToDate(q.shell.chrome, l)'
    BY <1>1, <2>1, <2>3 DEF Found
  <2>9. (q.pc = "sign" \/ (q.eligible /\ q.pc \in {"load", "assemble"})) /\ shell # None =>
          \A l \in Chain[q.route] :
            shell.chrome[l] = layout'[l] \/ (MayTurn' /\ shell.chrome[l].by = release')
    BY <1>1, <2>2, <2>5 DEF Found
  <2>10. q.pc = "storeSnapshot" /\ shell # None => \A l \in Chain[q.route] :
            shell.chrome[l] = q.signature[l] \/ (MayTurn' /\ shell.chrome[l].by = release')
    BY <1>1, <2>4, <2>5 DEF Found
  <2>11. q.pc = "storeShell" /\ snap # None => \A l \in Chain[q.route] :
            q.chrome[l] = snap.signature[l] \/ (MayTurn' /\ q.chrome[l].by = snap.build)
    BY <1>1, <2>4, <2>5 DEF Found
  <2>12. req'[r] = q /\ html'[KeyOf(r)'] = shell /\ json'[KeyOf(r)'] = snap
    BY <1>5 DEF shell, snap
  <2>13. q.pc = "serve" => \A l \in Chain[q.route] :
            q.shell.chrome[l] = layout'[l] \/ (MayTurn' /\ q.shell.chrome[l].by = release')
    BY <2>8 DEF UpToDate
  <2>14. QED
    BY <2>6, <2>7, <2>9, <2>10, <2>11, <2>12, <2>13 DEF Found, Signed, UpToDate
<1>7. QED
  BY <1>3, <1>4, <1>5, <1>6 DEF CurrentRequest, InFlight, KeyOf

\* A step is in order if what it makes of the caches is and each request is
\* over, moves on in order, or stands still.
LEMMA StepsCurrent ==
  ASSUME IInv, OneByOne, Current, UNCHANGED <<regime, release, ordered>>,
         LayoutsStay, LayoutsCurrent', SnapshotsSigned',
         \A r \in Requests :
           \/ ~InFlight(r)'
           \/ InFlight(r) /\ KeyOf(r)' = KeyOf(r) /\ CurrentRequest(r)'
           \/ InFlight(r) /\ req'[r] = req[r] /\ ArtifactStays(KeyOf(r))
  PROVE  Current'
<1>1. \A r \in Requests : InFlight(r)' => InFlight(r) /\ KeyOf(r)' = KeyOf(r)
  BY DEF KeyOf, InFlight
<1>2. Apart'
  BY <1>1 DEF Current, Apart
<1>3. ASSUME NEW r \in Requests PROVE CurrentRequest(r)'
  <2>1. CASE ~InFlight(r)'
    BY <2>1 DEF CurrentRequest
  <2>2. CASE req'[r] = req[r] /\ ArtifactStays(KeyOf(r))
    BY <2>2, StandsCurrent DEF Current
  <2>3. QED
    BY <2>1, <2>2
<1>4. QED
  BY <1>2, <1>3 DEF Current

\* A request in hand, where requests for one artifact do not overlap.
LEMMA CurrentFacts ==
  ASSUME IInv, OneByOne, Current, NEW r \in Requests, InFlight(r)
  PROVE  /\ req[r] \in Request /\ req[r].route \in Routes
         /\ KeyOf(r) \in Keys /\ KeyOf(r)[1] = req[r].route
         /\ Chain[req[r].route] \subseteq Layouts
         /\ Made(req[r]) /\ Shows(req[r]) /\ Composed(req[r])
         /\ Found(req[r], html[KeyOf(r)], json[KeyOf(r)])
         /\ LayoutsCurrent /\ SnapshotsSigned
         /\ html[KeyOf(r)] # None => Complete(req[r].route, html[KeyOf(r)].chrome)
<1>1. /\ req[r] \in Request /\ req[r].route \in Routes
      /\ KeyOf(r) \in Keys /\ KeyOf(r)[1] = req[r].route /\ Made(req[r])
  BY InHandFacts DEF Request
<1>2. html[KeyOf(r)] # None => Complete(req[r].route, html[KeyOf(r)].chrome)
  BY <1>1 DEF IInv, TypeOK
<1>3. QED
  BY <1>1, <1>2, ChainFacts DEF Current, CurrentRequest

\* A request moves; the artifacts of others and the layouts stay.
LEMMA MovesCurrent ==
  ASSUME IInv, OneByOne, Current, NEW r \in Requests, NEW to, Turn(r, to), InFlight(r),
         UNCHANGED <<regime, release, ordered>>, LayoutsStay, LayoutsCurrent', SnapshotsSigned',
         \A key \in Keys \ {KeyOf(r)} : ArtifactStays(key),
         ~InFlight(r)' \/ (KeyOf(r)' = KeyOf(r) /\ CurrentRequest(r)')
  PROVE  Current'
<1>1. ASSUME NEW t \in Requests, t # r, InFlight(t)'
      PROVE  InFlight(t) /\ req'[t] = req[t] /\ ArtifactStays(KeyOf(t))
  <2>1. InFlight(t) /\ req'[t] = req[t]
    BY <1>1 DEF Turn, InFlight, IInv, TypeOK
  <2>2. KeyOf(t) \in Keys /\ KeyOf(t) # KeyOf(r)
    BY <1>1, <2>1, InHandFacts DEF Current, Apart
  <2>3. QED
    BY <2>1, <2>2
<1>2. QED
  BY <1>1, StepsCurrent

\* A request moves, and nothing else changes.
LEMMA TurnsCurrent ==
  ASSUME IInv, OneByOne, Current, NEW r \in Requests, NEW to, Turn(r, to), InFlight(r),
         UNCHANGED <<world, act, cached, memory, ghosts>>,
         ~InFlight(r)' \/ (KeyOf(r)' = KeyOf(r) /\ CurrentRequest(r)')
  PROVE  Current'
<1>1. /\ UNCHANGED <<regime, release, ordered, varies, layout, html, json>>
      /\ impureLayouts' = impureLayouts
  BY DEF world, cached, memory, ghosts
<1>2. LayoutsStay /\ \A key \in Keys : ArtifactStays(key)
  BY <1>1 DEF LayoutsStay, ArtifactStays
<1>3. LayoutsCurrent' /\ SnapshotsSigned'
  BY <1>1 DEF Current, LayoutsCurrent, SnapshotsSigned, Signed, MayTurn
<1>4. QED
  BY <1>1, <1>2, <1>3, MovesCurrent

\* In such a step, what was up to date is.
LEMMA CachesStay ==
  ASSUME UNCHANGED <<world, act, cached, memory, ghosts>>
  PROVE  /\ UNCHANGED <<regime, release, ordered, layout, html, json>>
         /\ MayTurn' = MayTurn
         /\ \A chrome, l : UpToDate(chrome, l) <=>
              chrome[l] = layout'[l] \/ (MayTurn' /\ chrome[l].by = release')
<1>1. UNCHANGED <<regime, release, ordered, layout, html, json>>
  BY DEF world, cached, ghosts
<1>2. QED
  BY <1>1 DEF MayTurn, UpToDate

LEMMA ArriveCurrent ==
  ASSUME IInv, OneByOne, Current, NEW r \in Requests, NEW p \in Procs, NEW k \in Routes,
         NEW u \in Viewers, Arrive(r, p, k, u)
  PROVE  Current'
<1> DEFINE q == NewRequest(p, k, u)
<1>1. /\ q.route = k /\ q.user = u /\ q.chrome = NoChrome /\ q.unstored = {}
      /\ q.shell = None /\ q.since = ordered
      /\ q.pc = "shell" \/ (q.pc = "load" /\ ~q.eligible)
  BY DEF NewRequest, Eligible
<1> HIDE DEF q
<1>2. /\ \A t \in Requests \ {r} : req'[t] = req[t]
      /\ req'[r] = q
      /\ UNCHANGED <<world, act, cached, memory, ghosts>>
      /\ Unattended(Key(k, u))
  BY DEF Arrive, Turn, OneByOne, IInv, TypeOK, q
<1>3. UNCHANGED <<regime, release, ordered, layout, html, json, varies, impureLayouts>>
  BY <1>2 DEF world, cached, memory, ghosts
<1>4. LayoutsCurrent' /\ SnapshotsSigned'
  BY <1>3 DEF Current, LayoutsCurrent, SnapshotsSigned, Signed, MayTurn
<1>5. Apart'
  BY <1>1, <1>2 DEF Current, Apart, InFlight, KeyOf, Unattended
<1>6. CurrentRequest(r)'
  <2>1. Chain[k] \subseteq Layouts /\ \A l \in Layouts : q.chrome[l] = None
    BY <1>1, ChainFacts DEF NoChrome
  <2>2. Shows(req[r])' /\ Composed(req[r])'
    BY <1>1, <1>2, <1>3, <2>1 DEF Shows, Composed, BeforeBake
  <2>3. Found(req[r], html[KeyOf(r)], json[KeyOf(r)])'
    BY <1>1, <1>2 DEF Found
  <2>4. QED
    BY <2>2, <2>3 DEF CurrentRequest
<1>7. ASSUME NEW t \in Requests \ {r} PROVE CurrentRequest(t)'
  <2>1. LayoutsStay /\ ArtifactStays(KeyOf(t))
    BY <1>3 DEF LayoutsStay, ArtifactStays
  <2>2. QED
    BY <1>2, <1>3, <2>1, StandsCurrent DEF Current
<1>8. QED
  BY <1>4, <1>5, <1>6, <1>7 DEF Current

LEMMA ReadShellCurrent ==
  ASSUME IInv, OneByOne, Current, NEW r \in Requests, ReadShell(r)
  PROVE  Current'
<1> DEFINE q == req[r]
<1>1. InFlight(r) /\ q.pc = "shell"
  BY DEF ReadShell, InFlight
<1>2. /\ UNCHANGED <<world, act, cached, memory, ghosts>>
      /\ req'[r].pc = (IF html[KeyOf(r)] = None THEN "load" ELSE "snapshot")
      /\ req'[r].shell = html[KeyOf(r)]
      /\ req'[r].route = q.route /\ req'[r].user = q.user /\ req'[r].since = q.since
      /\ req'[r].chrome = q.chrome /\ req'[r].unstored = q.unstored
  BY <1>1, CurrentFacts DEF ReadShell, Turn, Request, IInv, TypeOK
<1>3. KeyOf(r)' = KeyOf(r)
  BY <1>2 DEF KeyOf
<1>4. Shows(req[r])'
  BY <1>1, <1>2, CurrentFacts, CachesStay DEF Shows
<1>5. Composed(req[r])'
  BY <1>1, <1>2, CurrentFacts, CachesStay DEF Composed, UpToDate, BeforeBake
<1>6. Found(req[r], html[KeyOf(r)], json[KeyOf(r)])'
  BY <1>2, <1>3, CachesStay DEF Found
<1>7. CurrentRequest(r)'
  BY <1>4, <1>5, <1>6 DEF CurrentRequest
<1>8. QED
  BY <1>1, <1>2, <1>3, <1>7, TurnsCurrent DEF ReadShell

LEMMA ReadSnapshotCurrent ==
  ASSUME IInv, OneByOne, Current, NEW r \in Requests, ReadSnapshot(r)
  PROVE  Current'
<1> DEFINE q == req[r]
<1>1. InFlight(r) /\ q.pc = "snapshot"
  BY DEF ReadSnapshot, InFlight
<1>2. /\ UNCHANGED <<world, act, cached, memory, ghosts>>
      /\ req'[r].pc = "check" /\ req'[r].snap = json[KeyOf(r)] /\ req'[r].shell = q.shell
      /\ req'[r].route = q.route /\ req'[r].user = q.user /\ req'[r].since = q.since
      /\ req'[r].chrome = q.chrome /\ req'[r].unstored = q.unstored
  BY <1>1, CurrentFacts DEF ReadSnapshot, Turn, Request, IInv, TypeOK
<1>3. KeyOf(r)' = KeyOf(r)
  BY <1>2 DEF KeyOf
<1>4. Shows(req[r])'
  BY <1>1, <1>2, CurrentFacts, CachesStay DEF Shows
<1>5. Composed(req[r])'
  BY <1>1, <1>2, CurrentFacts, CachesStay DEF Composed, UpToDate, BeforeBake
<1>6. Found(req[r], html[KeyOf(r)], json[KeyOf(r)])'
  <2>1. /\ html[KeyOf(r)] \in {None, q.shell}
        /\ json[KeyOf(r)] # None => html[KeyOf(r)] = q.shell /\ q.shell # None
    BY <1>1, CurrentFacts DEF Found, Made
  <2>2. json[KeyOf(r)] # None =>
          Signed(q.shell.chrome, json[KeyOf(r)].signature, json[KeyOf(r)].build, q.route)
    BY <1>1, <2>1, CurrentFacts DEF SnapshotsSigned
  <2>3. QED
    BY <1>2, <1>3, <2>1, <2>2, CachesStay DEF Found, Signed
<1>7. CurrentRequest(r)'
  BY <1>4, <1>5, <1>6 DEF CurrentRequest
<1>8. QED
  BY <1>1, <1>2, <1>3, <1>7, TurnsCurrent DEF ReadSnapshot

\* A snapshot that names the layouts in the cache is of a shell that embeds
\* them, or was signed by this release.
LEMMA CheckCurrent ==
  ASSUME IInv, OneByOne, Current, HasBuildId \/ ~MayTurn, NEW r \in Requests, Check(r)
  PROVE  Current'
<1> DEFINE q == req[r]
<1>1. InFlight(r) /\ q.pc = "check"
  BY DEF Check, InFlight
<1>2. /\ UNCHANGED <<world, act, cached, memory, ghosts>>
      /\ req'[r].pc = (IF Valid(q.route, q.snap) THEN "serve" ELSE "drop")
      /\ req'[r].shell = q.shell
      /\ req'[r].route = q.route /\ req'[r].user = q.user /\ req'[r].since = q.since
      /\ req'[r].chrome = q.chrome /\ req'[r].unstored = q.unstored
  BY <1>1, CurrentFacts DEF Check, Turn, Request, IInv, TypeOK
<1>3. KeyOf(r)' = KeyOf(r)
  BY <1>2 DEF KeyOf
<1>4. Shows(req[r])'
  BY <1>1, <1>2, CurrentFacts, CachesStay DEF Shows
<1>5. Composed(req[r])'
  BY <1>1, <1>2, CurrentFacts, CachesStay DEF Composed, UpToDate, BeforeBake
<1>6. Found(req[r], html[KeyOf(r)], json[KeyOf(r)])'
  <2>1. ASSUME Valid(q.route, q.snap), NEW l \in Chain[q.route]
        PROVE  UpToDate(q.shell.chrome, l)
    <3>1. q.snap # None /\ q.snap.signature = Signature(q.route)
          /\ (HasBuildId => q.snap.build = release)
      BY <2>1 DEF Valid
    <3>2. l \in Layouts /\ Signature(q.route)[l] = layout[l]
      BY <1>1, CurrentFacts DEF Signature
    <3>3. \/ q.shell.chrome[l] = q.snap.signature[l]
          \/ MayTurn /\ q.shell.chrome[l].by = q.snap.build
      BY <1>1, <3>1, CurrentFacts DEF Found, Signed
    <3>4. QED
      BY <3>1, <3>2, <3>3 DEF UpToDate
  <2>2. html[KeyOf(r)] \in {None, q.shell}
    BY <1>1, CurrentFacts DEF Found
  <2>3. QED
    BY <1>2, <1>3, <2>1, <2>2, CachesStay DEF Found, UpToDate
<1>7. CurrentRequest(r)'
  BY <1>4, <1>5, <1>6 DEF CurrentRequest
<1>8. QED
  BY <1>1, <1>2, <1>3, <1>7, TurnsCurrent DEF Check

LEMMA ServeCurrent ==
  ASSUME IInv, OneByOne, Current, NEW r \in Requests, Serve(r)
  PROVE  Current'
<1> DEFINE q == req[r]
<1>1. InFlight(r) /\ q.pc = "serve"
  BY DEF Serve, InFlight
<1>2. /\ UNCHANGED <<world, act, cached, memory, ghosts>>
      /\ \/ req'[r].pc = "respond" /\ req'[r].chrome = q.shell.chrome /\ req'[r].shell = q.shell
         \/ req'[r].pc = "load" /\ req'[r].chrome = q.chrome /\ req'[r].shell = None
      /\ req'[r].route = q.route /\ req'[r].user = q.user /\ req'[r].since = q.since
      /\ req'[r].unstored = q.unstored
  BY <1>1, CurrentFacts DEF Serve, Turn, Request, IInv, TypeOK
<1>3. KeyOf(r)' = KeyOf(r)
  BY <1>2 DEF KeyOf
<1>4. q.shell # None /\ \A l \in Chain[q.route] : /\ l \in Layouts
                                                  /\ q.shell.chrome[l] # None
                                                  /\ UpToDate(q.shell.chrome, l)
                                                  /\ ordered <= q.shell.chrome[l].by
  BY <1>1, CurrentFacts, UpToDateIsCurrent DEF Made, Shows, Found, Complete
<1>5. Shows(req[r])'
  BY <1>1, <1>2, <1>4, CurrentFacts, CachesStay DEF Shows, Complete
<1>6. Composed(req[r])'
  <2>1. CASE req'[r].pc = "load" /\ req'[r].chrome = q.chrome
    BY <1>1, <1>2, <2>1, CurrentFacts, CachesStay DEF Composed, UpToDate, BeforeBake
  <2>2. CASE req'[r].pc = "respond"
    BY <1>1, <1>2, <2>2, CurrentFacts, CachesStay DEF Composed, UpToDate, BeforeBake
  <2>3. QED
    BY <1>2, <2>1, <2>2
<1>7. Found(req[r], html[KeyOf(r)], json[KeyOf(r)])'
  <2>1. html[KeyOf(r)] \in {None, q.shell}
    BY <1>1, CurrentFacts DEF Found
  <2>2. QED
    BY <1>2, <1>3, <1>4, <2>1, CachesStay DEF Found, UpToDate
<1>8. CurrentRequest(r)'
  BY <1>5, <1>6, <1>7 DEF CurrentRequest
<1>9. QED
  BY <1>1, <1>2, <1>3, <1>8, TurnsCurrent DEF Serve

\* Deleting an artifact.
LEMMA DeletedArtifact ==
  ASSUME TypeOK, OneByOne, NEW key \in Keys, DeleteArtifact(key)
  PROVE  /\ html'[key] = None /\ json'[key] = None
         /\ \A k \in Keys \ {key} : html'[k] = html[k] /\ json'[k] = json[k]
         /\ \A k \in Keys : ArtifactStays(k)
  BY DEF TypeOK, DeleteArtifact, Left, OneByOne, ArtifactStays

\* Artifacts that stay or go leave no snapshot unsigned.
LEMMA StaysSigned ==
  ASSUME SnapshotsSigned, regime' = regime, \A key \in Keys : ArtifactStays(key)
  PROVE  SnapshotsSigned'
  BY DEF SnapshotsSigned, ArtifactStays, Signed, MayTurn

\* Nor does a step that leaves the layouts alone disturb them.
LEMMA StaysLayouts ==
  ASSUME LayoutsCurrent, UNCHANGED <<regime, release, ordered, varies, layout>>,
         \A p \in Procs, k \in Routes : impureLayouts'[p][k] \subseteq impureLayouts[p][k]
  PROVE  LayoutsCurrent' /\ LayoutsStay
  BY DEF LayoutsCurrent, LayoutsStay, MayTurn

LEMMA DropCurrent ==
  ASSUME IInv, OneByOne, Current, NEW r \in Requests, Drop(r)
  PROVE  Current'
<1> DEFINE q == req[r]
<1>1. InFlight(r) /\ q.pc = "drop"
  BY DEF Drop, InFlight
<1>2. /\ DeleteArtifact(KeyOf(r)) /\ UNCHANGED <<world, act, layout, memory, ghosts>>
      /\ req'[r].pc = "load" /\ req'[r].shell = None
      /\ req'[r].route = q.route /\ req'[r].user = q.user /\ req'[r].since = q.since
      /\ req'[r].chrome = q.chrome /\ req'[r].unstored = q.unstored
  BY <1>1, CurrentFacts DEF Drop, Turn, Request, IInv, TypeOK
<1>3. UNCHANGED <<regime, release, ordered, layout, varies, impureLayouts>>
  BY <1>2 DEF world, memory, ghosts
<1>4. /\ html'[KeyOf(r)] = None /\ \A key \in Keys : ArtifactStays(key)
      /\ LayoutsCurrent /\ SnapshotsSigned
  BY <1>1, <1>2, CurrentFacts, DeletedArtifact DEF IInv
<1>5. KeyOf(r)' = KeyOf(r)
  BY <1>2 DEF KeyOf
<1>6. Shows(req[r])'
  BY <1>1, <1>2, <1>3, CurrentFacts DEF Shows
<1>7. Composed(req[r])'
  BY <1>1, <1>2, <1>3, CurrentFacts DEF Composed, UpToDate, MayTurn, BeforeBake
<1>8. Found(req[r], html[KeyOf(r)], json[KeyOf(r)])'
  BY <1>2, <1>4, <1>5 DEF Found
<1>9. LayoutsCurrent' /\ LayoutsStay /\ SnapshotsSigned'
  BY <1>3, <1>4, StaysSigned, StaysLayouts
<1>10. QED
  BY <1>1, <1>3, <1>4, <1>5, <1>6, <1>7, <1>8, <1>9, MovesCurrent DEF Drop, CurrentRequest

\* load(), and the end of the render.
LEMMA LoadPageCurrent ==
  ASSUME IInv, OneByOne, Current, NEW r \in Requests, LoadPage(r) \/ Assemble(r)
  PROVE  Current'
<1> DEFINE q == req[r]
<1>1. InFlight(r) /\ q.pc = "load"
  BY DEF LoadPage, Assemble, Rendering, InFlight
<1>2. /\ UNCHANGED <<world, act, cached, memory, ghosts>>
      /\ req'[r].pc \in {"load", "assemble"}
      /\ req'[r].eligible = q.eligible /\ req'[r].shell = q.shell
      /\ req'[r].route = q.route /\ req'[r].user = q.user /\ req'[r].since = q.since
      /\ req'[r].chrome = q.chrome /\ req'[r].unstored = q.unstored
  <2>1. CASE LoadPage(r)
    BY <1>1, <2>1, CurrentFacts DEF LoadPage, Turn, Request, IInv, TypeOK
  <2>2. CASE Assemble(r)
    BY <1>1, <2>2, CurrentFacts DEF Assemble, Turn, Request, IInv, TypeOK
  <2>3. QED
    BY <2>1, <2>2
<1>3. KeyOf(r)' = KeyOf(r)
  BY <1>2 DEF KeyOf
<1>4. Shows(req[r])'
  BY <1>1, <1>2, CurrentFacts, CachesStay DEF Shows
<1>5. Composed(req[r])'
  BY <1>1, <1>2, CurrentFacts, CachesStay DEF Composed, UpToDate, BeforeBake
<1>6. Found(req[r], html[KeyOf(r)], json[KeyOf(r)])'
  BY <1>1, <1>2, <1>3, CurrentFacts, CachesStay DEF Found, UpToDate
<1>7. CurrentRequest(r)'
  BY <1>4, <1>5, <1>6 DEF CurrentRequest
<1>8. QED
  BY <1>1, <1>2, <1>3, <1>7, TurnsCurrent DEF LoadPage, Assemble

\* A layout is taken from the cache, or baked by the running release: if the
\* cache holds one, it is no older.
LEMMA LayoutCurrent ==
  ASSUME IInv, OneByOne, Current, NEW r \in Requests, NEW l \in Layouts,
         ReuseLayout(r, l) \/ BakeLayout(r, l)
  PROVE  Current'
<1> DEFINE q == req[r]
<1>1. InFlight(r) /\ q.pc = "load"
  BY DEF ReuseLayout, BakeLayout, Rendering, InFlight
<1>2. /\ UNCHANGED <<world, act, cached, memory, ghosts>>
      /\ req'[r].pc = "load" /\ req'[r].eligible = q.eligible /\ req'[r].shell = q.shell
      /\ req'[r].route = q.route /\ req'[r].user = q.user /\ req'[r].since = q.since
      /\ \A m \in Layouts \ {l} : req'[r].chrome[m] = q.chrome[m]
      /\ \/ /\ layout[l] # None /\ req'[r].chrome[l] = layout[l]
            /\ req'[r].unstored = q.unstored
         \/ /\ req'[r].chrome[l] = [by |-> release, for |-> Personal(l, q.user)]
            /\ req'[r].unstored = q.unstored \union {l}
            /\ l \in impureLayouts[q.proc][q.route] \/ layout[l] = None
  <2>1. q \in Request /\ q.chrome \in Chromes
    BY <1>1, CurrentFacts DEF Request
  <2>2. CASE ReuseLayout(r, l)
    BY <2>1, <2>2 DEF ReuseLayout, Rendering, Turn, Request, Chromes, IInv, TypeOK
  <2>3. CASE BakeLayout(r, l)
    BY <2>1, <2>3 DEF BakeLayout, Rendering, Turn, Request, Chromes, IInv, TypeOK
  <2>4. QED
    BY <2>2, <2>3
<1>3. /\ KeyOf(r)' = KeyOf(r) /\ q.route \in Routes /\ q.proc \in Procs
      /\ Chain[q.route] \subseteq Layouts /\ q.unstored \subseteq Layouts
  BY <1>1, <1>2, CurrentFacts DEF KeyOf, Request
<1>4. ASSUME layout[l] # None, req'[r].chrome[l] = layout[l], req'[r].unstored = q.unstored
      PROVE  Shows(req[r])' /\ Composed(req[r])'
  <2>1. ordered <= layout[l].by
    BY <1>1, <1>4, CurrentFacts DEF LayoutsCurrent
  <2>2. Shows(req[r])'
    BY <1>1, <1>2, <1>3, <1>4, <2>1, CurrentFacts, CachesStay DEF Shows
  <2>3. q.chrome[l] = None /\ l \notin q.unstored
    BY <1>1, <1>2, CurrentFacts DEF ReuseLayout, BakeLayout, Composed
  <2>4. Composed(req[r])'
    BY <1>1, <1>2, <1>3, <1>4, <2>3, CurrentFacts, CachesStay
       DEF Composed, UpToDate, BeforeBake
  <2>5. QED
    BY <2>2, <2>4
<1>5. ASSUME req'[r].chrome[l] = [by |-> release, for |-> Personal(l, q.user)],
             req'[r].unstored = q.unstored \union {l},
             l \in impureLayouts[q.proc][q.route] \/ layout[l] = None
      PROVE  Shows(req[r])' /\ Composed(req[r])'
  <2>1. ordered <= release
    BY <1>1, CurrentFacts DEF LayoutsCurrent
  <2>2. Shows(req[r])'
    BY <1>1, <1>2, <1>3, <1>5, <2>1, CurrentFacts, CachesStay DEF Shows
  <2>3. layout[l] # None => layout[l].by = release
    BY <1>1, <1>3, <1>5, CurrentFacts DEF LayoutsCurrent
  <2>4. ~MayTurn => Personal(l, q.user) = {}
    BY <1>1, CurrentFacts, PageServeAssumption DEF LayoutsCurrent, Personal
  <2>5. req'[r].chrome[l] # None
    <3>1. Personal(l, q.user) \subseteq Viewers /\ release \in Nat
      BY <1>1, CurrentFacts DEF Personal, Request, IInv, TypeOK, Releases
    <3>2. QED
      BY <1>5, <3>1, PageServeAssumption DEF Viewers
  <2>6. Composed(req[r])'
    BY <1>1, <1>2, <1>3, <1>5, <2>3, <2>4, <2>5, CurrentFacts, CachesStay
       DEF Composed, UpToDate, BeforeBake
  <2>7. QED
    BY <2>2, <2>6
<1>6. Found(req[r], html[KeyOf(r)], json[KeyOf(r)])'
  BY <1>1, <1>2, <1>3, CurrentFacts, CachesStay DEF Found, UpToDate
<1>7. CurrentRequest(r)'
  BY <1>2, <1>4, <1>5, <1>6 DEF CurrentRequest
<1>8. QED
  BY <1>1, <1>2, <1>3, <1>7, TurnsCurrent DEF ReuseLayout, BakeLayout

\* A rendered layout is its release and those it is specific to.
LEMMA SameChrome ==
  ASSUME NEW c \in Chrome, NEW d \in Chrome, c.by = d.by, c.for = d.for
  PROVE  c = d
  BY DEF Chrome

\* A layout is written back.  Where no layout may turn out specific to
\* somebody, what is overwritten is the same layout; where one may, what is
\* overwritten or deleted is of the running release.
LEMMA StoreLayoutCurrent ==
  ASSUME IInv, OneByOne, Current, NEW r \in Requests, NEW l \in Layouts, StoreLayout(r, l)
  PROVE  Current'
<1> DEFINE q == req[r]
<1>1. InFlight(r) /\ q.pc = "load" /\ l \in q.unstored
  BY DEF StoreLayout, Rendering, InFlight
<1>2. /\ UNCHANGED <<world, act, html, json, knownImpure, registered, ghosts>>
      /\ req'[r].pc = "load" /\ req'[r].eligible = q.eligible /\ req'[r].shell = q.shell
      /\ req'[r].route = q.route /\ req'[r].user = q.user /\ req'[r].since = q.since
      /\ req'[r].chrome = q.chrome /\ req'[r].unstored = q.unstored \ {l}
  BY <1>1, CurrentFacts DEF StoreLayout, Turn, Request, IInv, TypeOK
<1>3. UNCHANGED <<regime, release, ordered, varies, html, json>> /\ MayTurn' = MayTurn
  BY <1>2 DEF world, ghosts, MayTurn
<1>4. /\ q.chrome[l] \in Chrome /\ q.chrome[l].by = release
      /\ ~MayTurn => q.chrome[l].for = {}
      /\ layout[l] # None => /\ layout[l] \in Chrome /\ layout[l].by = release
                             /\ layout[l].for = {}
      /\ ordered <= release /\ q.proc \in Procs /\ q.route \in Routes
      /\ q.unstored \subseteq Layouts
  <2>1. q.chrome[l] \in Chrome \union {None} /\ layout[l] \in Chrome \union {None}
    BY <1>1, CurrentFacts DEF Request, Chromes, IInv, TypeOK
  <2>2. q.chrome[l] # None /\ q.chrome[l].by = release
        /\ (~MayTurn => q.chrome[l].for = {}) /\ (layout[l] # None => layout[l].by = release)
    BY <1>1, CurrentFacts DEF Composed
  <2>3. QED
    BY <1>1, <2>1, <2>2, CurrentFacts DEF Request, IInv, CachedForAll, LayoutsCurrent
<1>5. /\ \A m \in Layouts \ {l} : layout'[m] = layout[m]
      /\ \/ layout'[l] = q.chrome[l]
         \/ q.chrome[l].for # {} /\ (layout'[l] = None \/ layout'[l] = layout[l])
      /\ \A p \in Procs, k \in Routes, m \in Layouts \ {l} :
           m \in impureLayouts'[p][k] => m \in impureLayouts[p][k]
  <2>1. layout \in [Layouts -> Chrome \union {None}]
    BY DEF IInv, TypeOK, Chromes
  <2>2. impureLayouts \in [Procs -> [Routes -> SUBSET Layouts]]
    BY DEF IInv, TypeOK
  <2>3. CASE q.chrome[l].for = {}
    <3>1. layout' = [layout EXCEPT ![l] = q.chrome[l]] /\ impureLayouts' = impureLayouts
      BY <2>3 DEF StoreLayout
    <3>2. QED
      BY <2>1, <3>1
  <2>4. CASE q.chrome[l].for # {}
    <3>1. /\ impureLayouts' = [impureLayouts EXCEPT ![q.proc][q.route] = @ \union {l}]
          /\ layout' = layout \/ \E left \in Left(layout[l]) : layout' = [layout EXCEPT ![l] = left]
      BY <2>4 DEF StoreLayout
    <3>2. Left(layout[l]) \subseteq {None, layout[l]}
      BY DEF Left
    <3>3. \A m \in Layouts \ {l} : layout'[m] = layout[m]
      BY <2>1, <3>1
    <3>4. layout'[l] = None \/ layout'[l] = layout[l]
      BY <2>1, <3>1, <3>2
    <3>5. \A p \in Procs, k \in Routes, m \in Layouts \ {l} :
            m \in impureLayouts'[p][k] => m \in impureLayouts[p][k]
      BY <1>4, <2>2, <3>1
    <3>6. QED
      BY <2>4, <3>3, <3>4, <3>5
  <2>5. QED
    BY <2>3, <2>4
<1>6. LayoutsStay
  <2>1. ~MayTurn /\ layout[l] # None => q.chrome[l] = layout[l]
    BY <1>4, SameChrome
  <2>2. QED
    BY <1>4, <1>5, <2>1 DEF LayoutsStay
<1>7. LayoutsCurrent'
  <2>1. layout'[l] # None => layout'[l].by = release
    BY <1>4, <1>5
  <2>2. LayoutsCurrent
    BY <1>1, CurrentFacts
  <2>3. QED
    BY <1>3, <1>4, <1>5, <2>1, <2>2 DEF LayoutsCurrent
<1>8. SnapshotsSigned' /\ \A key \in Keys : ArtifactStays(key)
  BY <1>1, <1>3, CurrentFacts DEF SnapshotsSigned, Signed, ArtifactStays
<1>9. KeyOf(r)' = KeyOf(r)
  BY <1>2 DEF KeyOf
<1>10. Shows(req[r])'
  BY <1>1, <1>2, <1>3, CurrentFacts DEF Shows
<1>11. Composed(req[r])'
  <2>1. ASSUME NEW m \in Layouts, q.chrome[m] # None, m \notin q.unstored \ {l}
        PROVE  UpToDate(q.chrome, m)'
    <3>1. CASE m = l
      BY <1>2, <1>3, <1>4, <1>5, <3>1 DEF UpToDate, MayTurn
    <3>2. CASE m # l
      BY <1>1, <1>2, <1>3, <1>5, <2>1, <3>2, CurrentFacts DEF Composed, UpToDate, BeforeBake
    <3>3. QED
      BY <3>1, <3>2
  <2>2. \A m \in q.unstored \ {l} : layout'[m] = layout[m]
    BY <1>4, <1>5
  <2>3. QED
    BY <1>1, <1>2, <1>3, <2>1, <2>2, CurrentFacts DEF Composed, UpToDate
<1>12. Found(req[r], html[KeyOf(r)], json[KeyOf(r)])'
  <2>1. q.eligible /\ html[KeyOf(r)] # None =>
          \A m \in Chain[q.route] : UpToDate(html[KeyOf(r)].chrome, m)
    BY <1>1, CurrentFacts DEF Found
  <2>2. ASSUME html[KeyOf(r)] # None, q.eligible, NEW m \in Chain[q.route]
        PROVE  UpToDate(html[KeyOf(r)].chrome, m)'
    <3>1. m \in Layouts /\ html[KeyOf(r)].chrome[m] # None
      BY <1>1, <2>2, CurrentFacts DEF Complete
    <3>2. QED
      BY <1>3, <1>6, <1>9, <2>1, <2>2, <3>1, StaysUpToDate DEF UpToDate
  <2>3. QED
    BY <1>2, <1>3, <1>9, <2>2 DEF Found, UpToDate
<1>13. QED
  BY <1>1, <1>3, <1>6, <1>7, <1>8, <1>9, <1>10, <1>11, <1>12, MovesCurrent
     DEF StoreLayout, CurrentRequest

\* A connection that is vacant again.
LEMMA VacantCurrent ==
  ASSUME IInv, OneByOne, Current, NEW r \in Requests, Throws(r) \/ Respond(r)
  PROVE  Current'
<1>1. /\ InFlight(r) /\ Turn(r, Vacant)
      /\ UNCHANGED <<world, act, cached, impureLayouts, ghosts>>
  BY DEF Throws, Respond, Rendering, InFlight, memory
<1>2. ~InFlight(r)'
  BY <1>1 DEF Turn, InFlight, Vacant, IInv, TypeOK
<1>3. UNCHANGED <<regime, release, ordered, varies, layout, impureLayouts, html, json>>
  BY <1>1 DEF world, cached, ghosts
<1>4. \A key \in Keys : ArtifactStays(key)
  BY <1>3 DEF ArtifactStays
<1>5. LayoutsCurrent' /\ LayoutsStay /\ SnapshotsSigned'
  BY <1>1, <1>3, <1>4, CurrentFacts, StaysSigned, StaysLayouts
<1>6. QED
  BY <1>1, <1>2, <1>3, <1>4, <1>5, MovesCurrent

\* A page that is demoted loses what a pure render left.
LEMMA DemoteCurrent ==
  ASSUME IInv, OneByOne, Current, NEW r \in Requests, Demote(r)
  PROVE  Current'
<1> DEFINE q == req[r]
<1>1. InFlight(r) /\ q.pc = "assemble"
  BY DEF Demote, InFlight
<1>2. /\ UNCHANGED <<world, act, layout, impureLayouts, ghosts>>
      /\ req'[r].pc \in {"sign", "register", "respond"}
      /\ req'[r].pc = "sign" => q.eligible
      /\ ~req'[r].eligible /\ req'[r].shell = q.shell
      /\ req'[r].route = q.route /\ req'[r].user = q.user /\ req'[r].since = q.since
      /\ req'[r].chrome = q.chrome /\ req'[r].unstored = q.unstored
      /\ DeleteArtifact(KeyOf(r)) \/ UNCHANGED <<html, json>>
  <2>1. req' = [req EXCEPT ![r] =
                 [q EXCEPT !.pc = IF q.route \in tombstoned THEN "respond"
                                  ELSE IF ShouldBake(q) THEN "sign" ELSE "register",
                           !.eligible = FALSE, !.layoutImpure = FALSE]]
    BY DEF Demote, Turn
  <2>2. q \in Request /\ (ShouldBake(q) => q.eligible)
    BY <1>1, CurrentFacts DEF ShouldBake
  <2>3. UNCHANGED <<world, act, layout, impureLayouts, ghosts>>
        /\ (DeleteArtifact(KeyOf(r)) \/ UNCHANGED <<html, json>>)
    BY DEF Demote
  <2>4. QED
    BY <2>1, <2>2, <2>3 DEF Turn, Request, IInv, TypeOK
<1>3. UNCHANGED <<regime, release, ordered, layout, varies, impureLayouts>>
  BY <1>2 DEF world, ghosts
<1>4. \A key \in Keys : ArtifactStays(key)
  <2>1. CASE DeleteArtifact(KeyOf(r))
    BY <1>1, <2>1, CurrentFacts, DeletedArtifact DEF IInv
  <2>2. CASE UNCHANGED <<html, json>>
    BY <2>2 DEF ArtifactStays
  <2>3. QED
    BY <1>2, <2>1, <2>2
<1>5. KeyOf(r)' = KeyOf(r)
  BY <1>2 DEF KeyOf
<1>6. Shows(req[r])'
  BY <1>1, <1>2, <1>3, CurrentFacts DEF Shows, Made, Complete
<1>7. Composed(req[r])'
  BY <1>1, <1>2, <1>3, CurrentFacts DEF Composed, UpToDate, MayTurn, BeforeBake, Made
<1>8. Found(req[r], html[KeyOf(r)], json[KeyOf(r)])'
  <2>1. html'[KeyOf(r)] \in {html[KeyOf(r)], None}
    BY <1>1, <1>4, CurrentFacts DEF ArtifactStays
  <2>2. q.eligible /\ html[KeyOf(r)] # None =>
          \A l \in Chain[q.route] : UpToDate(html[KeyOf(r)].chrome, l)
    BY <1>1, CurrentFacts DEF Found
  <2>3. QED
    BY <1>2, <1>3, <1>5, <2>1, <2>2 DEF Found, UpToDate, MayTurn
<1>9. LayoutsCurrent' /\ LayoutsStay /\ SnapshotsSigned'
  BY <1>1, <1>3, <1>4, CurrentFacts, StaysSigned, StaysLayouts
<1>10. QED
  BY <1>1, <1>3, <1>4, <1>5, <1>6, <1>7, <1>8, <1>9, MovesCurrent DEF Demote, CurrentRequest

\* What is rendered is up to date, so that the signature of the cache names it.
LEMMA SignCurrent ==
  ASSUME IInv, OneByOne, Current, NEW r \in Requests, Sign(r)
  PROVE  Current'
<1> DEFINE q == req[r]
<1>1. InFlight(r) /\ q.pc = "sign"
  BY DEF Sign, InFlight
<1>2. /\ UNCHANGED <<world, act, cached, memory, ghosts>>
      /\ req'[r].pc = "storeSnapshot" /\ req'[r].signature = Signature(q.route)
      /\ req'[r].shell = q.shell
      /\ req'[r].route = q.route /\ req'[r].user = q.user /\ req'[r].since = q.since
      /\ req'[r].chrome = q.chrome /\ req'[r].unstored = q.unstored
  BY <1>1, CurrentFacts DEF Sign, Turn, Request, IInv, TypeOK
<1>3. KeyOf(r)' = KeyOf(r)
  BY <1>2 DEF KeyOf
<1>4. \A l \in Chain[q.route] : l \in Layouts /\ Signature(q.route)[l] = layout[l]
  BY <1>1, CurrentFacts DEF Signature
<1>5. Shows(req[r])'
  BY <1>1, <1>2, CurrentFacts, CachesStay DEF Shows
<1>6. Composed(req[r])'
  <2>1. \A l \in Chain[q.route] : UpToDate(q.chrome, l)
    BY <1>1, <1>4, CurrentFacts DEF Composed, Made, Complete, Baking
  <2>2. Signed(req'[r].chrome, req'[r].signature, release, q.route)
    BY <1>2, <1>4, <2>1 DEF Signed, UpToDate
  <2>3. QED
    BY <1>1, <1>2, <2>2, CurrentFacts, CachesStay DEF Composed, Signed, BeforeBake
<1>7. Found(req[r], html[KeyOf(r)], json[KeyOf(r)])'
  <2>1. html[KeyOf(r)] # None => Signed(html[KeyOf(r)].chrome, req'[r].signature, release, q.route)
    BY <1>1, <1>2, <1>4, CurrentFacts DEF Found, Signed, UpToDate
  <2>2. QED
    BY <1>2, <1>3, <2>1, CachesStay DEF Found, Signed
<1>8. CurrentRequest(r)'
  BY <1>5, <1>6, <1>7 DEF CurrentRequest
<1>9. QED
  BY <1>1, <1>2, <1>3, <1>8, TurnsCurrent DEF Sign

LEMMA StoreSnapshotCurrent ==
  ASSUME IInv, OneByOne, Current, NEW r \in Requests, StoreSnapshot(r)
  PROVE  Current'
<1> DEFINE q == req[r]
           snap == [data |-> q.data, for |-> q.for, signature |-> q.signature, build |-> release]
<1>1. InFlight(r) /\ q.pc = "storeSnapshot"
  BY DEF StoreSnapshot, InFlight
<1>2. /\ UNCHANGED <<world, act, layout, html, memory, ghosts>>
      /\ json' = [json EXCEPT ![KeyOf(r)] = snap]
      /\ req'[r].pc = "storeShell" /\ req'[r].shell = q.shell
      /\ req'[r].route = q.route /\ req'[r].user = q.user /\ req'[r].since = q.since
      /\ req'[r].chrome = q.chrome /\ req'[r].unstored = q.unstored
  BY <1>1, CurrentFacts DEF StoreSnapshot, Turn, Request, IInv, TypeOK
<1>3. UNCHANGED <<regime, release, ordered, layout, varies, impureLayouts, html>>
  BY <1>2 DEF world, memory, ghosts
<1>4. /\ json'[KeyOf(r)] = snap
      /\ \A key \in Keys \ {KeyOf(r)} : json'[key] = json[key]
  BY <1>1, <1>2, CurrentFacts DEF IInv, TypeOK
<1>5. KeyOf(r)' = KeyOf(r)
  BY <1>2 DEF KeyOf
<1>6. SnapshotsSigned'
  <2>1. html[KeyOf(r)] # None => Signed(html[KeyOf(r)].chrome, snap.signature, snap.build, KeyOf(r)[1])
    BY <1>1, CurrentFacts DEF Found
  <2>2. SnapshotsSigned
    BY <1>1, CurrentFacts
  <2> HIDE DEF snap
  <2>3. QED
    BY <1>3, <1>4, <2>1, <2>2 DEF SnapshotsSigned, Signed, MayTurn
<1>7. LayoutsCurrent' /\ LayoutsStay
  BY <1>1, <1>3, CurrentFacts, StaysLayouts
<1>8. \A key \in Keys \ {KeyOf(r)} : ArtifactStays(key)
  BY <1>3, <1>4 DEF ArtifactStays
<1>9. Shows(req[r])'
  BY <1>1, <1>2, <1>3, CurrentFacts DEF Shows
<1>10. Composed(req[r])'
  BY <1>1, <1>2, <1>3, CurrentFacts DEF Composed, MayTurn, BeforeBake
<1>11. Found(req[r], html[KeyOf(r)], json[KeyOf(r)])'
  <2>1. Signed(q.chrome, snap.signature, snap.build, q.route)
    BY <1>1, CurrentFacts DEF Composed
  <2> HIDE DEF snap
  <2>2. QED
    BY <1>2, <1>3, <1>4, <1>5, <2>1 DEF Found, Signed, MayTurn
<1>12. QED
  BY <1>1, <1>3, <1>5, <1>6, <1>7, <1>8, <1>9, <1>10, <1>11, MovesCurrent
     DEF StoreSnapshot, CurrentRequest

LEMMA StoreShellCurrent ==
  ASSUME IInv, OneByOne, Current, NEW r \in Requests, StoreShell(r)
  PROVE  Current'
<1> DEFINE q == req[r]
           shell == [data |-> q.data, for |-> q.for, chrome |-> q.chrome]
<1>1. InFlight(r) /\ q.pc = "storeShell"
  BY DEF StoreShell, InFlight
<1>2. /\ UNCHANGED <<world, act, layout, json, memory, ghosts>>
      /\ html' = [html EXCEPT ![KeyOf(r)] = shell]
      /\ req'[r].pc = "register" /\ req'[r].shell = q.shell
      /\ req'[r].route = q.route /\ req'[r].user = q.user /\ req'[r].since = q.since
      /\ req'[r].chrome = q.chrome /\ req'[r].unstored = q.unstored
  BY <1>1, CurrentFacts DEF StoreShell, Turn, Request, IInv, TypeOK
<1>3. UNCHANGED <<regime, release, ordered, layout, varies, impureLayouts, json>>
  BY <1>2 DEF world, memory, ghosts
<1>4. /\ html'[KeyOf(r)] = shell
      /\ \A key \in Keys \ {KeyOf(r)} : html'[key] = html[key]
  BY <1>1, <1>2, CurrentFacts DEF IInv, TypeOK
<1>5. KeyOf(r)' = KeyOf(r)
  BY <1>2 DEF KeyOf
<1>6. SnapshotsSigned'
  <2>1. json[KeyOf(r)] # None =>
          Signed(shell.chrome, json[KeyOf(r)].signature, json[KeyOf(r)].build, KeyOf(r)[1])
    BY <1>1, CurrentFacts DEF Found
  <2>2. SnapshotsSigned
    BY <1>1, CurrentFacts
  <2> HIDE DEF shell
  <2>3. QED
    BY <1>3, <1>4, <2>1, <2>2 DEF SnapshotsSigned, Signed, MayTurn
<1>7. LayoutsCurrent' /\ LayoutsStay
  BY <1>1, <1>3, CurrentFacts, StaysLayouts
<1>8. \A key \in Keys \ {KeyOf(r)} : ArtifactStays(key)
  BY <1>3, <1>4 DEF ArtifactStays
<1>9. Shows(req[r])'
  BY <1>1, <1>2, <1>3, CurrentFacts DEF Shows, Made, Baking
<1>10. Composed(req[r])'
  BY <1>1, <1>2, <1>3, CurrentFacts DEF Composed, MayTurn, BeforeBake
<1>11. Found(req[r], html[KeyOf(r)], json[KeyOf(r)])'
  BY <1>2 DEF Found
<1>12. QED
  BY <1>1, <1>3, <1>5, <1>6, <1>7, <1>8, <1>9, <1>10, <1>11, MovesCurrent
     DEF StoreShell, CurrentRequest

LEMMA RegisterCurrent ==
  ASSUME IInv, OneByOne, Current, NEW r \in Requests,
         Registered(r) \/ \E l \in AllLists : Register(r, l) \/ RegisterFails(r, l)
  PROVE  Current'
<1> DEFINE q == req[r]
<1>1. InFlight(r) /\ q.pc = "register"
  BY DEF Register, RegisterFails, Registered, InFlight
<1>2. UNCHANGED <<world, act, cached, impureLayouts, ghosts>>
  BY DEF Register, RegisterFails, Registered, memory
<1> DEFINE Onwards(to) == /\ to.pc \in {"register", "respond"} /\ to.shell = q.shell
                          /\ to.route = q.route /\ to.user = q.user /\ to.since = q.since
                          /\ to.chrome = q.chrome /\ to.unstored = q.unstored
<1> HIDE DEF Onwards
<1>3. PICK to : Turn(r, to) /\ Onwards(to)
  <2>1. q \in Request
    BY <1>1, CurrentFacts
  <2>2. Onwards([q EXCEPT !.pc = "respond"])
    BY <2>1 DEF Onwards, Request
  <2>3. \A l : Onwards([q EXCEPT !.unlisted = @ \ {l}])
    BY <1>1, <2>1 DEF Onwards, Request
  <2>4. CASE Registered(r)
    BY <2>2, <2>4 DEF Registered
  <2>5. ASSUME NEW l \in AllLists, Register(r, l) \/ RegisterFails(r, l)
        PROVE  Turn(r, [q EXCEPT !.unlisted = @ \ {l}])
    BY <2>5 DEF Register, RegisterFails
  <2>6. QED
    BY <2>2, <2>3, <2>4, <2>5
<1>4. /\ req'[r].pc \in {"register", "respond"} /\ req'[r].shell = q.shell
       /\ req'[r].route = q.route /\ req'[r].user = q.user /\ req'[r].since = q.since
       /\ req'[r].chrome = q.chrome /\ req'[r].unstored = q.unstored
  <2>1. req'[r] = to
    BY <1>3 DEF Turn, IInv, TypeOK
  <2>2. QED
    BY <1>3, <2>1 DEF Onwards
<1>5. UNCHANGED <<regime, release, ordered, layout, varies, impureLayouts, html, json>>
  BY <1>2 DEF world, cached, ghosts
<1>6. KeyOf(r)' = KeyOf(r)
  BY <1>4 DEF KeyOf
<1>7. \A key \in Keys : ArtifactStays(key)
  BY <1>5 DEF ArtifactStays
<1>8. LayoutsCurrent' /\ LayoutsStay /\ SnapshotsSigned'
  BY <1>1, <1>5, <1>7, CurrentFacts, StaysSigned, StaysLayouts
<1>9. Shows(req[r])'
  BY <1>1, <1>4, <1>5, CurrentFacts DEF Shows
<1>10. Composed(req[r])'
  BY <1>1, <1>4, <1>5, CurrentFacts DEF Composed, MayTurn, BeforeBake
<1>11. Found(req[r], html[KeyOf(r)], json[KeyOf(r)])'
  BY <1>4 DEF Found
<1>12. QED
  BY <1>1, <1>3, <1>5, <1>6, <1>7, <1>8, <1>9, <1>10, <1>11, MovesCurrent DEF CurrentRequest

\* Artifacts go, and no request moves: actions and purges.
LEMMA ArtifactsGo ==
  ASSUME IInv, OneByOne, Current,
         UNCHANGED <<regime, release, ordered, varies, layout, impureLayouts, req>>,
         \A key \in Keys : ArtifactStays(key)
  PROVE  Current'
<1>1. LayoutsCurrent' /\ LayoutsStay /\ SnapshotsSigned'
  BY StaysSigned, StaysLayouts DEF Current
<1>2. ASSUME NEW r \in Requests, InFlight(r)'
      PROVE  InFlight(r) /\ req'[r] = req[r] /\ ArtifactStays(KeyOf(r))
  BY <1>2, InHandFacts DEF InFlight
<1>3. QED
  BY <1>1, <1>2, StepsCurrent

LEMMA ActionsCurrent ==
  ASSUME IInv, OneByOne, Current, NEW w \in Writes,
         RunAction(w) \/ InvalidateActor(w) \/ ActionFails(w)
  PROVE  Current'
<1>1. UNCHANGED <<regime, release, ordered, varies, layout, impureLayouts, req>>
  BY DEF RunAction, InvalidateActor, ActionFails, world, cached, memory, ghosts
<1>2. DeleteArtifact(ActorKey(w)) \/ UNCHANGED <<html, json>>
  BY DEF RunAction, InvalidateActor, ActionFails, cached
<1>3. \A key \in Keys : ArtifactStays(key)
  BY <1>2, ActorKeyFacts, DeletedArtifact DEF IInv, ArtifactStays
<1>4. QED
  BY <1>1, <1>3, ArtifactsGo

LEMMA PurgeCurrent ==
  ASSUME IInv, OneByOne, Current, NEW key \in Keys, Purge(key)
  PROVE  Current'
<1>1. UNCHANGED <<regime, release, ordered, varies, layout, impureLayouts, req>>
  BY DEF Purge, world, memory, ghosts
<1>2. \A k \in Keys : ArtifactStays(k)
  BY DeletedArtifact DEF Purge, IInv
<1>3. QED
  BY <1>1, <1>2, ArtifactsGo

LEMMA TombstoneCurrent ==
  ASSUME IInv, OneByOne, Current, NEW k \in Routes, Tombstone(k)
  PROVE  Current'
<1>1. UNCHANGED <<regime, release, ordered, varies, layout, impureLayouts, req>>
  BY DEF Tombstone, memory, ghosts
<1>2. <<k, None>> \in Keys
  <2>1. k \notin PerUser /\ Anonymous \in Viewers
    BY DEF Tombstone, Viewers
  <2>2. Key(k, Anonymous) = <<k, None>>
    BY DEF Key
  <2>3. QED
    BY <2>1, <2>2 DEF Keys
<1>3. \A key \in Keys : ArtifactStays(key)
  BY <1>2, DeletedArtifact DEF Tombstone, IInv
<1>4. QED
  BY <1>1, <1>3, ArtifactsGo

\* deleteLayout is called while no request is being answered.
LEMMA DeleteLayoutCurrent ==
  ASSUME IInv, OneByOne, Current, NEW l \in Layouts, DeleteLayout(l)
  PROVE  Current'
<1>1. /\ UNCHANGED <<world, act, html, json, memory, req, owed>>
      /\ \A r \in Requests : ~InFlight(r)
      /\ layout'[l] = None /\ \A m \in Layouts \ {l} : layout'[m] = layout[m]
      /\ \/ ordered' = ordered
         \/ ordered' = release /\ \A m \in Layouts : layout'[m] = None
  BY DEF DeleteLayout, Left, OneByOne, AtRest, IInv, TypeOK, Chromes
<1>2. UNCHANGED <<regime, release, varies, impureLayouts>>
  BY <1>1 DEF world, memory
<1>3. LayoutsCurrent'
  <2>1. LayoutsCurrent /\ release \in Nat
    BY DEF Current, IInv, TypeOK, Releases
  <2>2. QED
    BY <1>1, <1>2, <2>1 DEF LayoutsCurrent, MayTurn
<1>4. SnapshotsSigned'
  BY <1>1, <1>2 DEF Current, SnapshotsSigned, Signed, MayTurn
<1>5. Apart' /\ \A r \in Requests : CurrentRequest(r)'
  BY <1>1 DEF Apart, CurrentRequest, InFlight
<1>6. QED
  BY <1>3, <1>4, <1>5 DEF Current

\* A loader changes what it reads.
LEMMA ChangeCurrent ==
  ASSUME IInv, OneByOne, Current, NEW x \in Loaders, Change(x)
  PROVE  Current'
<1>1. /\ UNCHANGED <<regime, release, ordered, layout, html, json, impureLayouts, req>>
      /\ MayTurn /\ MayTurn'
  BY DEF Change, cached, memory, ghosts, MayTurn
<1>2. LayoutsCurrent' /\ SnapshotsSigned'
  BY <1>1 DEF Current, LayoutsCurrent, SnapshotsSigned, Signed
<1>3. LayoutsStay /\ \A key : ArtifactStays(key)
  BY <1>1 DEF LayoutsStay, ArtifactStays
<1>4. \A r \in Requests : InFlight(r)' => InFlight(r) /\ req'[r] = req[r]
  BY <1>1 DEF InFlight
<1>5. QED
  BY <1>1, <1>2, <1>3, <1>4, StepsCurrent

LEMMA CrashCurrent ==
  ASSUME IInv, OneByOne, Current, NEW p \in Procs, Crash(p)
  PROVE  Current'
<1>1. /\ UNCHANGED <<regime, release, ordered, varies, layout, html, json>>
      /\ Restarted({p})
  BY DEF Crash, cached, ghosts
<1>2. \A k \in Routes, t \in Procs : impureLayouts'[t][k] \subseteq impureLayouts[t][k]
  BY <1>1 DEF Restarted, Fresh
<1>3. \A key : ArtifactStays(key)
  BY <1>1 DEF ArtifactStays
<1>4. LayoutsCurrent' /\ LayoutsStay /\ SnapshotsSigned'
  BY <1>1, <1>2, <1>3, StaysSigned, StaysLayouts DEF Current
<1>5. \A r \in Requests : InFlight(r)' => InFlight(r) /\ req'[r] = req[r]
  BY <1>1 DEF Restarted, InFlight, Vacant
<1>6. QED
  BY <1>1, <1>3, <1>4, <1>5, StepsCurrent

\* A deploy ends every request; the new processes have found no layout
\* specific to anybody.
LEMMA DeployCurrent ==
  ASSUME IInv, OneByOne, Current, Deploy
  PROVE  Current'
<1>1. /\ UNCHANGED <<regime, ordered, varies, layout, html, json>>
      /\ release \in Nat /\ release' = release + 1 /\ ordered \in Nat
      /\ Restarted(Procs) /\ LayoutsCurrent /\ SnapshotsSigned
  BY DEF Deploy, cached, ghosts, Current, IInv, TypeOK, Releases
<1>2. \A r \in Requests : ~InFlight(r)'
  <2>1. \A r \in Requests : InFlight(r) => req[r].proc \in Procs
    BY InHandFacts DEF Request
  <2>2. QED
    BY <1>1, <2>1 DEF Restarted, InFlight, Vacant
<1>3. \A p \in Procs, k \in Routes : impureLayouts'[p][k] = {}
  BY <1>1 DEF Restarted, Fresh
<1>4. LayoutsCurrent'
  BY <1>1, <1>3 DEF LayoutsCurrent, MayTurn
<1>5. SnapshotsSigned'
  BY <1>1 DEF SnapshotsSigned, Signed, MayTurn
<1>6. Apart' /\ \A r \in Requests : CurrentRequest(r)'
  BY <1>2 DEF Apart, CurrentRequest
<1>7. QED
  BY <1>4, <1>5, <1>6 DEF Current

LEMMA InitCurrent == Init => Current
<1> SUFFICES ASSUME Init PROVE Current
  OBVIOUS
<1>1. LayoutsCurrent /\ SnapshotsSigned
  BY DEF Init, LayoutsCurrent, SnapshotsSigned, NoChrome
<1>2. Apart /\ \A r \in Requests : CurrentRequest(r)
  BY DEF Init, Apart, CurrentRequest, InFlight, Vacant
<1>3. QED
  BY <1>1, <1>2 DEF Current

\* What may happen in a behaviour is settled at its start.
LEMMA RegimeStays == ASSUME [Next]_vars PROVE regime' = regime
<1>1. ASSUME NEW r \in Requests, NEW p \in Procs, NEW k \in Routes, NEW u \in Viewers,
             Arrive(r, p, k, u)
      PROVE  regime' = regime
  BY <1>1 DEF Arrive, world
<1>2. ASSUME NEW r \in Requests, Lookup(r) PROVE regime' = regime
  BY <1>2 DEF Lookup, ReadShell, ReadSnapshot, Check, Drop, Serve, world
<1>3. ASSUME NEW r \in Requests, Render(r) PROVE regime' = regime
  BY <1>3 DEF Render, LoadPage, Assemble, Throws, ReuseLayout, BakeLayout, StoreLayout, world
<1>4. ASSUME NEW r \in Requests, WriteBack(r) PROVE regime' = regime
  BY <1>4 DEF WriteBack, Demote, Sign, StoreSnapshot, StoreShell, Register, RegisterFails,
     Registered, Respond, world
<1>5. ASSUME NEW w \in Writes, RunAction(w) \/ InvalidateActor(w) \/ ActionFails(w)
      PROVE  regime' = regime
  BY <1>5 DEF RunAction, InvalidateActor, ActionFails, world
<1>6. CASE \/ \E l \in Layouts : DeleteLayout(l)
           \/ \E x \in Loaders : Change(x)
           \/ \E key \in Keys : Purge(key)
           \/ \E k \in Routes : Tombstone(k)
           \/ \E p \in Procs : Crash(p)
           \/ Deploy
  BY <1>6 DEF DeleteLayout, Change, Purge, Tombstone, Crash, Deploy, world
<1>7. CASE UNCHANGED vars
  BY <1>7 DEF vars, world
<1>8. QED
  BY <1>1, <1>2, <1>3, <1>4, <1>5, <1>6, <1>7 DEF Next

\* Where a build id tells the releases apart, or no layout turns out specific
\* to somebody, every step keeps the layouts current.
LEMMA StepCurrent ==
  ASSUME HasBuildId \/ \A R \in Regimes : "personal" \notin R,
         IInv, Current, [Next]_vars
  PROVE  Current'
<1>1. regime' = regime
  BY RegimeStays
<1>2. CASE ~OneByOne
  BY <1>1, <1>2 DEF Current, OneByOne
<1>3. CASE OneByOne
  <2>1. HasBuildId \/ ~MayTurn
    BY DEF IInv, TypeOK, MayTurn
  <2>2. ASSUME NEW r \in Requests, NEW p \in Procs, NEW k \in Routes, NEW u \in Viewers,
               Arrive(r, p, k, u)
        PROVE  Current'
    BY <1>3, <2>2, ArriveCurrent
  <2>3. ASSUME NEW r \in Requests, Lookup(r) PROVE Current'
    BY <1>3, <2>1, <2>3, ReadShellCurrent, ReadSnapshotCurrent, CheckCurrent, DropCurrent,
       ServeCurrent DEF Lookup
  <2>4. ASSUME NEW r \in Requests, Render(r) PROVE Current'
    BY <1>3, <2>4, LoadPageCurrent, VacantCurrent, LayoutCurrent, StoreLayoutCurrent DEF Render
  <2>5. ASSUME NEW r \in Requests, WriteBack(r) PROVE Current'
    BY <1>3, <2>5, DemoteCurrent, SignCurrent, StoreSnapshotCurrent, StoreShellCurrent,
       RegisterCurrent, VacantCurrent DEF WriteBack
  <2>6. ASSUME NEW w \in Writes, RunAction(w) \/ InvalidateActor(w) \/ ActionFails(w)
        PROVE  Current'
    BY <1>3, <2>6, ActionsCurrent
  <2>7. CASE \/ \E l \in Layouts : DeleteLayout(l)
             \/ \E x \in Loaders : Change(x)
             \/ \E key \in Keys : Purge(key)
             \/ \E k \in Routes : Tombstone(k)
    BY <1>3, <2>7, DeleteLayoutCurrent, ChangeCurrent, PurgeCurrent, TombstoneCurrent
  <2>8. CASE Deploy \/ \E p \in Procs : Crash(p)
    BY <1>3, <2>8, DeployCurrent, CrashCurrent
  <2>9. CASE UNCHANGED vars
    <3>1. UNCHANGED <<regime, release, ordered, varies, layout, impureLayouts, req, html, json>>
      BY <2>9 DEF vars, world, cached, memory, ghosts
    <3>2. QED
      BY <1>3, <3>1, ArtifactsGo DEF ArtifactStays
  <2>10. QED
    BY <2>2, <2>3, <2>4, <2>5, <2>6, <2>7, <2>8, <2>9 DEF Next
<1>4. QED
  BY <1>2, <1>3

\* Where the requests for one artifact do not overlap and no write or deletion
\* fails, every page shows the layouts of a release no older than the last
\* deleteLayout of all of them: the pages that were baked long before included,
\* and although nothing deletes their shells.  That needs the build id as soon as a layout may turn
\* out specific to somebody: without it a shell signed MISSING is valid in
\* every later release that has the layout deleted.
THEOREM DeleteLayoutReachesEveryPage ==
  ASSUME HasBuildId \/ \A R \in Regimes : "personal" \notin R
  PROVE  Spec => []ChromeIsCurrent
<1>1. IInv /\ Current => ChromeIsCurrent
  <2> SUFFICES ASSUME IInv, Current, OneByOne, NEW r \in Requests, req[r].pc = "respond",
                      NEW l \in Chain[req[r].route]
               PROVE  req[r].chrome[l].by >= req[r].since
    BY DEF ChromeIsCurrent, OneByOne
  <2>1. InFlight(r)
    BY DEF InFlight
  <2>2. /\ Shows(req[r]) /\ l \in Layouts /\ req[r].since \in Int
        /\ req[r].chrome[l] \in Chrome \union {None}
    BY <2>1, CurrentFacts DEF Request, Chromes
  <2>3. req[r].chrome[l] # None /\ ordered <= req[r].chrome[l].by /\ req[r].since = ordered
    BY <2>2 DEF Shows, Complete
  <2>4. QED
    BY <2>2, <2>3 DEF Chrome, Releases
<1>2. IInv /\ Current /\ [Next]_vars => Current'
  BY StepCurrent
<1>3. QED
  BY <1>1, <1>2, InitCurrent, Invariance, PTL DEF Spec
=============================================================================
