---------------------------- MODULE LiveHubsProofs ----------------------------
(***************************************************************************)
(* Proofs about LiveHubs, for every set of elements, paths and URLs.       *)
(***************************************************************************)
EXTENDS LiveHubs, TLAPS

-----------------------------------------------------------------------------
(* The inductive invariant, of pages before and after the hubs nothing     *)
(* refers to are forgotten.                                                *)

Used(p, h) == p.hubs[h] # None

IsSse(u) == u.proto = "sse"

\* What a state refers to exists; a connection is one of the states, its element
\* a subscriber, and nothing was destroyed.
Referred(p) ==
  /\ \A s \in p.states : Used(p, s.hub) /\ p.hubs[s.hub].url = s.url
  /\ \A e \in Elements : p.conn[e] # None =>
       /\ p.alive /\ p.conn[e] \in p.states /\ p.conn[e].el = e
       /\ e \in p.hubs[p.conn[e].hub].subscribers
  /\ \A u \in Urls : p.reg[u] # None => Used(p, p.reg[u]) /\ p.hubs[p.reg[u]].url = u

\* An EventSource state is its element's connection and its hub is registered.
SseStatesRegistered(p) ==
  p.alive => \A s \in p.states : IsSse(s.url) =>
    p.conn[s.el] = s /\ p.reg[s.url] = s.hub

\* A hub for an EventSource that is not registered is empty and closed.
RemovedHubsClosed(p) ==
  p.alive => \A h \in HubIds :
    Used(p, h) /\ IsSse(p.hubs[h].url) /\ p.reg[p.hubs[h].url] # h =>
      p.hubs[h].subscribers = {} /\ p.hubs[h].link = "none"

Silent(hub) == hub.paused => hub.link = "none" /\ ~hub.timer

Underway(hub) ==
  hub.subscribers # {} /\ ~hub.paused => hub.link # "none" \/ Timers(hub) > 0

HubsSilent(p) == \A h \in HubIds : Used(p, h) => Silent(p.hubs[h])

HubsUnderway(p) == p.alive => \A h \in HubIds : Used(p, h) => Underway(p.hubs[h])

Sound(p) ==
  /\ p \in Page
  /\ Referred(p)
  /\ SseStatesRegistered(p)
  /\ RemovedHubsClosed(p)
  /\ HubsSilent(p)
  /\ HubsUnderway(p)

IInv == Sound(page) /\ asked \subseteq Urls

-----------------------------------------------------------------------------
(* One hub.                                                                *)

\* What every operation on a hub keeps.
Alike(hub, new) == new.url = hub.url /\ new.subscribers = hub.subscribers

LEMMA NewHub ==
  ASSUME NEW u \in Urls
  PROVE  /\ createHub(u) \in Hub
         /\ createHub(u).url = u /\ createHub(u).subscribers = {}
         /\ createHub(u).link = "none" /\ Silent(createHub(u))
  BY DEF createHub, Hub, Silent

\* Each of the changes of one hub yields a hub of the same URL with the same
\* subscribers.
LEMMA ConnectHub ==
  ASSUME NEW hub \in Hub, hub.url.proto \in {"sse", "ws"}
  PROVE  /\ connect(hub) \in Hub /\ Alike(hub, connect(hub))
         /\ Silent(hub) => Silent(connect(hub))
         /\ Underway(connect(hub))
         /\ hub.subscribers = {} /\ IsSse(hub.url) => connect(hub) = hub
  <1>1. CASE hub.url.proto = "sse"
    <2>1. connect(hub) = hub \/ connect(hub) = [hub EXCEPT !.link = "live"]
      BY <1>1 DEF connect, connectSseHub
    <2>2. hub.paused \/ hub.subscribers = {} => connect(hub) = hub
      BY <1>1 DEF connect, connectSseHub
    <2>3. ~hub.paused /\ hub.subscribers # {} => connect(hub).link = "live"
      BY <1>1 DEF connect, connectSseHub, Hub
    <2>. QED BY <2>1, <2>2, <2>3 DEF Hub, Alike, Silent, Underway
  <1>2. CASE hub.url.proto = "ws"
    <2>. DEFINE c == Count(hub.link = "closing")
    <2>1. c \in Nat
      BY DEF Count
    <2>2. connect(hub) = hub
          \/ connect(hub) = [hub EXCEPT !.link = "live", !.closing = hub.closing + c]
      BY <1>2 DEF connect, connectWsHub
    <2>3. hub.paused => connect(hub) = hub
      BY <1>2 DEF connect, connectWsHub
    <2>4. ~hub.paused => connect(hub).link = "live"
      BY <1>2 DEF connect, connectWsHub, Hub
    <2>. HIDE DEF c
    <2>. hub.closing + c \in Nat
      BY <2>1 DEF Hub
    <2>5. connect(hub) \in Hub
      BY <2>2, Zenon DEF Hub
    <2>6. Alike(hub, connect(hub))
      BY <2>2 DEF Hub, Alike
    <2>7. connect(hub).paused = hub.paused
      BY <2>2 DEF Hub
    <2>. QED BY <1>2, <2>3, <2>4, <2>5, <2>6, <2>7, Zenon DEF Silent, Underway, IsSse
  <1>. QED BY <1>1, <1>2

LEMMA UntimedHub ==
  ASSUME NEW hub \in Hub
  PROVE  /\ Untimed(hub) \in Hub /\ Alike(hub, Untimed(hub))
         /\ Untimed(hub).link = hub.link /\ (Silent(hub) => Silent(Untimed(hub)))
         /\ ~Untimed(hub).timer /\ Untimed(hub).paused = hub.paused
  BY DEF Untimed, Hub, Alike, Silent

LEMMA TimedHub ==
  ASSUME NEW hub \in Hub
  PROVE  /\ Timed(hub) \in Hub /\ Alike(hub, Timed(hub))
         /\ Timed(hub).link = hub.link /\ (~hub.paused => Silent(Timed(hub)))
         /\ Underway(Timed(hub))
  <1>. DEFINE c == Count(hub.timer)
  <1>1. c \in Nat /\ c + 1 > 0
    BY DEF Count
  <1>2. Timed(hub) = [hub EXCEPT !.timer = TRUE, !.loose = hub.loose + c]
    BY DEF Timed
  <1>. HIDE DEF c
  <1>. hub.loose + c \in Nat
    BY <1>1 DEF Hub
  <1>3. Timed(hub) \in Hub
    BY <1>2, Zenon DEF Hub
  <1>4. /\ Timed(hub).url = hub.url /\ Timed(hub).subscribers = hub.subscribers
        /\ Timed(hub).link = hub.link /\ Timed(hub).paused = hub.paused
        /\ Timed(hub).timer = TRUE /\ Timed(hub).loose = hub.loose + c
    BY <1>2 DEF Hub
  <1>5. hub.loose \in Nat
    BY DEF Hub
  <1>6. Timers(Timed(hub)) = hub.loose + c + 1
    BY <1>4 DEF Timers, Count
  <1>7. Timers(Timed(hub)) > 0
    BY <1>1, <1>5, <1>6
  <1>. QED BY <1>3, <1>4, <1>7, Zenon DEF Alike, Silent, Underway

LEMMA UnlinkedHub ==
  ASSUME NEW hub \in Hub
  PROVE  /\ Unlinked(hub) \in Hub /\ Alike(hub, Unlinked(hub))
         /\ Unlinked(hub).link = "none" /\ (Silent(hub) => Silent(Unlinked(hub)))
         /\ Unlinked(hub).timer = hub.timer /\ Unlinked(hub).paused = hub.paused
  <1>. DEFINE c == Count(hub.url.proto = "ws" /\ hub.link # "none")
  <1>1. c \in Nat
    BY DEF Count
  <1>2. Unlinked(hub) = [hub EXCEPT !.link = "none", !.closing = hub.closing + c]
    BY DEF Unlinked
  <1>. HIDE DEF c
  <1>. hub.closing + c \in Nat
    BY <1>1 DEF Hub
  <1>3. Unlinked(hub) \in Hub
    BY <1>2, Zenon DEF Hub
  <1>4. /\ Unlinked(hub).url = hub.url /\ Unlinked(hub).subscribers = hub.subscribers
        /\ Unlinked(hub).link = "none"
        /\ Unlinked(hub).timer = hub.timer /\ Unlinked(hub).paused = hub.paused
    BY <1>2 DEF Hub
  <1>. QED BY <1>3, <1>4, Zenon DEF Alike, Silent

LEMMA ForgottenHub ==
  ASSUME NEW hub \in Hub
  PROVE  /\ Forgotten(hub) \in Hub /\ Alike(hub, Forgotten(hub))
         /\ Forgotten(hub).link = "none" /\ (Silent(hub) => Silent(Forgotten(hub)))
         /\ Forgotten(hub).paused = hub.paused
  <1>. DEFINE c == Count(hub.link = "live")
              d == Count(hub.link = "closing")
  <1>1. c \in Nat /\ d \in Nat
    BY DEF Count
  <1>2. Forgotten(hub) = [hub EXCEPT !.link = "none", !.strays = hub.strays + c,
                                     !.closing = hub.closing + d]
    BY DEF Forgotten
  <1>. HIDE DEF c, d
  <1>. hub.strays + c \in Nat /\ hub.closing + d \in Nat
    BY <1>1 DEF Hub
  <1>3. Forgotten(hub) \in Hub
    BY <1>2, Zenon DEF Hub
  <1>4. /\ Forgotten(hub).url = hub.url /\ Forgotten(hub).subscribers = hub.subscribers
        /\ Forgotten(hub).link = "none"
        /\ Forgotten(hub).timer = hub.timer /\ Forgotten(hub).paused = hub.paused
    BY <1>2 DEF Hub
  <1>. QED BY <1>3, <1>4, Zenon DEF Alike, Silent

LEMMA PausedHub ==
  ASSUME NEW hub \in Hub
  PROVE  /\ pauseLiveState(hub) \in Hub /\ Alike(hub, pauseLiveState(hub))
         /\ Silent(hub) => Silent(pauseLiveState(hub))
         /\ Underway(hub) => Underway(pauseLiveState(hub))
         /\ hub.link = "none" => pauseLiveState(hub).link = "none"
  <1>1. CASE hub.url.proto = "ws"
    BY <1>1 DEF pauseLiveState, Alike
  <1>2. CASE hub.url.proto # "ws"
    <2>. DEFINE q == Unlinked(Untimed(hub))
    <2>1. q \in Hub /\ Alike(hub, q) /\ q.link = "none" /\ ~q.timer
      BY UntimedHub, UnlinkedHub DEF Alike
    <2>2. pauseLiveState(hub) = [q EXCEPT !.paused = TRUE]
      BY <1>2 DEF pauseLiveState
    <2>. HIDE DEF q
    <2>. QED BY <2>1, <2>2 DEF Hub, Alike, Silent, Underway
  <1>. QED BY <1>1, <1>2

LEMMA RestartedHub ==
  ASSUME NEW hub \in Hub, hub.url.proto \in {"sse", "ws"}
  PROVE  /\ Restarted(hub) \in Hub /\ Alike(hub, Restarted(hub))
         /\ Silent(Restarted(hub)) /\ Underway(Restarted(hub))
         /\ hub.link = "none" /\ hub.subscribers = {} /\ IsSse(hub.url)
              => Restarted(hub).link = "none"
  <1>. DEFINE q == [Untimed(hub) EXCEPT !.paused = FALSE]
  <1>1. q \in Hub /\ Alike(hub, q) /\ Silent(q) /\ q.link = hub.link
    BY UntimedHub DEF Hub, Alike, Silent
  <1>2. Restarted(hub) = connect(q)
    BY DEF Restarted
  <1>. HIDE DEF q
  <1>. QED BY <1>1, <1>2, ConnectHub DEF Alike

LEMMA LooseHub ==
  ASSUME NEW hub \in Hub, hub.loose > 0
  PROVE  /\ WithoutLoose(hub) \in Hub /\ Alike(hub, WithoutLoose(hub))
         /\ WithoutLoose(hub).link = hub.link /\ (Silent(hub) => Silent(WithoutLoose(hub)))
  <1>. DEFINE c == Count(~hub.timer)
  <1>1. c \in {0, 1}
    BY DEF Count
  <1>2. WithoutLoose(hub) = [Untimed(hub) EXCEPT !.loose = Untimed(hub).loose - c]
    BY DEF WithoutLoose
  <1>. HIDE DEF c
  <1>3. Untimed(hub) \in Hub /\ Untimed(hub).loose = hub.loose
    BY DEF Untimed, Hub
  <1>. Untimed(hub).loose - c \in Nat
    BY <1>1, <1>3 DEF Hub
  <1>4. WithoutLoose(hub) \in Hub
    BY <1>2, <1>3, Zenon DEF Hub
  <1>5. /\ WithoutLoose(hub).url = hub.url /\ WithoutLoose(hub).subscribers = hub.subscribers
        /\ WithoutLoose(hub).link = hub.link
        /\ WithoutLoose(hub).timer = FALSE /\ WithoutLoose(hub).paused = hub.paused
    BY <1>2 DEF Hub, Untimed
  <1>. QED BY <1>4, <1>5, Zenon DEF Alike, Silent

\* Other subscribers change nothing else.
LEMMA SubscribedHub ==
  ASSUME NEW hub \in Hub, NEW subs \in SUBSET Elements,
         NEW new, new = [hub EXCEPT !.subscribers = subs]
  PROVE  /\ new \in Hub /\ new.url = hub.url /\ new.subscribers = subs
         /\ new.link = hub.link /\ new.paused = hub.paused
         /\ Silent(hub) => Silent(new)
         /\ Underway(hub) /\ (hub.subscribers = {} => subs = {}) => Underway(new)
  <1>1. /\ new \in Hub /\ new.url = hub.url /\ new.subscribers = subs
        /\ new.link = hub.link /\ new.paused = hub.paused /\ new.timer = hub.timer
        /\ new.loose = hub.loose
    BY DEF Hub
  <1>2. Timers(new) = Timers(hub)
    BY <1>1 DEF Timers
  <1>. QED BY <1>1, <1>2, Zenon DEF Silent, Underway

-----------------------------------------------------------------------------
(* One change of a page.                                                   *)

LEMMA PageFields ==
  ASSUME NEW p \in Page
  PROVE  /\ p.conn \in [Elements -> State \union {None}]
         /\ p.states \subseteq State
         /\ p.reg \in [Urls -> HubIds \union {None}]
         /\ p.hubs \in [HubIds -> Hub \union {None}]
         /\ p.alive \in BOOLEAN
         /\ \A h \in HubIds : Used(p, h) => p.hubs[h] \in Hub
         /\ \A s \in p.states : s.el \in Elements /\ s.url \in Urls /\ s.hub \in HubIds
         /\ \A e \in Elements : p.conn[e] # None => p.conn[e] \in State
         /\ \A u \in Urls : p.reg[u] # None => p.reg[u] \in HubIds
  BY DEF Page, State, Used

\* Any hubs may change together, as long as each stays what it was to the others.
LEMMA HubsChange ==
  ASSUME NEW p, Sound(p), NEW f \in [HubIds -> Hub \union {None}],
         \A h \in HubIds : f[h] = None <=> p.hubs[h] = None,
         \A h \in HubIds : Used(p, h) =>
           /\ Alike(p.hubs[h], f[h]) /\ Silent(f[h])
           /\ p.alive => Underway(f[h])
           /\ p.hubs[h].link = "none" /\ p.hubs[h].subscribers = {} /\ IsSse(p.hubs[h].url)
                => f[h].link = "none"
  PROVE  Sound([p EXCEPT !.hubs = f])
  <1>. DEFINE q == [p EXCEPT !.hubs = f]
  <1>1. /\ q \in Page /\ q.conn = p.conn /\ q.states = p.states /\ q.reg = p.reg
        /\ q.hubs = f /\ q.alive = p.alive
    BY DEF Sound, Page
  <1>. HIDE DEF q
  <1>2. Referred(q)
    BY <1>1, PageFields DEF Sound, Referred, Used, Alike
  <1>3. SseStatesRegistered(q)
    BY <1>1 DEF Sound, SseStatesRegistered
  <1>4. RemovedHubsClosed(q)
    BY <1>1, PageFields DEF Sound, RemovedHubsClosed, Used, Alike
  <1>5. HubsSilent(q) /\ HubsUnderway(q)
    BY <1>1 DEF Sound, HubsSilent, HubsUnderway, Used
  <1>6. Sound(q)
    BY <1>1, <1>2, <1>3, <1>4, <1>5 DEF Sound
  <1>. QED BY <1>6 DEF q

\* In particular one hub.
LEMMA HubChange ==
  ASSUME NEW p, Sound(p), NEW h \in HubIds, Used(p, h), NEW hub \in Hub,
         Alike(p.hubs[h], hub), Silent(hub), p.alive => Underway(hub),
         p.hubs[h].link = "none" /\ p.hubs[h].subscribers = {} /\ IsSse(p.hubs[h].url)
           => hub.link = "none"
  PROVE  Sound(WithHub(p, h, hub))
  <1>. DEFINE f == [p.hubs EXCEPT ![h] = hub]
  <1>1. f \in [HubIds -> Hub \union {None}]
    BY PageFields DEF Sound
  <1>2. f[h] = hub /\ \A g \in HubIds \ {h} : f[g] = p.hubs[g]
    BY PageFields DEF Sound
  <1>3. WithHub(p, h, hub) = [p EXCEPT !.hubs = f]
    BY PageFields DEF Sound, WithHub
  <1>4. \A g \in HubIds : f[g] = None <=> p.hubs[g] = None
    BY <1>2, NoneAssumption DEF Used
  <1>5. \A g \in HubIds : Used(p, g) => Alike(p.hubs[g], p.hubs[g])
    BY DEF Alike
  <1>. HIDE DEF f
  <1>. QED BY <1>1, <1>2, <1>3, <1>4, <1>5, HubsChange DEF Sound, HubsSilent, HubsUnderway

\* Forgetting what nothing refers to.
LEMMA CollectedSound ==
  ASSUME NEW p, Sound(p)
  PROVE  Sound(Collected(p)) /\ Collected(p).alive = p.alive
  <1>. DEFINE q == Collected(p)
  <1>1. /\ q \in Page /\ q.conn = p.conn /\ q.states = p.states /\ q.reg = p.reg
        /\ q.alive = p.alive
        /\ \A h \in HubIds : q.hubs[h] = IF p.hubs[h] # None /\ InUse(p, h) THEN p.hubs[h]
                                         ELSE None
    BY DEF Sound, Page, Collected
  <1>. HIDE DEF q
  <1>2. \A h \in HubIds : Used(q, h) => Used(p, h) /\ q.hubs[h] = p.hubs[h]
    BY <1>1 DEF Used
  <1>3. \A s \in p.states : Used(q, s.hub)
    BY <1>1, PageFields DEF Sound, Referred, Used, InUse
  <1>4. \A u \in Urls : p.reg[u] # None => Used(q, p.reg[u])
    BY <1>1, PageFields DEF Sound, Referred, Used, InUse
  <1>5. Referred(q)
    BY <1>1, <1>2, <1>3, <1>4, PageFields DEF Sound, Referred
  <1>6. SseStatesRegistered(q)
    BY <1>1 DEF Sound, SseStatesRegistered
  <1>7. RemovedHubsClosed(q)
    BY <1>1, <1>2 DEF Sound, RemovedHubsClosed
  <1>8. HubsSilent(q) /\ HubsUnderway(q)
    BY <1>1, <1>2 DEF Sound, HubsSilent, HubsUnderway
  <1>9. Sound(q)
    BY <1>1, <1>5, <1>6, <1>7, <1>8 DEF Sound
  <1>. QED BY <1>1, <1>9 DEF q

LEMMA UnregisterSound ==
  ASSUME NEW p, Sound(p), NEW s \in p.states
  PROVE  LET q == unregisterLiveState(p, s)
         IN  /\ Sound(q) /\ q.hubs = p.hubs /\ q.reg = p.reg /\ q.alive = p.alive
             /\ p.conn[s.el] = s => q.conn[s.el] = None
             /\ q.states = p.states \ {s}
  <1>. DEFINE q == unregisterLiveState(p, s)
  <1>1. s.el \in Elements
    BY PageFields DEF Sound
  <1>2. /\ q \in Page /\ q.states = p.states \ {s} /\ q.reg = p.reg
        /\ q.hubs = p.hubs /\ q.alive = p.alive
        /\ \A e \in Elements : q.conn[e] = IF e = s.el /\ p.conn[e] = s THEN None ELSE p.conn[e]
    BY <1>1 DEF Sound, Page, unregisterLiveState
  <1>. HIDE DEF q
  <1>3. Referred(q)
    BY <1>1, <1>2 DEF Sound, Referred, Used
  <1>4. SseStatesRegistered(q)
    BY <1>1, <1>2, PageFields DEF Sound, SseStatesRegistered
  <1>5. RemovedHubsClosed(q) /\ HubsSilent(q) /\ HubsUnderway(q)
    BY <1>2 DEF Sound, RemovedHubsClosed, HubsSilent, HubsUnderway, Used
  <1>6. Sound(q)
    BY <1>2, <1>3, <1>4, <1>5 DEF Sound
  <1>. QED BY <1>1, <1>2, <1>6 DEF q

\* A hub without subscribers is removed; one for an EventSource is registered.
LEMMA RemoveSound ==
  ASSUME NEW p, Sound(p), NEW h \in HubIds, Used(p, h),
         p.alive /\ IsSse(p.hubs[h].url) => p.reg[p.hubs[h].url] = h
  PROVE  LET q == removeHub(p, h)
         IN  Sound(q) /\ q.alive = p.alive /\ q.conn = p.conn /\ q.states = p.states
  <1>. DEFINE hub == p.hubs[h]
              new == Unlinked(Untimed(hub))
              r == WithHub(p, h, new)
              q == removeHub(p, h)
  <1>1. CASE hub.subscribers # {}
    BY <1>1 DEF removeHub
  <1>2. CASE hub.subscribers = {}
    <2>1. hub \in Hub /\ Silent(hub) /\ hub.url \in Urls
      BY PageFields DEF Sound, HubsSilent, Hub
    <2>2. new \in Hub /\ Alike(hub, new) /\ Silent(new) /\ new.link = "none"
      BY <2>1, UntimedHub, UnlinkedHub DEF Alike
    <2>3. Underway(new)
      BY <1>2, <2>2 DEF Alike, Underway
    <2>. HIDE DEF new
    <2>4. Sound(r)
      BY <2>2, <2>3, HubChange
    <2>5. /\ r.conn = p.conn /\ r.states = p.states /\ r.reg = p.reg /\ r.alive = p.alive
          /\ r.hubs[h] = new /\ \A g \in HubIds \ {h} : r.hubs[g] = p.hubs[g]
      BY PageFields DEF Sound, Page, WithHub
    <2>6. q = [r EXCEPT !.reg[hub.url] = None]
      BY <1>2, PageFields DEF Sound, Page, WithHub, removeHub, new
    <2>. HIDE DEF r
    <2>7. /\ q \in Page /\ q.conn = r.conn /\ q.states = r.states /\ q.hubs = r.hubs
          /\ q.alive = r.alive
          /\ \A u \in Urls : q.reg[u] = IF u = hub.url THEN None ELSE r.reg[u]
      BY <2>1, <2>4, <2>6 DEF Sound, Page
    <2>. HIDE DEF q
    <2>8. Referred(q)
      BY <2>4, <2>7 DEF Sound, Referred, Used
    <2>9. SseStatesRegistered(q)
      <3>. SUFFICES ASSUME p.alive, NEW s \in p.states, IsSse(s.url)
                    PROVE  q.conn[s.el] = s /\ q.reg[s.url] = s.hub
        BY <2>5, <2>7 DEF SseStatesRegistered
      <3>1. p.conn[s.el] = s /\ p.reg[s.url] = s.hub /\ s \in State
        BY DEF Sound, SseStatesRegistered, Page
      <3>2. s.el \in p.hubs[s.hub].subscribers /\ s.url \in Urls
        BY <3>1, PageFields, NoneAssumption DEF Sound, Referred
      <3>3. s.url # hub.url
        BY <1>2, <3>1, <3>2
      <3>. QED BY <2>5, <2>7, <3>1, <3>2, <3>3
    <2>10. RemovedHubsClosed(q)
      <3>. SUFFICES ASSUME p.alive, NEW g \in HubIds, Used(q, g), IsSse(q.hubs[g].url),
                           q.reg[q.hubs[g].url] # g
                    PROVE  q.hubs[g].subscribers = {} /\ q.hubs[g].link = "none"
        BY <2>5, <2>7 DEF RemovedHubsClosed
      <3>1. CASE g = h
        BY <1>2, <2>2, <2>5, <2>7, <3>1 DEF Alike
      <3>2. CASE g # h
        <4>1. q.hubs[g] = p.hubs[g] /\ Used(p, g) /\ p.hubs[g].url \in Urls
          BY <2>5, <2>7, <3>2, PageFields DEF Used, Sound, Hub
        <4>2. p.reg[p.hubs[g].url] # g
          BY <2>5, <2>7, <3>2, <4>1
        <4>. QED BY <4>1, <4>2 DEF Sound, RemovedHubsClosed
      <3>. QED BY <3>1, <3>2
    <2>11. HubsSilent(q) /\ HubsUnderway(q)
      BY <2>4, <2>7 DEF Sound, HubsSilent, HubsUnderway, Used
    <2>12. Sound(q)
      BY <2>7, <2>8, <2>9, <2>10, <2>11 DEF Sound
    <2>. QED BY <2>5, <2>7, <2>12 DEF q
  <1>. QED BY <1>1, <1>2

\* A hub may get other subscribers, if those connected to it stay.
LEMMA HubAnew ==
  ASSUME NEW p, Sound(p), NEW h \in HubIds, Used(p, h), NEW hub \in Hub,
         hub.url = p.hubs[h].url, Silent(hub), p.alive => Underway(hub),
         \A e \in Elements : p.conn[e] # None /\ p.conn[e].hub = h => e \in hub.subscribers,
         p.alive /\ IsSse(hub.url) /\ p.reg[hub.url] # h
           => hub.subscribers = {} /\ hub.link = "none"
  PROVE  LET q == WithHub(p, h, hub)
         IN  /\ Sound(q) /\ q.conn = p.conn /\ q.states = p.states /\ q.reg = p.reg
             /\ q.alive = p.alive /\ q.hubs[h] = hub
             /\ \A g \in HubIds \ {h} : q.hubs[g] = p.hubs[g]
  <1>. DEFINE q == WithHub(p, h, hub)
  <1>1. /\ q \in Page /\ q.conn = p.conn /\ q.states = p.states /\ q.reg = p.reg
        /\ q.alive = p.alive /\ q.hubs[h] = hub
        /\ \A g \in HubIds \ {h} : q.hubs[g] = p.hubs[g]
    BY DEF Sound, Page, WithHub
  <1>. HIDE DEF q
  <1>2. \A g \in HubIds : Used(p, g) => Used(q, g) /\ q.hubs[g].url = p.hubs[g].url
    BY <1>1, NoneAssumption DEF Used
  <1>3. Referred(q)
    <2>1. \A s \in q.states : Used(q, s.hub) /\ q.hubs[s.hub].url = s.url
      BY <1>1, <1>2, PageFields DEF Sound, Referred
    <2>2. \A u \in Urls : q.reg[u] # None => Used(q, q.reg[u]) /\ q.hubs[q.reg[u]].url = u
      BY <1>1, <1>2, PageFields DEF Sound, Referred
    <2>3. ASSUME NEW e \in Elements, q.conn[e] # None
          PROVE  /\ q.alive /\ q.conn[e] \in q.states /\ q.conn[e].el = e
                 /\ e \in q.hubs[q.conn[e].hub].subscribers
      <3>1. /\ p.alive /\ p.conn[e] \in p.states /\ p.conn[e].el = e
            /\ e \in p.hubs[p.conn[e].hub].subscribers
        BY <1>1, <2>3 DEF Sound, Referred
      <3>2. p.conn[e].hub \in HubIds
        BY <3>1, PageFields DEF Sound
      <3>. QED BY <1>1, <2>3, <3>1, <3>2
    <2>. QED BY <2>1, <2>2, <2>3 DEF Referred
  <1>4. SseStatesRegistered(q)
    BY <1>1 DEF Sound, SseStatesRegistered
  <1>5. RemovedHubsClosed(q)
    BY <1>1 DEF Sound, RemovedHubsClosed, Used
  <1>6. HubsSilent(q) /\ HubsUnderway(q)
    BY <1>1 DEF Sound, HubsSilent, HubsUnderway, Used
  <1>7. Sound(q)
    BY <1>1, <1>3, <1>4, <1>5, <1>6 DEF Sound
  <1>. QED BY <1>1, <1>7 DEF q

LEMMA UnsubscribeSound ==
  ASSUME NEW p, Sound(p), NEW s \in p.states, p.conn[s.el] = s
  PROVE  LET q == unsubscribe(p, s)
         IN  Sound(q) /\ q.alive = p.alive /\ q.conn[s.el] = None
  <1>. DEFINE q == unregisterLiveState(p, s)
              hub == q.hubs[s.hub]
              new == [hub EXCEPT !.subscribers = @ \ {s.el}]
              r == WithHub(q, s.hub, new)
  <1>1. /\ Sound(q) /\ q.hubs = p.hubs /\ q.reg = p.reg /\ q.alive = p.alive
        /\ q.conn[s.el] = None
    BY UnregisterSound
  <1>2. /\ s.el \in Elements /\ s.hub \in HubIds /\ s.url \in Urls
        /\ Used(p, s.hub) /\ p.hubs[s.hub].url = s.url
    BY PageFields DEF Sound, Referred
  <1>. HIDE DEF q
  <1>3. hub \in Hub /\ Silent(hub) /\ hub.url = s.url /\ Used(q, s.hub)
        /\ (q.alive => Underway(hub))
    BY <1>1, <1>2, PageFields DEF Sound, HubsSilent, HubsUnderway, Used
  <1>4. p.alive /\ IsSse(s.url) => p.reg[s.url] = s.hub
    BY DEF Sound, SseStatesRegistered
  <1>. HIDE DEF hub
  <1>5. hub.subscribers \ {s.el} \in SUBSET Elements
    BY <1>3 DEF Hub
  <1>6. new = [hub EXCEPT !.subscribers = hub.subscribers \ {s.el}]
    OBVIOUS
  <1>. HIDE DEF new
  <1>7. /\ new \in Hub /\ new.url = s.url /\ new.subscribers = hub.subscribers \ {s.el}
        /\ Silent(new) /\ (q.alive => Underway(new))
    BY <1>3, <1>5, <1>6, SubscribedHub
  <1>8. ASSUME NEW e \in Elements, q.conn[e] # None, q.conn[e].hub = s.hub
        PROVE  e \in new.subscribers
    BY <1>1, <1>7, <1>8 DEF Sound, Referred, hub
  <1>9. Sound(r) /\ r.conn = q.conn /\ r.reg = q.reg /\ r.alive = q.alive
        /\ r.hubs[s.hub] = new
    BY <1>1, <1>2, <1>3, <1>4, <1>7, <1>8, HubAnew DEF hub
  <1>. HIDE DEF r
  <1>10. Used(r, s.hub)
    BY <1>7, <1>9, NoneAssumption DEF Used
  <1>11. r.alive /\ IsSse(r.hubs[s.hub].url) => r.reg[r.hubs[s.hub].url] = s.hub
    BY <1>1, <1>4, <1>7, <1>9
  <1>12. unsubscribe(p, s) = removeHub(r, s.hub)
    BY DEF unsubscribe, q, r, new, hub
  <1>. QED BY <1>1, <1>2, <1>9, <1>10, <1>11, <1>12, RemoveSound

LEMMA AbandonSound ==
  ASSUME NEW p, Sound(p), NEW s \in p.states, p.conn[s.el] = s
  PROVE  LET q == abandon(p, s)
         IN  Sound(q) /\ q.alive = p.alive /\ q.conn[s.el] = None
  <1>. DEFINE hub == p.hubs[s.hub]
              new == pauseLiveState(hub)
              q == WithHub(p, s.hub, new)
  <1>1. s.hub \in HubIds /\ Used(p, s.hub)
    BY PageFields DEF Sound, Referred
  <1>2. hub \in Hub /\ Silent(hub) /\ (p.alive => Underway(hub))
    BY <1>1, PageFields DEF Sound, HubsSilent, HubsUnderway
  <1>3. /\ new \in Hub /\ Alike(hub, new) /\ Silent(new) /\ (p.alive => Underway(new))
        /\ hub.link = "none" => new.link = "none"
    BY <1>2, PausedHub
  <1>. HIDE DEF new
  <1>4. Sound(q)
    BY <1>1, <1>3, HubChange
  <1>5. q.conn = p.conn /\ q.states = p.states /\ q.alive = p.alive
    BY DEF WithHub, Sound, Page
  <1>. HIDE DEF q
  <1>6. LET r == unregisterLiveState(q, s)
        IN  Sound(r) /\ r.alive = p.alive /\ r.conn[s.el] = None
    BY <1>4, <1>5, UnregisterSound
  <1>. QED BY <1>6 DEF abandon, q, new

LEMMA LeaveForSseSound ==
  ASSUME NEW p, Sound(p), NEW e \in Elements
  PROVE  LET q == LeaveForSse(p, e)
         IN  Sound(q) /\ q.alive = p.alive /\ (q.conn[e] # None => ~IsSse(q.conn[e].url))
  <1>1. CASE p.conn[e] # None /\ p.conn[e].url.proto = "sse"
    <2>1. p.conn[e] \in p.states /\ p.conn[e].el = e
      BY <1>1 DEF Sound, Referred
    <2>. QED BY <1>1, <2>1, UnsubscribeSound DEF LeaveForSse
  <1>2. CASE ~(p.conn[e] # None /\ p.conn[e].url.proto = "sse")
    BY <1>2 DEF LeaveForSse, IsSse
  <1>. QED BY <1>1, <1>2

LEMMA LeaveForWsSound ==
  ASSUME NEW p, Sound(p), NEW e \in Elements
  PROVE  LET q == LeaveForWs(p, e)
         IN  Sound(q) /\ q.alive = p.alive /\ q.conn[e] = None
  <1>1. CASE p.conn[e] = None
    BY <1>1 DEF LeaveForWs
  <1>2. CASE p.conn[e] # None
    <2>1. p.conn[e] \in p.states /\ p.conn[e].el = e
      BY <1>2 DEF Sound, Referred
    <2>. QED BY <1>2, <2>1, UnsubscribeSound, AbandonSound DEF LeaveForWs
  <1>. QED BY <1>1, <1>2

\* A new hub takes the place of those removed before it, which are closed.
LEMMA CreateSound ==
  ASSUME NEW p, Sound(p), NEW u \in Urls, p.reg[u] # None \/ FreeHubs(p) # {}
  PROVE  LET q == getOrCreateHub(p, u)
         IN  /\ Sound(q) /\ q.conn = p.conn /\ q.states = p.states /\ q.alive = p.alive
             /\ q.reg[u] \in HubIds /\ Used(q, q.reg[u]) /\ q.hubs[q.reg[u]].url = u
  <1>1. CASE p.reg[u] # None
    BY <1>1, PageFields DEF getOrCreateHub, Sound, Referred
  <1>2. CASE p.reg[u] = None
    <2>. DEFINE h == CHOOSE x \in FreeHubs(p) : TRUE
                q == [p EXCEPT !.reg[u] = h, !.hubs[h] = createHub(u)]
    <2>1. h \in FreeHubs(p)
      BY <1>2
    <2>2. h \in HubIds /\ ~Used(p, h)
      BY <2>1 DEF FreeHubs, Used
    <2>. HIDE DEF h
    <2>3. /\ createHub(u) \in Hub /\ createHub(u).url = u /\ createHub(u).subscribers = {}
          /\ Silent(createHub(u))
      BY NewHub
    <2>4. Underway(createHub(u))
      BY <2>3 DEF Underway
    <2>5. /\ q \in Page /\ q.conn = p.conn /\ q.states = p.states /\ q.alive = p.alive
          /\ \A v \in Urls : q.reg[v] = IF v = u THEN h ELSE p.reg[v]
          /\ \A g \in HubIds : q.hubs[g] = IF g = h THEN createHub(u) ELSE p.hubs[g]
      BY <2>2, <2>3 DEF Sound, Page
    <2>. HIDE DEF q
    <2>6. Used(q, h) /\ \A g \in HubIds : Used(p, g) => g # h /\ Used(q, g)
      BY <2>2, <2>3, <2>5, NoneAssumption DEF Used
    <2>7. Referred(q)
      <3>1. \A s \in q.states : Used(q, s.hub) /\ q.hubs[s.hub].url = s.url
        BY <2>5, <2>6, PageFields DEF Sound, Referred
      <3>2. \A e \in Elements : q.conn[e] # None =>
              /\ q.alive /\ q.conn[e] \in q.states /\ q.conn[e].el = e
              /\ e \in q.hubs[q.conn[e].hub].subscribers
        BY <2>5, <2>6, PageFields DEF Sound, Referred
      <3>3. \A v \in Urls : q.reg[v] # None => Used(q, q.reg[v]) /\ q.hubs[q.reg[v]].url = v
        BY <2>2, <2>3, <2>5, <2>6, PageFields DEF Sound, Referred
      <3>. QED BY <3>1, <3>2, <3>3 DEF Referred
    <2>8. SseStatesRegistered(q)
      BY <1>2, <2>5, PageFields, HubsAssumption DEF Sound, SseStatesRegistered
    <2>9. RemovedHubsClosed(q)
      <3>. SUFFICES ASSUME p.alive, NEW g \in HubIds, Used(q, g), IsSse(q.hubs[g].url),
                           q.reg[q.hubs[g].url] # g
                    PROVE  q.hubs[g].subscribers = {} /\ q.hubs[g].link = "none"
        BY <2>5 DEF RemovedHubsClosed
      <3>1. g # h
        BY <2>2, <2>3, <2>5
      <3>2. q.hubs[g] = p.hubs[g] /\ Used(p, g) /\ p.hubs[g].url \in Urls
        BY <2>5, <3>1, PageFields DEF Used, Sound, Hub
      <3>3. p.reg[p.hubs[g].url] # g
        BY <1>2, <2>5, <3>2, HubsAssumption
      <3>. QED BY <3>2, <3>3 DEF Sound, RemovedHubsClosed
    <2>10. HubsSilent(q) /\ HubsUnderway(q)
      BY <2>3, <2>4, <2>5 DEF Sound, HubsSilent, HubsUnderway, Used
    <2>11. Sound(q)
      BY <2>5, <2>7, <2>8, <2>9, <2>10 DEF Sound
    <2>12. q.reg[u] = h /\ q.hubs[h].url = u
      BY <2>2, <2>3, <2>5
    <2>13. getOrCreateHub(p, u) = q
      BY <1>2 DEF getOrCreateHub, q, h
    <2>. QED BY <2>2, <2>5, <2>6, <2>11, <2>12, <2>13
  <1>. QED BY <1>1, <1>2

\* An element without an EventSource may take any state whose hub it is in.
LEMMA NewStateSound ==
  ASSUME NEW p, Sound(p), p.alive, NEW e \in Elements, NEW s \in State, s.el = e,
         p.conn[e] # None => ~IsSse(p.conn[e].url),
         Used(p, s.hub), p.hubs[s.hub].url = s.url, e \in p.hubs[s.hub].subscribers,
         p.reg[s.url] = s.hub
  PROVE  LET q == [p EXCEPT !.conn[e] = s, !.states = @ \union {s}]
         IN  Sound(q) /\ q.alive
  <1>. DEFINE q == [p EXCEPT !.conn[e] = s, !.states = @ \union {s}]
  <1>1. /\ q \in Page /\ q.states = p.states \union {s} /\ q.hubs = p.hubs /\ q.reg = p.reg
        /\ q.alive = p.alive
        /\ \A x \in Elements : q.conn[x] = IF x = e THEN s ELSE p.conn[x]
    BY DEF Sound, Page
  <1>. HIDE DEF q
  <1>2. Referred(q)
    BY <1>1 DEF Sound, Referred, Used
  <1>3. SseStatesRegistered(q)
    <2>. SUFFICES ASSUME NEW t \in q.states, IsSse(t.url)
                  PROVE  q.conn[t.el] = t /\ q.reg[t.url] = t.hub
      BY DEF SseStatesRegistered
    <2>1. CASE t = s
      BY <1>1, <2>1
    <2>2. CASE t \in p.states
      <3>1. p.conn[t.el] = t /\ p.reg[t.url] = t.hub /\ t \in State /\ t.el \in Elements
        BY <2>2, PageFields DEF Sound, SseStatesRegistered
      <3>2. t.el # e
        BY <3>1, NoneAssumption
      <3>. QED BY <1>1, <3>1, <3>2
    <2>. QED BY <1>1, <2>1, <2>2
  <1>4. RemovedHubsClosed(q) /\ HubsSilent(q) /\ HubsUnderway(q)
    BY <1>1 DEF Sound, RemovedHubsClosed, HubsSilent, HubsUnderway, Used
  <1>5. Sound(q)
    BY <1>1, <1>2, <1>3, <1>4 DEF Sound
  <1>. QED BY <1>1, <1>5 DEF q

LEMMA ProtoOfUrls ==
  ASSUME NEW u \in Urls
  PROVE  u.proto \in {"sse", "ws"}
  BY HubsAssumption

LEMMA SubscribedSound ==
  ASSUME NEW p, Sound(p), p.alive, NEW e \in Elements, NEW u \in Urls,
         p.conn[e] # None => ~IsSse(p.conn[e].url),
         p.reg[u] # None \/ FreeHubs(p) # {}, FreeNs(p, e, u) # {}
  PROVE  Sound(Subscribed(p, e, u))
  <1>. DEFINE q == getOrCreateHub(p, u)
              h == q.reg[u]
              n == CHOOSE x \in FreeNs(p, e, u) : TRUE
              s == [el |-> e, url |-> u, hub |-> h, n |-> n]
              hub == q.hubs[h]
              joined == [hub EXCEPT !.subscribers = @ \union {e}]
              new == connect(joined)
              r == WithHub(q, h, new)
  <1>1. /\ Sound(q) /\ q.conn = p.conn /\ q.alive
        /\ h \in HubIds /\ Used(q, h) /\ hub.url = u
    BY CreateSound
  <1>2. n \in 1..MaxStates
    BY DEF FreeNs
  <1>. HIDE DEF n
  <1>3. s \in State /\ s.el = e /\ s.url = u /\ s.hub = h
    BY <1>1, <1>2 DEF State
  <1>. HIDE DEF s, q, h
  <1>4. hub \in Hub /\ Silent(hub)
    BY <1>1, PageFields DEF Sound, HubsSilent
  <1>5. \A x \in Elements : q.conn[x] # None /\ q.conn[x].hub = h => x \in hub.subscribers
    BY <1>1 DEF Sound, Referred
  <1>. HIDE DEF hub
  <1>6. hub.subscribers \union {e} \in SUBSET Elements
    BY <1>4 DEF Hub
  <1>7. joined = [hub EXCEPT !.subscribers = hub.subscribers \union {e}]
    OBVIOUS
  <1>. HIDE DEF joined
  <1>8. /\ joined \in Hub /\ joined.url = u /\ joined.subscribers = hub.subscribers \union {e}
        /\ Silent(joined)
    BY <1>1, <1>4, <1>6, <1>7, SubscribedHub
  <1>9. /\ new \in Hub /\ new.url = u /\ new.subscribers = hub.subscribers \union {e}
        /\ Silent(new) /\ Underway(new)
    BY <1>8, ProtoOfUrls, ConnectHub DEF Alike
  <1>. HIDE DEF new
  <1>10. q.reg[new.url] = h
    BY <1>9 DEF h
  <1>11. \A x \in Elements : q.conn[x] # None /\ q.conn[x].hub = h => x \in new.subscribers
    BY <1>5, <1>9
  <1>12. new.url = q.hubs[h].url
    BY <1>1, <1>9 DEF hub
  <1>13. /\ Sound(r) /\ r.conn = q.conn /\ r.reg = q.reg /\ r.alive = q.alive
         /\ r.hubs[h] = new
    <2>1. Sound(q) /\ h \in HubIds /\ Used(q, h) /\ new \in Hub /\ Silent(new)
      BY <1>1, <1>9
    <2>2. q.alive => Underway(new)
      BY <1>9
    <2>3. q.alive /\ IsSse(new.url) /\ q.reg[new.url] # h
            => new.subscribers = {} /\ new.link = "none"
      BY <1>10
    <2>. QED BY <2>1, <2>2, <2>3, <1>11, <1>12, HubAnew
  <1>. HIDE DEF r
  <1>14. Used(r, h)
    BY <1>9, <1>13, NoneAssumption DEF Used
  <1>15. Sound([r EXCEPT !.conn[e] = s, !.states = @ \union {s}])
    BY <1>1, <1>3, <1>9, <1>10, <1>13, <1>14, NewStateSound
  <1>. QED BY <1>15 DEF Subscribed, q, r, new, joined, hub, s, n, h

-----------------------------------------------------------------------------
(* Disconnecting, reconnecting and destroying.                             *)

LEMMA DisconnectLiveSound ==
  ASSUME NEW p, Sound(p), NEW S, S \subseteq p.states
  PROVE  Sound(disconnectLive(p, S))
  <1>. DEFINE f == [h \in HubIds |-> IF h \in HubsOf(S) THEN pauseLiveState(p.hubs[h])
                                     ELSE p.hubs[h]]
  <1>1. \A h \in HubsOf(S) : h \in HubIds /\ Used(p, h)
    BY PageFields DEF HubsOf, Sound, Referred
  <1>2. ASSUME NEW h \in HubIds
        PROVE  /\ f[h] \in Hub \union {None}
               /\ f[h] = None <=> p.hubs[h] = None
               /\ Used(p, h) =>
                    /\ Alike(p.hubs[h], f[h]) /\ Silent(f[h])
                    /\ p.alive => Underway(f[h])
                    /\ p.hubs[h].link = "none" => f[h].link = "none"
    <2>1. CASE ~Used(p, h)
      BY <1>1, <2>1 DEF Used
    <2>2. CASE Used(p, h)
      <3>. DEFINE hub == p.hubs[h]
                  new == pauseLiveState(hub)
      <3>1. hub \in Hub /\ Silent(hub) /\ (p.alive => Underway(hub))
        BY <2>2, PageFields DEF Sound, HubsSilent, HubsUnderway
      <3>2. /\ new \in Hub /\ Alike(hub, new) /\ Silent(new)
            /\ p.alive => Underway(new)
            /\ hub.link = "none" => new.link = "none"
        BY <3>1, PausedHub
      <3>3. f[h] = hub \/ f[h] = new
        OBVIOUS
      <3>4. Alike(hub, hub)
        BY DEF Alike
      <3>. HIDE DEF f, hub, new
      <3>5. /\ f[h] \in Hub /\ Alike(hub, f[h]) /\ Silent(f[h])
            /\ p.alive => Underway(f[h])
            /\ hub.link = "none" => f[h].link = "none"
        BY <3>1, <3>2, <3>3, <3>4
      <3>. QED BY <2>2, <3>5, NoneAssumption DEF hub, Used
    <2>. QED BY <2>1, <2>2
  <1>3. f \in [HubIds -> Hub \union {None}]
    BY <1>2
  <1>4. disconnectLive(p, S) = [p EXCEPT !.hubs = f]
    BY DEF disconnectLive
  <1>. HIDE DEF f
  <1>. QED BY <1>2, <1>3, <1>4, HubsChange

LEMMA ReconnectSseSound ==
  ASSUME NEW p, Sound(p), NEW S, S \subseteq p.states
  PROVE  Sound(reconnectSse(p, S))
  <1>. DEFINE f == [h \in HubIds |-> IF h \in HubsOf(S) THEN Restarted(p.hubs[h])
                                     ELSE p.hubs[h]]
  <1>1. \A h \in HubsOf(S) : h \in HubIds /\ Used(p, h)
    BY PageFields DEF HubsOf, Sound, Referred
  <1>2. ASSUME NEW h \in HubIds
        PROVE  /\ f[h] \in Hub \union {None}
               /\ f[h] = None <=> p.hubs[h] = None
               /\ Used(p, h) =>
                    /\ Alike(p.hubs[h], f[h]) /\ Silent(f[h])
                    /\ p.alive => Underway(f[h])
                    /\ p.hubs[h].link = "none" /\ p.hubs[h].subscribers = {}
                         /\ IsSse(p.hubs[h].url) => f[h].link = "none"
    <2>1. CASE ~Used(p, h)
      BY <1>1, <2>1 DEF Used
    <2>2. CASE Used(p, h)
      <3>. DEFINE hub == p.hubs[h]
                  new == Restarted(hub)
                  closed(x) == hub.link = "none" /\ hub.subscribers = {} /\ IsSse(hub.url)
                               => x.link = "none"
      <3>1. hub \in Hub /\ Silent(hub) /\ (p.alive => Underway(hub)) /\ closed(hub)
        BY <2>2, PageFields DEF Sound, HubsSilent, HubsUnderway
      <3>2. hub.url.proto \in {"sse", "ws"}
        BY <3>1, ProtoOfUrls DEF Hub
      <3>3. /\ new \in Hub /\ Alike(hub, new) /\ Silent(new) /\ Underway(new)
            /\ closed(new)
        BY <3>1, <3>2, RestartedHub
      <3>4. f[h] = hub \/ f[h] = new
        OBVIOUS
      <3>5. Alike(hub, hub)
        BY DEF Alike
      <3>. HIDE DEF f, hub, new, closed
      <3>6. /\ f[h] \in Hub /\ Alike(hub, f[h]) /\ Silent(f[h])
            /\ p.alive => Underway(f[h])
            /\ closed(f[h])
        BY <3>1, <3>3, <3>4, <3>5
      <3>. QED BY <2>2, <3>6, NoneAssumption DEF hub, closed, Used
    <2>. QED BY <2>1, <2>2
  <1>3. f \in [HubIds -> Hub \union {None}]
    BY <1>2
  <1>4. reconnectSse(p, S) = [p EXCEPT !.hubs = f]
    BY DEF reconnectSse
  <1>. HIDE DEF f
  <1>. QED BY <1>2, <1>3, <1>4, HubsChange

LEMMA ReconnectWsSound ==
  ASSUME NEW p, Sound(p), NEW u \in Urls, ~IsSse(u),
         NEW S, S \subseteq p.states, \A s \in S : s.url = u,
         p.reg[u] # None \/ FreeHubs(p) # {}
  PROVE  Sound(reconnectWs(p, S, u))
  <1>. DEFINE q == getOrCreateHub(p, u)
              h == q.reg[u]
              hub == q.hubs[h]
              els == {s.el : s \in S}
              subs == hub.subscribers \union els
              joined == [hub EXCEPT !.subscribers = subs]
              new == Restarted(joined)
              r == WithHub(q, h, new)
              moved(s) == IF s \in S THEN [s EXCEPT !.hub = h] ELSE s
              z == [r EXCEPT !.states = {moved(s) : s \in @},
                             !.conn = [e \in Elements |-> IF @[e] = None THEN None
                                                          ELSE moved(@[e])]]
  <1>1. /\ Sound(q) /\ q.conn = p.conn /\ q.states = p.states /\ q.alive = p.alive
        /\ h \in HubIds /\ Used(q, h) /\ hub.url = u
    BY CreateSound
  <1>2. q.reg[u] = h
    OBVIOUS
  <1>. HIDE DEF q, h
  <1>3. hub \in Hub /\ Silent(hub)
    BY <1>1, PageFields DEF Sound, HubsSilent
  <1>4. \A e \in Elements : q.conn[e] # None /\ q.conn[e].hub = h => e \in hub.subscribers
    BY <1>1 DEF Sound, Referred
  <1>5. els \subseteq Elements /\ \A s \in S : s.el \in els
    BY PageFields DEF Sound
  <1>. HIDE DEF hub, els
  <1>6. subs \in SUBSET Elements
    BY <1>3, <1>5 DEF Hub
  <1>7. joined = [hub EXCEPT !.subscribers = subs]
    OBVIOUS
  <1>. HIDE DEF joined, subs
  <1>8. /\ joined \in Hub /\ joined.url = u
        /\ joined.subscribers = subs
    BY <1>1, <1>3, <1>6, <1>7, SubscribedHub
  <1>9. /\ new \in Hub /\ new.url = u
        /\ new.subscribers = subs
        /\ Silent(new) /\ Underway(new)
    BY <1>8, ProtoOfUrls, RestartedHub DEF Alike
  <1>. HIDE DEF new
  <1>10. /\ Sound(r) /\ r.conn = q.conn /\ r.states = q.states /\ r.reg = q.reg
         /\ r.alive = q.alive /\ r.hubs[h] = new
    <2>1. Sound(q) /\ h \in HubIds /\ Used(q, h) /\ new \in Hub /\ Silent(new)
      BY <1>1, <1>9
    <2>2. q.alive => Underway(new)
      BY <1>9
    <2>3. q.alive /\ IsSse(new.url) /\ q.reg[new.url] # h
            => new.subscribers = {} /\ new.link = "none"
      BY <1>9
    <2>4. \A e \in Elements : q.conn[e] # None /\ q.conn[e].hub = h => e \in new.subscribers
      BY <1>4, <1>9 DEF subs
    <2>5. new.url = q.hubs[h].url
      BY <1>1, <1>9 DEF hub
    <2>. QED BY <2>1, <2>2, <2>3, <2>4, <2>5, HubAnew
  <1>. HIDE DEF r
  <1>11. Used(r, h)
    BY <1>9, <1>10, NoneAssumption DEF Used
  <1>12. ASSUME NEW s \in State
         PROVE  /\ moved(s) \in State /\ moved(s) # None
                /\ moved(s).el = s.el /\ moved(s).url = s.url
                /\ moved(s).hub = IF s \in S THEN h ELSE s.hub
    <2>1. moved(s) \in State /\ moved(s).el = s.el /\ moved(s).url = s.url
          /\ moved(s).hub = IF s \in S THEN h ELSE s.hub
      BY <1>1 DEF State
    <2>. QED BY <2>1, NoneAssumption
  <1>13. r.states \subseteq State /\ \A e \in Elements : r.conn[e] # None => r.conn[e] \in State
    BY <1>10, PageFields DEF Sound
  <1>14. \A s \in State : s \notin S => moved(s) = s
    OBVIOUS
  <1>. HIDE DEF moved
  <1>15. /\ z.states = {moved(s) : s \in r.states} /\ z.hubs = r.hubs /\ z.reg = r.reg
         /\ z.alive = r.alive
         /\ z.conn = [e \in Elements |-> IF r.conn[e] = None THEN None ELSE moved(r.conn[e])]
    BY <1>10 DEF Sound, Page
  <1>16. z \in Page
    <2>1. {moved(s) : s \in r.states} \in SUBSET State
      BY <1>12, <1>13
    <2>2. [e \in Elements |-> IF r.conn[e] = None THEN None ELSE moved(r.conn[e])]
            \in [Elements -> State \union {None}]
      BY <1>12, <1>13
    <2>. QED BY <1>10, <2>1, <2>2 DEF Sound, Page
  <1>17. reconnectWs(p, S, u) = z
    BY DEF reconnectWs, q, h, hub, els, subs, joined, new, r, moved
  <1>. HIDE DEF z
  <1>18. Referred(z)
    <2>1. \A s \in z.states : Used(z, s.hub) /\ z.hubs[s.hub].url = s.url
      BY <1>9, <1>10, <1>11, <1>12, <1>13, <1>15 DEF Sound, Referred, Used
    <2>2. \A v \in Urls : z.reg[v] # None => Used(z, z.reg[v]) /\ z.hubs[z.reg[v]].url = v
      BY <1>10, <1>15 DEF Sound, Referred, Used
    <2>3. ASSUME NEW e \in Elements, z.conn[e] # None
          PROVE  /\ z.alive /\ z.conn[e] \in z.states /\ z.conn[e].el = e
                 /\ e \in z.hubs[z.conn[e].hub].subscribers
      <3>1. r.conn[e] # None /\ z.conn[e] = moved(r.conn[e])
        BY <1>15, <2>3
      <3>2. /\ r.alive /\ r.conn[e] \in r.states /\ r.conn[e].el = e
            /\ e \in r.hubs[r.conn[e].hub].subscribers
        BY <1>10, <3>1 DEF Sound, Referred
      <3>3. CASE r.conn[e] \in S
        <4>1. e \in new.subscribers
          BY <1>5, <1>9, <3>2, <3>3 DEF subs
        <4>. QED BY <1>10, <1>12, <1>13, <1>15, <3>1, <3>2, <3>3, <4>1
      <3>4. CASE r.conn[e] \notin S
        BY <1>12, <1>13, <1>15, <3>1, <3>2, <3>4
      <3>. QED BY <3>3, <3>4
    <2>. QED BY <2>1, <2>2, <2>3 DEF Referred
  <1>19. SseStatesRegistered(z)
    <2>. SUFFICES ASSUME z.alive, NEW s \in r.states, IsSse(moved(s).url)
                  PROVE  z.conn[moved(s).el] = moved(s) /\ z.reg[moved(s).url] = moved(s).hub
      BY <1>15 DEF SseStatesRegistered
    <2>1. s \in State /\ IsSse(s.url) /\ s.el \in Elements
      BY <1>12, <1>13 DEF State
    <2>2. s \notin S
      BY <2>1
    <2>3. moved(s) = s
      BY <1>14, <2>1, <2>2
    <2>4. r.conn[s.el] = s /\ r.reg[s.url] = s.hub
      BY <1>10, <1>15, <2>1 DEF Sound, SseStatesRegistered
    <2>. QED BY <1>15, <2>1, <2>3, <2>4, NoneAssumption
  <1>20. RemovedHubsClosed(z) /\ HubsSilent(z) /\ HubsUnderway(z)
    BY <1>10, <1>15 DEF Sound, RemovedHubsClosed, HubsSilent, HubsUnderway, Used
  <1>21. Sound(z)
    BY <1>16, <1>18, <1>19, <1>20 DEF Sound
  <1>. QED BY <1>17, <1>21

-----------------------------------------------------------------------------
(* What the browser calls, and the steps.                                  *)

LEMMA oncloseSound ==
  ASSUME NEW p, Sound(p), NEW h \in HubIds, Used(p, h), ~IsSse(p.hubs[h].url),
         NEW hub \in Hub, Alike(p.hubs[h], hub), Silent(hub)
  PROVE  Sound(onclose(p, h, hub))
  <1>. DEFINE cut == Forgotten(hub)
              q == WithHub(p, h, cut)
  <1>1. /\ cut \in Hub /\ Alike(hub, cut) /\ cut.link = "none"
        /\ Silent(cut) /\ cut.paused = hub.paused
    BY ForgottenHub
  <1>. HIDE DEF cut
  <1>2. Alike(p.hubs[h], cut)
    BY <1>1 DEF Alike
  <1>3. CASE hub.paused
    <2>1. Underway(cut)
      BY <1>1, <1>3 DEF Underway
    <2>2. Sound(q)
      BY <1>1, <1>2, <2>1, HubChange
    <2>. QED BY <1>3, <2>2 DEF onclose, cut
  <1>4. CASE ~hub.paused /\ hub.subscribers = {}
    <2>1. Underway(cut)
      BY <1>1, <1>4 DEF Underway, Alike
    <2>2. Sound(q)
      BY <1>1, <1>2, <2>1, HubChange
    <2>3. q.hubs[h] = cut
      BY DEF WithHub, Sound, Page
    <2>4. onclose(p, h, hub) = removeHub(q, h)
      BY <1>4 DEF onclose, cut
    <2>. HIDE DEF q
    <2>5. Used(q, h) /\ ~IsSse(q.hubs[h].url)
      BY <1>1, <1>2, <2>3, NoneAssumption DEF Used, Alike
    <2>. QED BY <2>2, <2>4, <2>5, RemoveSound
  <1>5. CASE ~hub.paused /\ hub.subscribers # {}
    <2>. DEFINE new == Timed(cut)
    <2>1. new \in Hub /\ Alike(cut, new) /\ Silent(new) /\ Underway(new)
      BY <1>1, <1>5, TimedHub
    <2>2. onclose(p, h, hub) = WithHub(p, h, new)
      BY <1>5 DEF onclose, cut
    <2>. HIDE DEF new
    <2>3. Alike(p.hubs[h], new)
      BY <1>2, <2>1 DEF Alike
    <2>. QED BY <2>1, <2>2, <2>3, HubChange
  <1>. QED BY <1>3, <1>4, <1>5

\* What the step of a hub starts from.
LEMMA UsedHub ==
  ASSUME NEW p, Sound(p), NEW h \in HubIds, Used(p, h)
  PROVE  /\ p.hubs[h] \in Hub /\ Silent(p.hubs[h]) /\ (p.alive => Underway(p.hubs[h]))
         /\ p.hubs[h].url \in Urls /\ p.hubs[h].url.proto \in {"sse", "ws"}
  <1>1. p.hubs[h] \in Hub
    BY PageFields DEF Sound
  <1>. QED BY <1>1, ProtoOfUrls DEF Sound, HubsSilent, HubsUnderway, Hub

LEMMA BecomeSound ==
  ASSUME NEW p, Sound(p), Become(p)
  PROVE  Sound(page')
  BY CollectedSound DEF Become

LEMMA DestroySound ==
  ASSUME Sound(page), Destroy
  PROVE  Sound(page')
  <1>. DEFINE registered == {page.reg[u] : u \in Urls} \ {None}
              closed(hub) == IF hub.url.proto = "sse" THEN Unlinked(hub)
                             ELSE [hub EXCEPT !.link = IF @ = "live" THEN "closing" ELSE @]
              f == [h \in HubIds |-> IF h \in registered THEN closed(Untimed(page.hubs[h]))
                                     ELSE page.hubs[h]]
              q == [page EXCEPT !.alive = FALSE, !.states = {},
                                !.conn = [e \in Elements |-> None],
                                !.reg = [u \in Urls |-> None], !.hubs = f]
  <1>1. \A h \in registered : h \in HubIds /\ Used(page, h)
    BY PageFields DEF Sound, Referred
  <1>2. ASSUME NEW hub \in Hub, Silent(hub)
        PROVE  closed(hub) \in Hub /\ Silent(closed(hub))
    <2>1. CASE hub.url.proto = "sse"
      BY <1>2, <2>1, UnlinkedHub
    <2>2. CASE hub.url.proto # "sse"
      <3>1. /\ closed(hub) \in Hub /\ closed(hub).paused = hub.paused
            /\ closed(hub).timer = hub.timer
            /\ hub.link = "none" => closed(hub).link = "none"
        BY <2>2 DEF Hub
      <3>. HIDE DEF closed
      <3>. QED BY <1>2, <3>1, Zenon DEF Silent
    <2>. QED BY <2>1, <2>2
  <1>. HIDE DEF registered, closed
  <1>3. ASSUME NEW h \in HubIds
        PROVE  f[h] \in Hub \union {None} /\ (f[h] # None => Silent(f[h]))
    <2>1. CASE h \in registered
      <3>1. page.hubs[h] \in Hub /\ Silent(page.hubs[h])
        BY <1>1, <2>1, UsedHub
      <3>. QED BY <1>2, <2>1, <3>1, UntimedHub
    <2>2. CASE h \notin registered
      BY <2>2, PageFields DEF Sound, HubsSilent, Used
    <2>. QED BY <2>1, <2>2
  <1>4. f \in [HubIds -> Hub \union {None}]
    BY <1>3
  <1>5. Become(q)
    BY DEF Destroy, registered, closed
  <1>. HIDE DEF f
  <1>6. /\ q \in Page /\ q.alive = FALSE /\ q.states = {} /\ q.hubs = f
        /\ \A e \in Elements : q.conn[e] = None
        /\ \A u \in Urls : q.reg[u] = None
    BY <1>4 DEF Sound, Page
  <1>. HIDE DEF q
  <1>7. Referred(q) /\ SseStatesRegistered(q) /\ RemovedHubsClosed(q) /\ HubsUnderway(q)
    BY <1>6 DEF Referred, SseStatesRegistered, RemovedHubsClosed, HubsUnderway
  <1>8. HubsSilent(q)
    BY <1>3, <1>6 DEF HubsSilent, Used
  <1>9. Sound(q)
    BY <1>6, <1>7, <1>8 DEF Sound
  <1>. QED BY <1>5, <1>9, BecomeSound

LEMMA SseErrorSound ==
  ASSUME Sound(page), NEW h \in HubIds, SseError(h)
  PROVE  Sound(page')
  <1>. DEFINE hub == page.hubs[h]
              cut == [hub EXCEPT !.link = "none"]
              q == WithHub(page, h, cut)
  <1>1. Used(page, h) /\ IsSse(hub.url) /\ hub.link = "live"
    BY DEF SseError, Live, Used, IsSse
  <1>2. hub \in Hub /\ Silent(hub)
    BY <1>1, UsedHub
  <1>3. /\ cut \in Hub /\ Alike(hub, cut) /\ cut.link = "none" /\ cut.paused = hub.paused
        /\ ~hub.paused
    BY <1>1, <1>2 DEF Hub, Alike, Silent
  <1>4. page.alive => page.reg[hub.url] = h
    BY <1>1 DEF Sound, RemovedHubsClosed
  <1>5. CASE hub.subscribers = {}
    <2>1. Silent(cut) /\ Underway(cut)
      BY <1>3, <1>5 DEF Silent, Underway, Alike
    <2>2. Become(removeHub(q, h))
      BY <1>5 DEF SseError
    <2>. HIDE DEF cut
    <2>3. Sound(q)
      BY <1>1, <1>3, <2>1, HubChange
    <2>4. q.hubs[h] = cut /\ q.reg = page.reg /\ q.alive = page.alive
      BY DEF WithHub, Sound, Page
    <2>. HIDE DEF q
    <2>5. Used(q, h)
      BY <1>3, <2>4, NoneAssumption DEF Used
    <2>6. q.alive /\ IsSse(q.hubs[h].url) => q.reg[q.hubs[h].url] = h
      BY <1>3, <1>4, <2>4 DEF Alike
    <2>7. Sound(removeHub(q, h))
      BY <2>3, <2>5, <2>6, RemoveSound
    <2>. QED BY <2>2, <2>7, BecomeSound
  <1>6. CASE hub.subscribers # {}
    <2>. DEFINE new == Timed(cut)
    <2>1. Become(WithHub(page, h, new))
      BY <1>3, <1>6 DEF SseError
    <2>. HIDE DEF cut
    <2>2. new \in Hub /\ Alike(hub, new) /\ Silent(new) /\ Underway(new)
      BY <1>3, TimedHub DEF Alike
    <2>. HIDE DEF new
    <2>3. Sound(WithHub(page, h, new))
      BY <1>1, <2>2, HubChange
    <2>. QED BY <2>1, <2>3, BecomeSound
  <1>. QED BY <1>5, <1>6

\* The end of a socket, whichever: it has left the counts of its hub.
LEMMA SocketEndSound ==
  ASSUME Sound(page), NEW h \in HubIds, Live(h, "ws"), NEW hub \in Hub,
         Alike(page.hubs[h], hub), hub.paused = page.hubs[h].paused,
         hub.timer = page.hubs[h].timer,
         hub.link = page.hubs[h].link \/ hub.link = "none",
         Become(onclose(page, h, hub))
  PROVE  Sound(page')
  <1>1. Used(page, h) /\ ~IsSse(page.hubs[h].url)
    BY DEF Live, Used, IsSse
  <1>2. Silent(hub)
    BY <1>1, UsedHub, Zenon DEF Silent
  <1>3. Sound(onclose(page, h, hub))
    BY <1>1, <1>2, oncloseSound
  <1>. QED BY <1>3, BecomeSound

LEMMA WsGoneSound ==
  ASSUME Sound(page), NEW h \in HubIds, NEW link, WsGone(h, link)
  PROVE  Sound(page')
  <1>. DEFINE hub == page.hubs[h]
              new == [hub EXCEPT !.link = "none"]
  <1>1. hub \in Hub
    BY UsedHub DEF WsGone, Live, Used
  <1>2. new \in Hub /\ Alike(hub, new) /\ new.paused = hub.paused /\ new.timer = hub.timer
        /\ new.link = "none"
    BY <1>1 DEF Hub, Alike
  <1>. QED BY <1>2, SocketEndSound DEF WsGone

LEMMA StrayClosedSound ==
  ASSUME Sound(page), NEW h \in HubIds, StrayClosed(h)
  PROVE  Sound(page')
  <1>. DEFINE hub == page.hubs[h]
  <1>1. hub \in Hub /\ Live(h, "ws")
    BY UsedHub DEF StrayClosed, Live, Used
  <1>2. CASE hub.strays > 0 /\ Become(onclose(page, h, [hub EXCEPT !.strays = @ - 1]))
    <2>. DEFINE new == [hub EXCEPT !.strays = hub.strays - 1]
    <2>1. hub.strays - 1 \in Nat
      BY <1>1, <1>2 DEF Hub
    <2>2. new \in Hub
      BY <1>1, <2>1, Zenon DEF Hub
    <2>3. Alike(hub, new) /\ new.paused = hub.paused /\ new.timer = hub.timer
          /\ new.link = hub.link
      BY <1>1 DEF Hub, Alike
    <2>4. Become(onclose(page, h, new))
      BY <1>2
    <2>. HIDE DEF new
    <2>. QED BY <1>1, <2>2, <2>3, <2>4, SocketEndSound
  <1>3. CASE hub.closing > 0 /\ Become(onclose(page, h, [hub EXCEPT !.closing = @ - 1]))
    <2>. DEFINE new == [hub EXCEPT !.closing = hub.closing - 1]
    <2>1. hub.closing - 1 \in Nat
      BY <1>1, <1>3 DEF Hub
    <2>2. new \in Hub
      BY <1>1, <2>1, Zenon DEF Hub
    <2>3. Alike(hub, new) /\ new.paused = hub.paused /\ new.timer = hub.timer
          /\ new.link = hub.link
      BY <1>1 DEF Hub, Alike
    <2>4. Become(onclose(page, h, new))
      BY <1>3
    <2>. HIDE DEF new
    <2>. QED BY <1>1, <2>2, <2>3, <2>4, SocketEndSound
  <1>. QED BY <1>2, <1>3 DEF StrayClosed

LEMMA WsCloseBeginsSound ==
  ASSUME Sound(page), NEW h \in HubIds, WsCloseBegins(h)
  PROVE  Sound(page')
  <1>. DEFINE hub == page.hubs[h]
              new == [hub EXCEPT !.link = "closing"]
  <1>1. Used(page, h) /\ hub.link = "live" /\ Become(WithHub(page, h, new))
    BY DEF WsCloseBegins, Live, Used
  <1>2. hub \in Hub /\ Silent(hub)
    BY <1>1, UsedHub
  <1>3. new \in Hub /\ Alike(hub, new) /\ Silent(new) /\ Underway(new)
    BY <1>1, <1>2 DEF Hub, Alike, Silent, Underway
  <1>. HIDE DEF new
  <1>4. Sound(WithHub(page, h, new))
    BY <1>1, <1>3, HubChange
  <1>. QED BY <1>1, <1>4, BecomeSound

LEMMA TimerFiresSound ==
  ASSUME Sound(page), NEW h \in HubIds, TimerFires(h)
  PROVE  Sound(page')
  <1>. DEFINE hub == page.hubs[h]
  <1>1. Used(page, h)
    BY DEF TimerFires, Used
  <1>2. hub \in Hub /\ Silent(hub) /\ hub.url.proto \in {"sse", "ws"}
    BY <1>1, UsedHub
  <1>3. ASSUME NEW idle \in Hub, Alike(hub, idle), Silent(idle), idle.link = hub.link,
               Become(WithHub(page, h, connect(idle)))
        PROVE  Sound(page')
    <2>. DEFINE new == connect(idle)
    <2>1. idle.url.proto \in {"sse", "ws"}
      BY <1>2, <1>3 DEF Alike
    <2>2. /\ new \in Hub /\ Alike(idle, new) /\ Silent(new) /\ Underway(new)
          /\ idle.subscribers = {} /\ IsSse(idle.url) => new = idle
      BY <1>3, <2>1, ConnectHub
    <2>. HIDE DEF new
    <2>3. Alike(hub, new)
      BY <1>3, <2>2 DEF Alike
    <2>4. hub.link = "none" /\ hub.subscribers = {} /\ IsSse(hub.url) => new.link = "none"
      BY <1>3, <2>2 DEF Alike
    <2>5. Sound(WithHub(page, h, new))
      BY <1>1, <2>2, <2>3, <2>4, HubChange
    <2>. QED BY <1>3, <2>5, BecomeSound DEF new
  <1>4. CASE Become(WithHub(page, h, connect(Untimed(hub))))
    BY <1>2, <1>3, <1>4, UntimedHub
  <1>5. CASE hub.loose > 0 /\ Become(WithHub(page, h, connect(WithoutLoose(hub))))
    BY <1>2, <1>3, <1>5, LooseHub
  <1>. QED BY <1>4, <1>5 DEF TimerFires

LEMMA OpenSseSound ==
  ASSUME Sound(page), NEW e \in Elements, NEW u \in Urls, OpenSse(e, u)
  PROVE  Sound(page')
  <1>. DEFINE left == LeaveForSse(page, e)
  <1>1. /\ page.alive /\ Room(left, u) /\ FreeNs(left, e, u) # {}
        /\ Become(Subscribed(left, e, u))
    BY DEF OpenSse
  <1>2. Sound(left) /\ left.alive = page.alive /\ (left.conn[e] # None => ~IsSse(left.conn[e].url))
    BY LeaveForSseSound
  <1>. HIDE DEF left
  <1>3. left.reg[u] # None \/ FreeHubs(left) # {}
    BY <1>1 DEF Room
  <1>4. Sound(Subscribed(left, e, u))
    BY <1>1, <1>2, <1>3, SubscribedSound
  <1>. QED BY <1>1, <1>4, BecomeSound

LEMMA OpenWsSound ==
  ASSUME Sound(page), NEW e \in Elements, NEW u \in Urls, OpenWs(e, u)
  PROVE  Sound(page')
  <1>. DEFINE left == LeaveForWs(page, e)
  <1>1. /\ page.alive /\ Room(left, u) /\ FreeNs(left, e, u) # {}
        /\ Become(Subscribed(left, e, u))
    BY DEF OpenWs
  <1>2. Sound(left) /\ left.alive = page.alive /\ left.conn[e] = None
    BY LeaveForWsSound
  <1>. HIDE DEF left
  <1>3. left.reg[u] # None \/ FreeHubs(left) # {}
    BY <1>1 DEF Room
  <1>4. Sound(Subscribed(left, e, u))
    BY <1>1, <1>2, <1>3, SubscribedSound
  <1>. QED BY <1>1, <1>4, BecomeSound

LEMMA CleanupSound ==
  ASSUME Sound(page), NEW e \in Elements, cleanupLiveNode(e)
  PROVE  Sound(page')
  <1>. DEFINE s == page.conn[e]
  <1>1. s \in page.states /\ s.el = e
    BY DEF cleanupLiveNode, Sound, Referred
  <1>2. Sound(unsubscribe(page, s)) /\ Sound(abandon(page, s))
    BY <1>1, UnsubscribeSound, AbandonSound
  <1>3. Become(unsubscribe(page, s)) \/ Become(abandon(page, s))
    BY DEF cleanupLiveNode
  <1>. QED BY <1>2, <1>3, BecomeSound

\* disconnect and reconnect act on states of one URL.
LEMMA ResolvedStates ==
  ASSUME NEW p, Sound(p), NEW root
  PROVE  LET S == resolveLiveStates(p, root)
         IN  /\ S \subseteq p.states
             /\ \A s, t \in S : s.url = t.url
             /\ \A s \in S : s.url \in Urls
  <1>1. resolveLiveStates(p, root) \subseteq p.states
    BY DEF resolveLiveStates, StatesOf, Sound, Referred
  <1>2. \A s, t \in resolveLiveStates(p, root) : s.url = t.url
    BY DEF resolveLiveStates, StatesOf
  <1>. QED BY <1>1, <1>2, PageFields DEF Sound

LEMMA ReconnectSound ==
  ASSUME Sound(page), NEW root, Reconnect(root)
  PROVE  Sound(page')
  <1>. DEFINE S == resolveLiveStates(page, root)
              t == CHOOSE s \in S : TRUE
              u == t.url
  <1>1. /\ S # {} /\ \A s \in S : Room(page, s.url)
        /\ Become(reconnectLive(page, S))
    BY DEF Reconnect
  <1>2. S \subseteq page.states /\ (\A s, r \in S : s.url = r.url) /\ (\A s \in S : s.url \in Urls)
    BY ResolvedStates
  <1>. HIDE DEF S
  <1>3. t \in S
    BY <1>1
  <1>4. reconnectLive(page, S) = IF u.proto = "sse" THEN reconnectSse(page, S)
                                 ELSE reconnectWs(page, S, u)
    BY DEF reconnectLive
  <1>. HIDE DEF t
  <1>5. u \in Urls /\ (\A s \in S : s.url = u) /\ Room(page, u)
    BY <1>1, <1>2, <1>3
  <1>6. page.reg[u] # None \/ FreeHubs(page) # {}
    BY <1>5 DEF Room
  <1>7. Sound(reconnectSse(page, S))
    BY <1>2, ReconnectSseSound
  <1>. HIDE DEF u
  <1>8. ~IsSse(u) => Sound(reconnectWs(page, S, u))
    BY <1>2, <1>5, <1>6, ReconnectWsSound
  <1>9. Sound(reconnectLive(page, S))
    BY <1>4, <1>7, <1>8 DEF IsSse
  <1>. QED BY <1>1, <1>9, BecomeSound

LEMMA DisconnectSound ==
  ASSUME Sound(page), NEW root, Disconnect(root)
  PROVE  Sound(page')
  <1>. DEFINE S == resolveLiveStates(page, root)
  <1>1. Become(disconnectLive(page, S))
    BY DEF Disconnect
  <1>2. Sound(disconnectLive(page, S))
    BY ResolvedStates, DisconnectLiveSound
  <1>. QED BY <1>1, <1>2, BecomeSound

-----------------------------------------------------------------------------
(* Theorems.                                                               *)

LEMMA InitSound ==
  ASSUME Init
  PROVE  IInv
  <1>1. /\ page \in Page /\ page.states = {} /\ \A h \in HubIds : page.hubs[h] = None
        /\ \A e \in Elements : page.conn[e] = None
        /\ \A u \in Urls : page.reg[u] = None
    BY DEF Init, Page
  <1>2. /\ Referred(page) /\ SseStatesRegistered(page) /\ RemovedHubsClosed(page)
        /\ HubsSilent(page) /\ HubsUnderway(page)
    BY <1>1 DEF Referred, SseStatesRegistered, RemovedHubsClosed, HubsSilent,
                HubsUnderway, Used
  <1>. QED BY <1>1, <1>2 DEF Init, IInv, Sound

LEMMA NextSound ==
  ASSUME IInv, [Next]_vars
  PROVE  IInv'
  <1>. SUFFICES Sound(page') /\ asked' \subseteq Urls
    BY DEF IInv, Sound, Referred, SseStatesRegistered, RemovedHubsClosed, HubsSilent,
           HubsUnderway, Used
  <1>1. Sound(page) /\ asked \subseteq Urls
    BY DEF IInv
  <1>2. ASSUME NEW e \in Elements, cleanupLiveNode(e)
        PROVE  Sound(page') /\ asked' \subseteq Urls
    BY <1>1, <1>2, CleanupSound DEF cleanupLiveNode
  <1>3. ASSUME NEW e \in Elements, NEW u \in Urls, OpenSse(e, u)
        PROVE  Sound(page') /\ asked' \subseteq Urls
    BY <1>1, <1>3, OpenSseSound DEF OpenSse
  <1>4. ASSUME NEW e \in Elements, NEW u \in Urls, OpenWs(e, u)
        PROVE  Sound(page') /\ asked' \subseteq Urls
    BY <1>1, <1>4, OpenWsSound DEF OpenWs
  <1>5. ASSUME NEW root, Disconnect(root)
        PROVE  Sound(page') /\ asked' \subseteq Urls
    <2>1. asked' \subseteq Urls
      BY <1>1, <1>5, ResolvedStates DEF Disconnect
    <2>. QED BY <1>1, <1>5, <2>1, DisconnectSound
  <1>6. ASSUME NEW root, Reconnect(root)
        PROVE  Sound(page') /\ asked' \subseteq Urls
    <2>1. asked' \subseteq Urls
      BY <1>1, <1>6 DEF Reconnect
    <2>. QED BY <1>1, <1>6, <2>1, ReconnectSound
  <1>7. CASE Destroy
    <2>1. asked' \subseteq Urls
      BY <1>1, <1>7 DEF Destroy
    <2>. QED BY <1>1, <1>7, <2>1, DestroySound
  <1>8. ASSUME NEW h \in HubIds, SseError(h)
        PROVE  Sound(page') /\ asked' \subseteq Urls
    BY <1>1, <1>8, SseErrorSound DEF SseError
  <1>9. ASSUME NEW h \in HubIds, WsCloseBegins(h)
        PROVE  Sound(page') /\ asked' \subseteq Urls
    BY <1>1, <1>9, WsCloseBeginsSound DEF WsCloseBegins
  <1>10. ASSUME NEW h \in HubIds, WsClosed(h) \/ WsLost(h)
         PROVE  Sound(page') /\ asked' \subseteq Urls
    BY <1>1, <1>10, WsGoneSound DEF WsClosed, WsLost, WsGone
  <1>11. ASSUME NEW h \in HubIds, StrayClosed(h)
         PROVE  Sound(page') /\ asked' \subseteq Urls
    BY <1>1, <1>11, StrayClosedSound DEF StrayClosed
  <1>12. ASSUME NEW h \in HubIds, TimerFires(h)
         PROVE  Sound(page') /\ asked' \subseteq Urls
    BY <1>1, <1>12, TimerFiresSound DEF TimerFires
  <1>13. CASE UNCHANGED vars
    BY <1>1, <1>13 DEF vars
  <1>. QED
    BY <1>2, <1>3, <1>4, <1>5, <1>6, <1>7, <1>8, <1>9, <1>10, <1>11, <1>12, <1>13 DEF Next

\* The invariant of the runtime's maps: what they refer to exists, and what was
\* removed from them is closed.
THEOREM Invariance == Spec => []IInv
  BY InitSound, NextSound, PTL DEF Spec

\* The maps, hubs and states keep their shape under every operation and event.
THEOREM TypeCorrect == Spec => []TypeOK
  <1>1. IInv => TypeOK
    BY DEF IInv, Sound, TypeOK
  <1>. QED BY <1>1, Invariance, PTL

\* A URL has one EventSource at most, however many elements share it, come, go
\* and reconnect, and whatever timers and closing sockets there are.
THEOREM OneStream == Spec => []OneStreamPerUrl
  <1>1. IInv => OneStreamPerUrl
    BY DEF IInv, Sound, RemovedHubsClosed, OneStreamPerUrl, Used, IsSse
  <1>. QED BY <1>1, Invariance, PTL

\* Nothing but connect brings a paused hub's stream back: no timer, no error.
THEOREM SilenceHolds == Spec => []PausedIsSilent
  <1>1. IInv => PausedIsSilent
    BY DEF IInv, Sound, HubsSilent, Silent, PausedIsSilent, Used
  <1>. QED BY <1>1, Invariance, PTL

\* An element with a connection is subscribed to a hub that is paused, or
\* connected, or about to be.
THEOREM NobodyStranded == Spec => []NeverStranded
  <1>1. ASSUME IInv, NEW e \in Elements, page.conn[e] # None
        PROVE  LET hub == page.hubs[page.conn[e].hub]
               IN  /\ e \in hub.subscribers
                   /\ ~hub.paused => hub.link # "none" \/ Timers(hub) > 0
    <2>. DEFINE h == page.conn[e].hub
    <2>1. /\ page.alive /\ page.conn[e] \in page.states
          /\ e \in page.hubs[h].subscribers
      BY <1>1 DEF IInv, Sound, Referred
    <2>2. h \in HubIds /\ Used(page, h)
      BY <1>1, <2>1, PageFields DEF IInv, Sound, Referred
    <2>3. Underway(page.hubs[h])
      BY <1>1, <2>1, <2>2 DEF IInv, Sound, HubsUnderway
    <2>. QED BY <2>1, <2>3 DEF Underway
  <1>2. IInv => NeverStranded
    BY <1>1 DEF NeverStranded
  <1>. QED BY <1>2, Invariance, PTL
=============================================================================
