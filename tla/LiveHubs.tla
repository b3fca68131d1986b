------------------------------- MODULE LiveHubs -------------------------------
(***************************************************************************)
(* The live connections of Silcrow: elements that subscribe to a URL share *)
(* one hub per URL, and a hub keeps one EventSource or one WebSocket open, *)
(* with a timer that connects it again after an error.                     *)
(*                                                                         *)
(* The module-level maps of silcrow.js are the fields of one record, page, *)
(* and its functions map a page to a page.  Two things are left out: the   *)
(* length of a delay (a timer fires at any time after it is set) and what  *)
(* the messages carry.  state.paused is never read and has no counterpart. *)
(***************************************************************************)
EXTENDS Integers, FiniteSets, FiniteSetsExt

CONSTANTS
  Elements,   \* elements that subscribe
  Paths,      \* paths that disconnect and reconnect name
  Urls,       \* what is subscribed to: an SSE or a WebSocket endpoint on a path
  None,       \* no state, no hub
  HubIds,     \* hub objects there may be at a time
  MaxWork,    \* sockets and timers there are at most
  MaxStates   \* states one element may leave behind for one URL

ASSUME HubsAssumption ==
  /\ Urls \subseteq [proto : {"sse", "ws"}, path : Paths]
  /\ IsFiniteSet(Elements)
  /\ None \notin Elements \union HubIds
  /\ MaxWork \in Nat /\ MaxStates \in Nat \ {0}

VARIABLES
  page,   \* the maps of the runtime
  asked   \* URLs whose hub the application asked to pause

vars == <<page, asked>>

-----------------------------------------------------------------------------
(* Hubs and states.                                                        *)

\* link: what hub.es or hub.socket refers to; strays and closing: sockets that
\* still run, or close, and that the hub no longer refers to; timer: the handle
\* hub.reconnectTimer is set; loose: timers whose handle was overwritten.
Hub == [url : Urls, subscribers : SUBSET Elements, paused : BOOLEAN,
        link : {"none", "live", "closing"}, strays : Nat, closing : Nat,
        timer : BOOLEAN, loose : Nat]

createHub(u) ==
  [url |-> u, subscribers |-> {}, paused |-> FALSE, link |-> "none",
   strays |-> 0, closing |-> 0, timer |-> FALSE, loose |-> 0]

\* A state object; n tells apart those of one element and one URL.
State == [el : Elements, url : Urls, hub : HubIds, n : 1..MaxStates]

ASSUME NoneAssumption == None \notin Hub \union State

Page == [
  conn   : [Elements -> State \union {None}],   \* liveConnections
  states : SUBSET State,                        \* the sets of liveConnectionsByUrl
  reg    : [Urls -> HubIds \union {None}],      \* sseHubs and wsHubs
  hubs   : [HubIds -> Hub \union {None}],       \* hub objects something refers to
  alive  : BOOLEAN]                             \* destroy() has not run

TypeOK == page \in Page /\ asked \subseteq Urls

Init ==
  /\ page = [conn |-> [e \in Elements |-> None], states |-> {},
             reg |-> [u \in Urls |-> None], hubs |-> [h \in HubIds |-> None],
             alive |-> TRUE]
  /\ asked = {}

Count(b) == IF b THEN 1 ELSE 0

Timers(hub) == hub.loose + Count(hub.timer)

Work(hub) == hub.strays + hub.closing + Count(hub.link # "none") + Timers(hub)

-----------------------------------------------------------------------------
(* One hub.  close() of an EventSource takes effect at once, that of a     *)
(* WebSocket when its onclose runs.                                        *)

\* (Mistake: the test of paused is missing.)
connectWhilePaused(hub) ==
  IF hub.subscribers = {} THEN hub ELSE [hub EXCEPT !.link = "live"]

connectSseHub(hub) ==
  IF hub.paused \/ hub.subscribers = {} THEN hub ELSE [hub EXCEPT !.link = "live"]

\* A socket that is closing counts as none: the new one takes its place.
connectWsHub(hub) ==
  IF hub.paused \/ hub.link = "live" THEN hub
  ELSE [hub EXCEPT !.link = "live",
                   !.closing = @ + Count(hub.link = "closing")]

connect(hub) == IF hub.url.proto = "sse" THEN connectSseHub(hub) ELSE connectWsHub(hub)

\* clearTimeout(hub.reconnectTimer): the timers it no longer refers to stay.
Untimed(hub) == [hub EXCEPT !.timer = FALSE]

\* hub.reconnectTimer = setTimeout(...)
Timed(hub) == [hub EXCEPT !.timer = TRUE, !.loose = @ + Count(hub.timer)]

\* hub.es.close(), or hub.socket.close(), and the reference set to null.
Unlinked(hub) ==
  [hub EXCEPT !.link = "none",
              !.closing = @ + Count(hub.url.proto = "ws" /\ hub.link # "none")]

pauseLiveState(hub) ==
  IF hub.url.proto = "ws" THEN hub
  ELSE [Unlinked(Untimed(hub)) EXCEPT !.paused = TRUE]

\* (Mistake: the timer is cleared and nothing takes its place.)
RestartedByTimer(hub) == [Untimed(hub) EXCEPT !.paused = FALSE]

Restarted(hub) == connect([Untimed(hub) EXCEPT !.paused = FALSE])

-----------------------------------------------------------------------------
(* The maps.                                                               *)

WithHub(p, h, hub) == [p EXCEPT !.hubs[h] = hub]

\* (Mistake: the hub is forgotten with its connection open.)
removeOpenHub(p, h) ==
  IF p.hubs[h].subscribers # {} THEN p
  ELSE [p EXCEPT !.hubs[h] = Untimed(@), !.reg[p.hubs[h].url] = None]

\* removeSseHub and removeWsHub: the entry goes by URL, whichever hub has it.
removeHub(p, h) ==
  IF p.hubs[h].subscribers # {} THEN p
  ELSE [p EXCEPT !.hubs[h] = Unlinked(Untimed(@)), !.reg[p.hubs[h].url] = None]

FreeHubs(p) == {h \in HubIds : p.hubs[h] = None}

getOrCreateHub(p, u) ==
  IF p.reg[u] # None THEN p
  ELSE LET h == CHOOSE x \in FreeHubs(p) : TRUE
       IN  [p EXCEPT !.reg[u] = h, !.hubs[h] = createHub(u)]

unregisterLiveState(p, s) ==
  [p EXCEPT !.states = @ \ {s}, !.conn[s.el] = IF @ = s THEN None ELSE @]

\* unsubscribeSse and unsubscribeWs
unsubscribe(p, s) ==
  LET q == unregisterLiveState(p, s)
  IN  removeHub(WithHub(q, s.hub, [q.hubs[s.hub] EXCEPT !.subscribers = @ \ {s.el}]), s.hub)

\* Pausing an element pauses its hub, and the hub keeps the element.
abandon(p, s) ==
  unregisterLiveState(WithHub(p, s.hub, pauseLiveState(p.hubs[s.hub])), s)

\* Each way of opening undoes what the element had in its own protocol, and
\* treats the other one differently.
LeaveForSse(p, e) ==
  IF p.conn[e] # None /\ p.conn[e].url.proto = "sse" THEN unsubscribe(p, p.conn[e])
  ELSE p

LeaveForWs(p, e) ==
  IF p.conn[e] = None THEN p
  ELSE IF p.conn[e].url.proto = "ws" THEN unsubscribe(p, p.conn[e])
  ELSE abandon(p, p.conn[e])

FreeNs(p, e, u) ==
  {n \in 1..MaxStates : \A s \in p.states : ~(s.el = e /\ s.url = u /\ s.n = n)}

\* The common rest of openLive and openWsLive.
Subscribed(p, e, u) ==
  LET q == getOrCreateHub(p, u)
      h == q.reg[u]
      s == [el |-> e, url |-> u, hub |-> h, n |-> CHOOSE x \in FreeNs(p, e, u) : TRUE]
  IN  [WithHub(q, h, connect([q.hubs[h] EXCEPT !.subscribers = @ \union {e}]))
        EXCEPT !.conn[e] = s, !.states = @ \union {s}]

-----------------------------------------------------------------------------
(* disconnect(root) and reconnect(root): the root is an element or a path, *)
(* and a path with no SSE state stands for its WebSocket.                  *)

StatesOf(p, u) == {s \in p.states : s.url = u}

resolveLiveStates(p, root) ==
  IF root \in Elements THEN IF p.conn[root] = None THEN {} ELSE {p.conn[root]}
  ELSE LET sse == StatesOf(p, [proto |-> "sse", path |-> root])
       IN  IF sse # {} THEN sse ELSE StatesOf(p, [proto |-> "ws", path |-> root])

HubsOf(S) == {s.hub : s \in S}

disconnectLive(p, S) ==
  [p EXCEPT !.hubs = [h \in HubIds |->
     IF h \in HubsOf(S) THEN pauseLiveState(@[h]) ELSE @[h]]]

reconnectSse(p, S) ==
  [p EXCEPT !.hubs = [h \in HubIds |->
     IF h \in HubsOf(S) THEN Restarted(@[h]) ELSE @[h]]]

\* A WebSocket state moves to the hub that is registered now.
reconnectWs(p, S, u) ==
  LET q == getOrCreateHub(p, u)
      h == q.reg[u]
      moved(s) == IF s \in S THEN [s EXCEPT !.hub = h] ELSE s
  IN  [WithHub(q, h, Restarted([q.hubs[h] EXCEPT
                                 !.subscribers = @ \union {s.el : s \in S}]))
        EXCEPT !.states = {moved(s) : s \in @},
               !.conn = [e \in Elements |-> IF @[e] = None THEN None ELSE moved(@[e])]]

reconnectLive(p, S) ==
  LET u == (CHOOSE s \in S : TRUE).url
  IN  IF u.proto = "sse" THEN reconnectSse(p, S) ELSE reconnectWs(p, S, u)

-----------------------------------------------------------------------------
(* Steps.  A hub object is forgotten when nothing refers to it any more.   *)

InUse(p, h) ==
  \/ \E u \in Urls : p.reg[u] = h
  \/ \E s \in p.states : s.hub = h
  \/ Work(p.hubs[h]) > 0

Collected(p) ==
  [p EXCEPT !.hubs = [h \in HubIds |->
     IF @[h] # None /\ InUse(p, h) THEN @[h] ELSE None]]

Become(p) == page' = Collected(p)

\* The bounds: callers come only while there is room for a hub object, where
\* one is needed, and for one more socket.
Room(p, u) ==
  /\ p.reg[u] # None \/ FreeHubs(p) # {}
  /\ MapThenSumSet(LAMBDA h : Work(p.hubs[h]), HubIds \ FreeHubs(p)) < MaxWork

\* Silcrow.live, s-sse and s-ws attributes, response headers, and
\* finalizeNavigation for the elements a swap brought in.
OpenSse(e, u) ==
  LET left == LeaveForSse(page, e)
  IN  /\ page.alive /\ u.proto = "sse"
      /\ Room(left, u) /\ FreeNs(left, e, u) # {}
      /\ Become(Subscribed(left, e, u))
      /\ UNCHANGED asked

OpenWs(e, u) ==
  LET left == LeaveForWs(page, e)
  IN  /\ page.alive /\ u.proto = "ws"
      /\ Room(left, u) /\ FreeNs(left, e, u) # {}
      /\ Become(Subscribed(left, e, u))
      /\ UNCHANGED asked

\* The MutationObserver reports a node that was removed, or moved.
cleanupLiveNode(e) ==
  LET s == page.conn[e]
  IN  /\ page.alive /\ s # None
      /\ Become(IF s.url.proto = "ws" THEN unsubscribe(page, s) ELSE abandon(page, s))
      /\ UNCHANGED asked

Disconnect(root) ==
  LET S == resolveLiveStates(page, root)
  IN  /\ page.alive /\ S # {}
      /\ Become(disconnectLive(page, S))
      /\ asked' = asked \union {s.url : s \in S}

Reconnect(root) ==
  LET S == resolveLiveStates(page, root)
  IN  /\ page.alive /\ S # {} /\ \A s \in S : Room(page, s.url)
      /\ Become(reconnectLive(page, S))
      /\ asked' = asked \ {s.url : s \in S}

\* destroyAllLive: handles are cleared and links closed, and the hubs keep
\* their subscribers.
Destroy ==
  LET registered == {page.reg[u] : u \in Urls} \ {None}
      closed(hub) == IF hub.url.proto = "sse" THEN Unlinked(hub)
                     ELSE [hub EXCEPT !.link = IF @ = "live" THEN "closing" ELSE @]
  IN  /\ page.alive
      /\ Become([page EXCEPT
           !.alive = FALSE, !.states = {},
           !.conn = [e \in Elements |-> None], !.reg = [u \in Urls |-> None],
           !.hubs = [h \in HubIds |->
             IF h \in registered THEN closed(Untimed(@[h])) ELSE @[h]]])
      /\ UNCHANGED asked

-----------------------------------------------------------------------------
(* What the browser calls.                                                 *)

Live(h, proto) == page.hubs[h] # None /\ page.hubs[h].url.proto = proto

\* es.onerror
SseError(h) ==
  LET hub == page.hubs[h]
      cut == [hub EXCEPT !.link = "none"]
  IN  /\ Live(h, "sse") /\ hub.link = "live"
      /\ Become(IF hub.subscribers = {} THEN removeHub(WithHub(page, h, cut), h)
                ELSE WithHub(page, h, IF hub.paused THEN cut ELSE Timed(cut)))
      /\ UNCHANGED asked

\* hub.socket = null, whichever socket it was that closed.
Forgotten(hub) ==
  [hub EXCEPT !.link = "none", !.strays = @ + Count(hub.link = "live"),
              !.closing = @ + Count(hub.link = "closing")]

\* socket.onclose, where the socket has left the hub's counts already.
onclose(p, h, hub) ==
  LET q == WithHub(p, h, Forgotten(hub))
  IN  IF hub.paused THEN q
      ELSE IF hub.subscribers = {} THEN removeHub(q, h)
      ELSE WithHub(p, h, Timed(Forgotten(hub)))

\* The closing handshake of the hub's socket begins.
WsCloseBegins(h) ==
  /\ Live(h, "ws") /\ page.hubs[h].link = "live"
  /\ Become(WithHub(page, h, [page.hubs[h] EXCEPT !.link = "closing"]))
  /\ UNCHANGED asked

\* It ends, or the hub's socket is lost without one.
WsGone(h, link) ==
  /\ Live(h, "ws") /\ page.hubs[h].link = link
  /\ Become(onclose(page, h, [page.hubs[h] EXCEPT !.link = "none"]))
  /\ UNCHANGED asked

WsClosed(h) == WsGone(h, "closing")

WsLost(h) == WsGone(h, "live")

\* A socket the hub does not refer to is closed.
StrayClosed(h) ==
  /\ Live(h, "ws")
  /\ \/ /\ page.hubs[h].strays > 0
        /\ Become(onclose(page, h, [page.hubs[h] EXCEPT !.strays = @ - 1]))
     \/ /\ page.hubs[h].closing > 0
        /\ Become(onclose(page, h, [page.hubs[h] EXCEPT !.closing = @ - 1]))
  /\ UNCHANGED asked

\* A timer whose handle was overwritten sets hub.reconnectTimer to null too, and
\* the timer that refers to is loose from then on.
WithoutLoose(hub) == [Untimed(hub) EXCEPT !.loose = @ - Count(~hub.timer)]

\* (Mistake: a timer that was cleared fires.)
ClearedTimerFires(h) ==
  /\ page.hubs[h] # None
  /\ Become(WithHub(page, h, connect(WithoutLoose(page.hubs[h]))))
  /\ UNCHANGED asked

TimerFires(h) ==
  /\ page.hubs[h] # None
  /\ \/ /\ page.hubs[h].timer
        /\ Become(WithHub(page, h, connect(Untimed(page.hubs[h]))))
     \/ /\ page.hubs[h].loose > 0
        /\ Become(WithHub(page, h, connect(WithoutLoose(page.hubs[h]))))
  /\ UNCHANGED asked

Next ==
  \/ \E e \in Elements : cleanupLiveNode(e)
  \/ \E e \in Elements, u \in Urls : OpenSse(e, u) \/ OpenWs(e, u)
  \/ \E root \in Elements \union Paths : Disconnect(root) \/ Reconnect(root)
  \/ Destroy
  \/ \E h \in HubIds : \/ SseError(h) \/ WsCloseBegins(h) \/ WsClosed(h)
                       \/ WsLost(h) \/ StrayClosed(h) \/ TimerFires(h)

Spec == Init /\ [][Next]_vars

-----------------------------------------------------------------------------
(* Properties.                                                             *)

\* However often elements come, go, change their URL and reconnect, and
\* whatever timers are still loose, a URL has one EventSource at most.
OneStreamPerUrl ==
  page.alive =>
    \A x, y \in HubIds :
      /\ page.hubs[x] # None /\ page.hubs[x].url.proto = "sse" /\ page.hubs[x].link = "live"
      /\ page.hubs[y] # None /\ page.hubs[y].url = page.hubs[x].url
      => y = x \/ page.hubs[y].link = "none"

\* A paused hub stays silent: no timer and no late error brings its stream back.
PausedIsSilent ==
  \A h \in HubIds :
    page.hubs[h] # None /\ page.hubs[h].paused =>
      page.hubs[h].link = "none" /\ ~page.hubs[h].timer

\* An element that has a connection is among the subscribers of its hub, and
\* the hub is paused or has something under way: an error is always followed by
\* a timer, and no handler clears the timer of another's connection.
NeverStranded ==
  \A e \in Elements : page.conn[e] # None =>
    LET hub == page.hubs[page.conn[e].hub]
    IN  /\ e \in hub.subscribers
        /\ ~hub.paused => hub.link # "none" \/ Timers(hub) > 0

\* finalizeNavigation: "The MutationObserver cleans up removed elements; this
\* connects the new ones."  So an EventSource pauses at the application's
\* request only, never because another element left the page.
NewOnesConnected ==
  \A s \in page.states :
    /\ s.url.proto = "sse" /\ page.hubs[s.hub].paused
    /\ page.hubs[s.hub].subscribers # {s.el}
    => s.url \in asked
=============================================================================
