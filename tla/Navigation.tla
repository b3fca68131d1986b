----------------------------- MODULE Navigation -----------------------------
(***************************************************************************)
(* What the browser's side reads, silcrow.js: navigate(), cut where it     *)
(* awaits (the response with its text; the route handler and the frame of  *)
(* the view transition), preloads, the memoized promises of prefetch() and *)
(* submit().  All share the response cache and prefetchPromises.           *)
(*                                                                         *)
(* The data is the server's count of mutations: a read gets the count of   *)
(* the moment it is answered, a mutation makes the next.  A mutation has   *)
(* to empty what older reads filled; reads and mutations are under way     *)
(* together, in any number and order.  A URL stands for the key made from  *)
(* it, the layouts present and the path are its own.                       *)
(*                                                                         *)
(* Left out: targets and the swap, the history and the address bar, and    *)
(* the AbortController a target has.  A newer navigation aborts an older   *)
(* one or does not; here any request may be rejected while it is under way.*)
(***************************************************************************)
EXTENDS Naturals, Sequences, SequencesExt

CONSTANTS
  Navs,        \* invocations of navigate() there may be at a time
  Reqs,        \* requests of prefetch()
  Subs,        \* calls of submit()
  Urls,        \* what is asked for
  Json,        \* those that answer with JSON, and are prefetched or seeded
  Preloaded,   \* those of elements with s-preload
  None,        \* nothing
  Sent,        \* a request that the server has not answered
  MaxCache,    \* MAX_CACHE: entries of responseCache
  MaxServer    \* bound: mutations the server commits

ASSUME NavigationAssumption ==
  /\ Json \subseteq Urls /\ Preloaded \subseteq Urls
  /\ Sent # None /\ {None, Sent} \intersect (0..MaxServer) = {}
  /\ None \notin Urls \union Reqs
  /\ MaxCache \in Nat \ {0} /\ MaxServer \in Nat

VARIABLES
  server,     \* mutations the server has committed
  acked,      \* the newest of them that the page has the answer of
  nav,        \* the invocations of navigate()
  responseCache,    \* its entries, the oldest first
  preloadInflight,  \* per URL: no preload, one sent, or what it was answered
  promises,   \* prefetchPromises: none, a request, or what it resolved to
  fetches,    \* the requests of prefetch(), and what they were answered
  submits     \* submit(): not running, sent, or committed as a mutation

vars == <<server, acked, nav, responseCache, preloadInflight, promises, fetches, submits>>

-----------------------------------------------------------------------------
(* What is read.  late: an answer of the server that a mutation's answer   *)
(* overtook: the read was under way when the caches were emptied.          *)

Kinds == {"page", "part", "post"}

\* "part" is a GET with an s-target, "post" any method but GET.
IsGet(kind) == kind # "post"

\* url: the URL asked for, then where a redirect or silcrow-push led.  arrived: the
\* response is in; cached: it came from the response cache, without its headers.
Invocation ==
  [pc : {"fetch", "answered", "arrived", "cached"}, kind : Kinds, url : Urls,
   ver : 0..MaxServer, late : BOOLEAN]

Read == [ver : 0..MaxServer, late : BOOLEAN]

ASSUME NoneAssumption ==
  /\ None \notin Invocation \union Read \union [url : Json, ver : 0..MaxServer \union {Sent}]
  /\ Sent \notin Read /\ Reqs \intersect Read = {}

TypeOK ==
  /\ server \in 0..MaxServer /\ acked \in 0..server
  /\ nav \in [Navs -> Invocation \union {None}]
  /\ responseCache \in Seq([url : Urls, ver : 0..MaxServer, late : BOOLEAN, old : BOOLEAN])
  /\ Len(responseCache) <= MaxCache
  /\ \A i, j \in DOMAIN responseCache :
       responseCache[i].url = responseCache[j].url => i = j
  /\ preloadInflight \in [Preloaded -> Read \union {None, Sent}]
  /\ promises \in [Json -> Read \union Reqs \union {None}]
  /\ fetches \in [Reqs -> [url : Json, ver : 0..MaxServer \union {Sent}] \union {None}]
  /\ submits \in [Subs -> 0..MaxServer \union {None, Sent}]

Resolved(u) == promises[u] \notin Reqs \union {None}

-----------------------------------------------------------------------------
(* The response cache and the memoized promises.                           *)

Cached(u) == {responseCache[i] : i \in {j \in DOMAIN responseCache : responseCache[j].url = u}}

\* Map.set keeps the place of a key it has.
\* (Mistake: what is over the limit is not deleted.)
cacheGrows(c, u, d) ==
  LET entry == [url |-> u, ver |-> d.ver, late |-> d.late, old |-> FALSE]
      at == {i \in DOMAIN c : c[i].url = u}
  IN IF at # {} THEN [i \in DOMAIN c |-> IF i \in at THEN entry ELSE c[i]]
     ELSE Append(c, entry)

cacheSet(c, u, d) ==
  LET set == cacheGrows(c, u, d)
  IN IF Len(set) > MaxCache THEN Tail(set) ELSE set

\* What cacheGet finds; an entry past its time is deleted instead.
Fresh(u) == {e \in Cached(u) : ~e.old}

cacheGet(u) ==
  LET old == {i \in DOMAIN responseCache : responseCache[i].url = u /\ responseCache[i].old}
  IN IF old = {} THEN responseCache
     ELSE RemoveAt(responseCache, CHOOSE i \in old : TRUE)

NoPromises == [u \in Json |-> None]

\* The promises of a page that has just loaded: those it was seeded with.
seedAtomsFromSSR == [Json -> {None, [ver |-> server, late |-> FALSE]}]

\* (Mistake: only the response cache is cleared.)
bustOnlyResponses == responseCache' = <<>> /\ UNCHANGED promises

bustCacheOnMutation == responseCache' = <<>> /\ promises' = NoPromises

\* The reads under way, answered before the mutation v, are late once its answer is in.
LateNav(v) ==
  [n \in Navs |->
     IF nav[n] # None /\ IsGet(nav[n].kind) /\ nav[n].pc # "fetch" /\ nav[n].ver < v
     THEN [nav[n] EXCEPT !.late = TRUE] ELSE nav[n]]

LatePreloads(v) ==
  [u \in Preloaded |->
     IF preloadInflight[u] \notin {None, Sent} /\ preloadInflight[u].ver < v
     THEN [preloadInflight[u] EXCEPT !.late = TRUE] ELSE preloadInflight[u]]

Init ==
  /\ server = 0 /\ acked = 0
  /\ nav = [n \in Navs |-> None]
  /\ responseCache = <<>> /\ preloadInflight = [u \in Preloaded |-> None]
  /\ promises \in seedAtomsFromSSR /\ fetches = [r \in Reqs |-> None]
  /\ submits = [s \in Subs |-> None]

\* window.location.assign: the browser loads the page anew.
FullLoad ==
  /\ nav' = [n \in Navs |-> None]
  /\ responseCache' = <<>> /\ preloadInflight' = [u \in Preloaded |-> None]
  /\ promises' \in seedAtomsFromSSR /\ fetches' = [r \in Reqs |-> None]
  /\ submits' = [s \in Subs |-> None]
  /\ acked' = server /\ UNCHANGED server

-----------------------------------------------------------------------------
(* navigate(), cut where it awaits.                                        *)

\* A GET that finds a fresh entry needs no request.
Begun(kind, u) ==
  LET hits == IF IsGet(kind) THEN Fresh(u) ELSE {}
      hit == CHOOSE e \in hits : TRUE
  IN [pc |-> IF hits = {} THEN "fetch" ELSE "cached", kind |-> kind, url |-> u,
      ver |-> IF hits = {} THEN 0 ELSE hit.ver,
      late |-> hits # {} /\ hit.late]

\* By a click, a form, back and forward, the application, or a header.  A click
\* that waits for a preload comes when that has ended.
navigate(n, kind, u) ==
  /\ nav[n] = None
  /\ nav' = [nav EXCEPT ![n] = Begun(kind, u)]
  /\ responseCache' = IF IsGet(kind) THEN cacheGet(u) ELSE responseCache
  /\ UNCHANGED <<server, acked, preloadInflight, promises, fetches, submits>>

\* The server has handled the request; a mutation is committed.
ServerAnswers(n) ==
  /\ nav[n] # None /\ nav[n].pc = "fetch"
  /\ \/ IsGet(nav[n].kind) /\ UNCHANGED server
     \/ ~IsGet(nav[n].kind) /\ server < MaxServer /\ server' = server + 1
  /\ nav' = [nav EXCEPT ![n].pc = "answered", ![n].ver = server']
  /\ UNCHANGED <<acked, responseCache, preloadInflight, promises, fetches, submits>>

\* The headers and the text are in: a read is cached unless it was redirected or
\* forbids it.
ReadArrives(n) ==
  /\ nav[n] # None /\ nav[n].pc = "answered" /\ IsGet(nav[n].kind)
  /\ \/ /\ \E u \in Urls : nav' = [nav EXCEPT ![n].pc = "arrived", ![n].url = u]
        /\ UNCHANGED responseCache
     \/ /\ nav' = [nav EXCEPT ![n].pc = "arrived"]
        /\ responseCache' = cacheSet(responseCache, nav[n].url, nav[n])
  /\ UNCHANGED <<server, acked, preloadInflight, promises, fetches, submits>>

\* A mutation empties the caches.  The answers of two may come in either order.
MutationArrives(n) ==
  /\ nav[n] # None /\ nav[n].pc = "answered" /\ ~IsGet(nav[n].kind)
  /\ bustCacheOnMutation
  /\ nav' = [LateNav(nav[n].ver) EXCEPT ![n].pc = "arrived"]
  /\ preloadInflight' = LatePreloads(nav[n].ver)
  /\ acked' = IF nav[n].ver > acked THEN nav[n].ver ELSE acked
  /\ UNCHANGED <<server, fetches, submits>>

\* silcrow-full-reload, or a fragment whose slot the page has not.
FullReload(n) ==
  /\ nav[n] # None
  /\ \/ nav[n].pc = "answered" /\ nav[n].kind = "page"
     \/ nav[n].pc \in {"arrived", "cached"}
  /\ FullLoad

\* The route handler or a listener of silcrow:before-swap ends it.
Declines(n) ==
  /\ nav[n] # None /\ nav[n].pc \in {"arrived", "cached"}
  /\ nav' = [nav EXCEPT ![n] = None]
  /\ UNCHANGED <<server, acked, responseCache, preloadInflight, promises, fetches, submits>>

\* Once it is swapped in, JSON of a GET without s-target becomes the promise of its
\* URL.  A silcrow-navigate begins another one before this one ends.
Paint(n) ==
  /\ nav[n] # None /\ nav[n].pc \in {"arrived", "cached"}
  /\ \/ UNCHANGED promises
     \/ /\ nav[n].kind = "page" /\ nav[n].url \in Json
        /\ promises' = [promises EXCEPT
             ![nav[n].url] = [ver |-> nav[n].ver, late |-> nav[n].late]]
  /\ \/ nav' = [nav EXCEPT ![n] = None] /\ UNCHANGED responseCache
     \/ /\ nav[n].pc = "arrived"
        /\ \E m \in Navs, u \in Urls :
             /\ nav[m] = None
             /\ nav' = [nav EXCEPT ![n] = None, ![m] = Begun("page", u)]
             /\ responseCache' = cacheGet(u)
  /\ UNCHANGED <<server, acked, preloadInflight, fetches, submits>>

\* fetch() or text() rejects, or the answer is an error, of a committed mutation too:
\* the network, the timeout, or an abort by a newer navigation.
Rejects(n) ==
  /\ nav[n] # None /\ nav[n].pc \in {"fetch", "answered"}
  /\ nav' = [nav EXCEPT ![n] = None]
  /\ UNCHANGED <<server, acked, responseCache, preloadInflight, promises, fetches, submits>>

-----------------------------------------------------------------------------
(* Preloads, prefetch(), submit() and the world outside.                   *)

\* A preload asks only whether the cache has the key, however old the entry.
startPreload(u) ==
  /\ Cached(u) = {} /\ preloadInflight[u] = None
  /\ preloadInflight' = [preloadInflight EXCEPT ![u] = Sent]
  /\ UNCHANGED <<server, acked, nav, responseCache, promises, fetches, submits>>

PreloadAnswered(u) ==
  /\ preloadInflight[u] = Sent
  /\ preloadInflight' = [preloadInflight EXCEPT ![u] = [ver |-> server, late |-> FALSE]]
  /\ UNCHANGED <<server, acked, nav, responseCache, promises, fetches, submits>>

\* It is cached, or it failed, or may not be.
PreloadEnds(u) ==
  /\ preloadInflight[u] # None
  /\ preloadInflight' = [preloadInflight EXCEPT ![u] = None]
  /\ \/ UNCHANGED responseCache
     \/ /\ preloadInflight[u] # Sent
        /\ responseCache' = cacheSet(responseCache, u, preloadInflight[u])
  /\ UNCHANGED <<server, acked, nav, promises, fetches, submits>>

\* The memoized promise, or a request whose promise is memoized.
prefetchRoute(r, u) ==
  /\ fetches[r] = None /\ promises[u] = None
  /\ fetches' = [fetches EXCEPT ![r] = [url |-> u, ver |-> Sent]]
  /\ promises' = [promises EXCEPT ![u] = r]
  /\ UNCHANGED <<server, acked, nav, responseCache, preloadInflight, submits>>

PrefetchAnswered(r) ==
  /\ fetches[r] # None /\ fetches[r].ver = Sent
  /\ fetches' = [fetches EXCEPT ![r].ver = server]
  /\ UNCHANGED <<server, acked, nav, responseCache, preloadInflight, promises, submits>>

\* (Mistake: the promise of a request that failed stays.)
keepsFailed(u) == promises

\* An error evicts whatever promise the URL has.
failed(u) == [promises EXCEPT ![u] = None]

\* Its promise, while it is the memoized one, gives the data from now on.
PrefetchEnds(r) ==
  /\ fetches[r] # None
  /\ LET u == fetches[r].url IN
     \/ /\ fetches[r].ver # Sent
        /\ promises' = IF promises[u] = r
                       THEN [promises EXCEPT ![u] = [ver |-> fetches[r].ver, late |-> FALSE]]
                       ELSE promises
     \/ promises' = failed(u)
  /\ fetches' = [fetches EXCEPT ![r] = None]
  /\ UNCHANGED <<server, acked, nav, responseCache, preloadInflight, submits>>

evictPrefetch(u) ==
  /\ promises[u] # None
  /\ promises' = [promises EXCEPT ![u] = None]
  /\ UNCHANGED <<server, acked, nav, responseCache, preloadInflight, fetches, submits>>

submitAction(s) ==
  /\ submits[s] = None
  /\ submits' = [submits EXCEPT ![s] = Sent]
  /\ UNCHANGED <<server, acked, nav, responseCache, preloadInflight, promises, fetches>>

SubmitCommits(s) ==
  /\ submits[s] = Sent /\ server < MaxServer
  /\ server' = server + 1 /\ submits' = [submits EXCEPT ![s] = server + 1]
  /\ UNCHANGED <<acked, nav, responseCache, preloadInflight, promises, fetches>>

\* Any answer empties the caches, a refusal too.
SubmitEnds(s) ==
  /\ submits[s] # None
  /\ submits' = [submits EXCEPT ![s] = None]
  /\ bustCacheOnMutation
  /\ \/ submits[s] = Sent /\ UNCHANGED <<acked, nav, preloadInflight>>
     \/ /\ submits[s] # Sent
        /\ acked' = IF submits[s] > acked THEN submits[s] ELSE acked
        /\ nav' = LateNav(submits[s]) /\ preloadInflight' = LatePreloads(submits[s])
  /\ UNCHANGED <<server, fetches>>

\* Without an answer it throws.
SubmitThrows(s) ==
  /\ submits[s] # None
  /\ submits' = [submits EXCEPT ![s] = None]
  /\ UNCHANGED <<server, acked, nav, responseCache, preloadInflight, promises, fetches>>

\* CACHE_TTL has passed since the entry was made.
EntryAges(i) ==
  /\ i \in DOMAIN responseCache /\ ~responseCache[i].old
  /\ responseCache' = [responseCache EXCEPT ![i].old = TRUE]
  /\ UNCHANGED <<server, acked, nav, preloadInflight, promises, fetches, submits>>

\* A mutation of another page's, or one this page no longer waits for.
OthersMutate ==
  /\ server < MaxServer /\ server' = server + 1
  /\ UNCHANGED <<acked, nav, responseCache, preloadInflight, promises, fetches, submits>>

User ==
  \/ \E n \in Navs, kind \in Kinds, u \in Urls : navigate(n, kind, u)
  \/ \E u \in Preloaded : startPreload(u)
  \/ \E u \in Json : evictPrefetch(u)
  \/ \E r \in Reqs, u \in Json : prefetchRoute(r, u)
  \/ \E s \in Subs : submitAction(s)

Step(n) ==
  \/ ServerAnswers(n) \/ ReadArrives(n) \/ MutationArrives(n) \/ FullReload(n)
  \/ Declines(n) \/ Paint(n) \/ Rejects(n)

Rest ==
  \/ \E u \in Preloaded : PreloadAnswered(u) \/ PreloadEnds(u)
  \/ \E r \in Reqs : PrefetchAnswered(r) \/ PrefetchEnds(r)
  \/ \E s \in Subs : SubmitCommits(s) \/ SubmitEnds(s) \/ SubmitThrows(s)
  \/ \E i \in 1..MaxCache : EntryAges(i)
  \/ OthersMutate

Next == User \/ (\E n \in Navs : Step(n)) \/ Rest

Spec == Init /\ [][Next]_vars

-----------------------------------------------------------------------------
(* What must hold.                                                         *)

\* Read your writes, whatever is under way: once a mutation's answer is in, no
\* entry of the response cache, no memoized promise and no GET about to be swapped in
\* gives data from before it, unless that comes from a read which the server had
\* answered but which had not come to its end when the mutation's answer came.  "Prefetch
\* promises must also clear so subsequent use() calls observe fresh data": what
\* prefetch() itself asked for has no such exception.
ReadYourWrites ==
  /\ \A e \in ToSet(responseCache) : e.late \/ e.ver >= acked
  /\ \A u \in Json : Resolved(u) => promises[u].late \/ promises[u].ver >= acked
  /\ \A u \in Json : promises[u] \in Reqs =>
       LET f == fetches[promises[u]] IN f # None => f.ver = Sent \/ f.ver >= acked
  /\ \A n \in Navs : nav[n] # None /\ IsGet(nav[n].kind) /\ nav[n].pc # "fetch" =>
       nav[n].late \/ nav[n].ver >= acked

\* "Evict on error so next attempt is fresh": a memoized promise gave data, or its
\* request is under way, for that URL.  None that failed is handed out again, though
\* evictions, mutations and navigations replace promises while requests run.
MemoizedIsLive ==
  \A u \in Json : promises[u] \in Reqs =>
    fetches[promises[u]] # None /\ fetches[promises[u]].url = u

=============================================================================
