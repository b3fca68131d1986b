--------------------------- MODULE NavigationProofs ---------------------------
(***************************************************************************)
(* Theorems about Navigation, for every set of URLs and requests, every    *)
(* size of the cache, and any number of reads and mutations under way.     *)
(*                                                                         *)
(* IInv says of everything that is kept or on its way to the page what     *)
(* ReadYourWrites says of what is given: it is late, or as new as the      *)
(* newest mutation confirmed.  What was sent and not answered needs        *)
(* nothing: its answer will have the server's count, which is no less.     *)
(* A memoized request is under way, so that what it resolves to is known   *)
(* to be current when it ends.                                             *)
(***************************************************************************)
EXTENDS Navigation, SequenceTheorems, TLAPS

\* Late, or as new as the mutation a.
Current(d, a) == d.late \/ d.ver >= a

Entry == [url : Urls, ver : 0..MaxServer, late : BOOLEAN, old : BOOLEAN]
Fetch == [url : Json, ver : 0..MaxServer \union {Sent}]

CacheOK(c, a) ==
  /\ c \in Seq(Entry)
  /\ Len(c) <= MaxCache
  /\ \A i, j \in DOMAIN c : c[i].url = c[j].url => i = j
  /\ \A i \in DOMAIN c : Current(c[i], a)

\* s: the mutations committed; a: the newest confirmed.
NavOK(q, s, a) ==
  \/ q = None
  \/ /\ q \in Invocation
     /\ ~IsGet(q.kind) => q.ver <= s
     /\ IsGet(q.kind) /\ q.pc # "fetch" => Current(q, a)

PreloadOK(d, a) == d \in {None, Sent} \/ (d \in Read /\ Current(d, a))

PromiseOK(p, u, f, a) ==
  \/ p = None
  \/ /\ p \in Read /\ Current(p, a)
  \/ /\ p \in Reqs /\ f[p] # None /\ f[p].url = u
     /\ f[p].ver = Sent \/ f[p].ver >= a

NavsOK(nv, s, a) ==
  nv \in [Navs -> Invocation \union {None}] /\ \A n \in Navs : NavOK(nv[n], s, a)

PreloadsOK(pl, a) ==
  /\ pl \in [Preloaded -> Read \union {None, Sent}]
  /\ \A u \in Preloaded : PreloadOK(pl[u], a)

PromisesOK(pr, f, a) ==
  /\ pr \in [Json -> Read \union Reqs \union {None}]
  /\ f \in [Reqs -> Fetch \union {None}]
  /\ \A u \in Json : PromiseOK(pr[u], u, f, a)

CountsOK == server \in 0..MaxServer /\ acked \in 0..server
SubmitsOK(sb, s) == sb \in [Subs -> 0..s \union {None, Sent}]

IInv ==
  /\ CountsOK
  /\ NavsOK(nav, server, acked)
  /\ CacheOK(responseCache, acked)
  /\ PreloadsOK(preloadInflight, acked)
  /\ PromisesOK(promises, fetches, acked)
  /\ SubmitsOK(submits, server)

-----------------------------------------------------------------------------
(* Sequences.                                                              *)

\* One removed.
LEMMA RemoveAtFacts ==
  ASSUME NEW S, NEW s \in Seq(S), NEW i \in DOMAIN s
  PROVE  /\ RemoveAt(s, i) \in Seq(S) /\ Len(RemoveAt(s, i)) = Len(s) - 1
         /\ \A j \in 1..(Len(s) - 1) : RemoveAt(s, i)[j] = s[IF j < i THEN j ELSE j + 1]
<1> DEFINE front == SubSeq(s, 1, i - 1)
           back == SubSeq(s, i + 1, Len(s))
<1>1. i \in 1..Len(s) /\ Len(s) \in Nat /\ \A j \in 1..Len(s) : s[j] \in S
  OBVIOUS
<1>2. /\ front \in Seq(S) /\ Len(front) = i - 1
      /\ \A j \in 1..(i - 1) : front[j] = s[j]
  BY <1>1, SubSeqProperties
<1>3. /\ back \in Seq(S) /\ Len(back) = Len(s) - i
      /\ \A j \in 1..(Len(s) - i) : back[j] = s[i + j]
  BY <1>1, SubSeqProperties
<1>4. RemoveAt(s, i) = front \o back
  BY DEF RemoveAt
<1> HIDE DEF front, back
<1>5. /\ front \o back \in Seq(S) /\ Len(front \o back) = Len(s) - 1
      /\ \A j \in 1..(Len(s) - 1) :
           (front \o back)[j] = IF j <= i - 1 THEN front[j] ELSE back[j - (i - 1)]
  BY <1>1, <1>2, <1>3, ConcatProperties
<1>6. ASSUME NEW j \in 1..(Len(s) - 1)
      PROVE  (front \o back)[j] = s[IF j < i THEN j ELSE j + 1]
  <2>1. CASE j < i
    BY <1>1, <1>2, <1>5, <2>1
  <2>2. CASE ~(j < i)
    <3>1. j - (i - 1) \in 1..(Len(s) - i) /\ i + (j - (i - 1)) = j + 1
      BY <1>1, <2>2
    <3>2. back[j - (i - 1)] = s[j + 1]
      BY <1>3, <3>1
    <3>3. QED
      BY <1>1, <1>5, <2>2, <3>2
  <2>3. QED
    BY <2>1, <2>2
<1>7. QED
  BY <1>4, <1>5, <1>6

-----------------------------------------------------------------------------
(* The response cache.                                                     *)

\* An entry is set from data that is current.
LEMMA CacheSetFacts ==
  ASSUME NEW a \in Nat, NEW c, CacheOK(c, a), NEW u \in Urls, NEW d,
         d.ver \in 0..MaxServer, d.late \in BOOLEAN, Current(d, a)
  PROVE  CacheOK(cacheSet(c, u, d), a)
<1> DEFINE entry == [url |-> u, ver |-> d.ver, late |-> d.late, old |-> FALSE]
           at == {i \in DOMAIN c : c[i].url = u}
           set == cacheGrows(c, u, d)
<1>1. /\ entry \in Entry /\ entry.url = u /\ Current(entry, a)
      /\ c \in Seq(Entry) /\ Len(c) <= MaxCache /\ Len(c) \in Nat /\ DOMAIN c = 1..Len(c)
      /\ \A i, j \in DOMAIN c : c[i].url = c[j].url => i = j
      /\ \A i \in DOMAIN c : Current(c[i], a)
  BY DEF CacheOK, Entry, Current
<1> HIDE DEF entry
<1>2. CASE at # {}
  <2>1. set = [i \in DOMAIN c |-> IF i \in at THEN entry ELSE c[i]]
    BY <1>2 DEF cacheGrows, entry
  <2>2. /\ set \in Seq(Entry) /\ Len(set) = Len(c) /\ DOMAIN set = DOMAIN c
        /\ \A i, j \in DOMAIN set : set[i].url = set[j].url => i = j
    <3> HIDE DEF set
    <3>1. \A i \in 1..Len(c) : c[i] \in Entry
      BY <1>1
    <3>2. /\ DOMAIN set = 1..Len(c)
          /\ \A i \in 1..Len(c) : set[i] = IF c[i].url = u THEN entry ELSE c[i]
      BY <1>1, <2>1
    <3>3. set \in [1..Len(c) -> Entry]
      <4>1. \A i \in 1..Len(c) : (IF i \in at THEN entry ELSE c[i]) \in Entry
        BY <1>1, <3>1
      <4>2. QED
        BY <1>1, <2>1, <4>1
    <3>4. set \in Seq(Entry) /\ Len(set) = Len(c)
      BY <1>1, <3>3
    <3>5. \A i \in 1..Len(c) : set[i].url = c[i].url
      BY <1>1, <3>2
    <3>6. QED
      BY <1>1, <3>2, <3>4, <3>5
  <2>3. \A i \in DOMAIN set : Current(set[i], a)
    BY <1>1, <2>1
  <2>4. cacheSet(c, u, d) = set
    <3>1. ~(Len(set) > MaxCache)
      <4> HIDE DEF set
      <4>1. QED
        BY <1>1, <2>2, NavigationAssumption
    <3>2. QED
      BY <3>1 DEF cacheSet
  <2>5. QED
    BY <1>1, <2>2, <2>3, <2>4 DEF CacheOK
<1>3. CASE at = {}
  <2>1. set = Append(c, entry)
    BY <1>3 DEF cacheGrows, entry
  <2>2. /\ set \in Seq(Entry) /\ Len(set) = Len(c) + 1 /\ DOMAIN set = 1..(Len(c) + 1)
        /\ \A i \in 1..Len(c) : set[i] = c[i]
        /\ set[Len(c) + 1] = entry
    BY <1>1, <2>1
  <2>3. \A i, j \in DOMAIN set : set[i].url = set[j].url => i = j
    BY <1>1, <1>3, <2>2
  <2>4. \A i \in DOMAIN set : Current(set[i], a)
    BY <1>1, <2>2
  <2>5. CASE Len(set) > MaxCache
    <3>1. cacheSet(c, u, d) = Tail(set) /\ set # <<>>
      BY <2>2, <2>5, <1>1 DEF cacheSet
    <3>2. /\ Tail(set) \in Seq(Entry) /\ Len(Tail(set)) = Len(c)
          /\ DOMAIN Tail(set) = 1..Len(c)
          /\ \A i \in 1..Len(c) : Tail(set)[i] = set[i + 1]
      BY <1>1, <2>2, <3>1
    <3>3. \A i, j \in DOMAIN Tail(set) : Tail(set)[i].url = Tail(set)[j].url => i = j
      BY <1>1, <2>2, <2>3, <3>2
    <3>4. \A i \in DOMAIN Tail(set) : Current(Tail(set)[i], a)
      BY <1>1, <2>2, <2>4, <3>2
    <3>5. QED
      BY <1>1, <3>1, <3>2, <3>3, <3>4 DEF CacheOK
  <2>6. CASE ~(Len(set) > MaxCache)
    <3>1. cacheSet(c, u, d) = set /\ Len(set) <= MaxCache
      BY <1>1, <2>2, <2>6, NavigationAssumption DEF cacheSet
    <3>2. QED
      BY <2>2, <2>3, <2>4, <3>1 DEF CacheOK
  <2>7. QED
    BY <2>5, <2>6
<1>4. QED
  BY <1>2, <1>3

\* An entry is deleted, and no other.
LEMMA CacheWithoutFacts ==
  ASSUME NEW a \in Nat, NEW c, CacheOK(c, a), NEW i \in DOMAIN c
  PROVE  CacheOK(RemoveAt(c, i), a)
<1> DEFINE d == RemoveAt(c, i)
           from(j) == IF j < i THEN j ELSE j + 1
<1>1. /\ c \in Seq(Entry) /\ Len(c) <= MaxCache /\ Len(c) \in Nat /\ DOMAIN c = 1..Len(c)
      /\ \A j, k \in DOMAIN c : c[j].url = c[k].url => j = k
      /\ \A j \in DOMAIN c : Current(c[j], a)
  BY DEF CacheOK
<1>2. /\ d \in Seq(Entry) /\ Len(d) = Len(c) - 1
      /\ \A j \in 1..(Len(c) - 1) : d[j] = c[IF j < i THEN j ELSE j + 1]
  <2>1. /\ RemoveAt(c, i) \in Seq(Entry) /\ Len(RemoveAt(c, i)) = Len(c) - 1
        /\ \A j \in 1..(Len(c) - 1) : RemoveAt(c, i)[j] = c[IF j < i THEN j ELSE j + 1]
    <3>1. c \in Seq(Entry)
      BY <1>1
    <3>2. QED
      BY <3>1, RemoveAtFacts
  <2>2. QED
    BY <2>1
<1> HIDE DEF d
<1>3. DOMAIN d = 1..(Len(c) - 1)
  BY <1>2
<1>4. \A j \in DOMAIN d : from(j) \in DOMAIN c
  BY <1>1, <1>3
<1>5. ASSUME NEW j \in DOMAIN d, NEW k \in DOMAIN d, d[j].url = d[k].url PROVE j = k
  <2>1. from(j) = from(k)
    BY <1>1, <1>2, <1>3, <1>4, <1>5
  <2>2. QED
    BY <1>1, <1>3, <2>1
<1>6. Len(d) <= MaxCache
  BY <1>1, <1>2, NavigationAssumption
<1>7. \A j \in DOMAIN d : Current(d[j], a)
  BY <1>1, <1>2, <1>3, <1>4
<1>8. QED
  BY <1>2, <1>5, <1>6, <1>7 DEF CacheOK, d

\* An entry past its time is deleted.
LEMMA CacheGetFacts ==
  ASSUME NEW a \in Nat, CacheOK(responseCache, a), NEW u
  PROVE  CacheOK(cacheGet(u), a)
<1>1. \/ cacheGet(u) = responseCache
      \/ \E i \in DOMAIN responseCache : cacheGet(u) = RemoveAt(responseCache, i)
  BY DEF cacheGet
<1>2. QED
  BY <1>1, CacheWithoutFacts

\* An emptied cache.
LEMMA EmptyFacts == ASSUME NEW a PROVE CacheOK(<<>>, a)
BY NavigationAssumption DEF CacheOK

-----------------------------------------------------------------------------
(* Navigations, preloads and promises.                                     *)

\* The newer of two mutations.
Newer(a, v) == IF v > a THEN v ELSE a

\* More mutations committed.
LEMMA MoreCommitted ==
  ASSUME NEW s \in Nat, NEW t \in Nat, s <= t, NEW a, NEW nv, NavsOK(nv, s, a)
  PROVE  NavsOK(nv, t, a)
<1>1. ASSUME NEW n \in Navs PROVE NavOK(nv[n], t, a)
  <2>1. nv[n] # None => nv[n].ver \in Nat
    BY NavigationAssumption DEF NavsOK, Invocation
  <2>2. QED
    BY <2>1 DEF NavsOK, NavOK
<1>2. QED
  BY <1>1 DEF NavsOK

\* One invocation set.
LEMMA NavSetFacts ==
  ASSUME NEW s, NEW a, NEW nv, NavsOK(nv, s, a), NEW n \in Navs,
         NEW q \in Invocation \union {None}, NavOK(q, s, a)
  PROVE  NavsOK([nv EXCEPT ![n] = q], s, a)
<1>1. [nv EXCEPT ![n] = q] \in [Navs -> Invocation \union {None}]
  BY DEF NavsOK
<1>2. ASSUME NEW m \in Navs PROVE NavOK([nv EXCEPT ![n] = q][m], s, a)
  <2>1. [nv EXCEPT ![n] = q][m] = IF m = n THEN q ELSE nv[m]
    BY DEF NavsOK
  <2>2. QED
    BY <2>1 DEF NavsOK
<1>3. QED
  BY <1>1, <1>2 DEF NavsOK

\* One invocation gone.
LEMMA NavEndFacts ==
  ASSUME NEW s, NEW a, NEW nv, NavsOK(nv, s, a), NEW n \in Navs
  PROVE  NavsOK([nv EXCEPT ![n] = None], s, a)
BY NavSetFacts DEF NavOK

\* One invocation that begins.
LEMMA BegunFacts ==
  ASSUME NEW s \in Nat, NEW a \in Nat, CacheOK(responseCache, a),
         NEW kind \in Kinds, NEW u \in Urls
  PROVE  Begun(kind, u) \in Invocation /\ NavOK(Begun(kind, u), s, a)
<1> DEFINE hits == IF IsGet(kind) THEN Fresh(u) ELSE {}
           hit == CHOOSE e \in hits : TRUE
           q == [pc |-> IF hits = {} THEN "fetch" ELSE "cached", kind |-> kind,
                 url |-> u, ver |-> IF hits = {} THEN 0 ELSE hit.ver,
                 late |-> hits # {} /\ hit.late]
<1>1. Begun(kind, u) = q
  BY DEF Begun
<1>2. hits # {} => hit \in Fresh(u) /\ IsGet(kind)
  OBVIOUS
<1>3. \A e \in Fresh(u) : e \in Entry /\ Current(e, a)
  BY DEF Fresh, Cached, CacheOK
<1>4. hits # {} => hit \in Entry /\ Current(hit, a) /\ IsGet(kind)
  BY <1>2, <1>3
<1> HIDE DEF hits, hit
<1>5. CASE hits = {}
  <2>1. q = [pc |-> "fetch", kind |-> kind, url |-> u, ver |-> 0, late |-> FALSE]
    BY <1>5
  <2>2. q \in Invocation
    BY <2>1, NavigationAssumption DEF Invocation
  <2>3. NavOK(q, s, a)
    BY <2>1, <2>2, NavigationAssumption DEF NavOK
  <2>4. QED
    BY <1>1, <2>2, <2>3
<1>6. CASE hits # {}
  <2>1. hit.ver \in 0..MaxServer /\ hit.late \in BOOLEAN
    BY <1>4, <1>6 DEF Entry
  <2>2. q = [pc |-> "cached", kind |-> kind, url |-> u, ver |-> hit.ver, late |-> hit.late]
    BY <1>6, <2>1
  <2>3. q \in Invocation
    BY <2>1, <2>2 DEF Invocation
  <2>4. NavOK(q, s, a)
    BY <1>4, <1>6, <2>2, <2>3 DEF NavOK, Current
  <2>5. QED
    BY <1>1, <2>3, <2>4
<1>7. QED
  BY <1>5, <1>6

\* What is under way when a mutation is confirmed.
LEMMA LateFacts ==
  ASSUME IInv, NEW v \in 0..server
  PROVE  /\ NavsOK(LateNav(v), server, Newer(acked, v))
         /\ PreloadsOK(LatePreloads(v), Newer(acked, v))
         /\ Newer(acked, v) \in 0..server
<1> DEFINE b == Newer(acked, v)
<1>1. acked \in 0..server /\ server \in Nat /\ MaxServer \in Nat
  BY NavigationAssumption DEF IInv, CountsOK
<1>2. b \in 0..server /\ (b = acked \/ b = v)
  BY <1>1 DEF Newer
<1> HIDE DEF b
<1>3. ASSUME NEW n \in Navs
      PROVE  LateNav(v)[n] \in Invocation \union {None} /\ NavOK(LateNav(v)[n], server, b)
  <2>1. nav[n] \in Invocation \union {None} /\ NavOK(nav[n], server, acked)
    BY DEF IInv, NavsOK
  <2> DEFINE q == nav[n]
             hit == q # None /\ IsGet(q.kind) /\ q.pc # "fetch" /\ q.ver < v
  <2>2. LateNav(v)[n] = IF hit THEN [q EXCEPT !.late = TRUE] ELSE q
    BY DEF LateNav
  <2> HIDE DEF q
  <2>3. CASE hit
    <3>1. q \in Invocation /\ NavOK(q, server, acked)
      BY <2>1, <2>3 DEF q
    <3>2. /\ [q EXCEPT !.late = TRUE] \in Invocation
          /\ [q EXCEPT !.late = TRUE].late /\ [q EXCEPT !.late = TRUE].kind = q.kind
      BY <3>1 DEF Invocation
    <3>3. NavOK([q EXCEPT !.late = TRUE], server, b)
      BY <2>3, <3>2 DEF NavOK, Current
    <3>4. QED
      BY <2>2, <2>3, <3>2, <3>3
  <2>4. CASE ~hit
    <3>1. LateNav(v)[n] = q /\ q \in Invocation \union {None} /\ NavOK(q, server, acked)
      BY <2>1, <2>2, <2>4 DEF q
    <3>2. q # None => q.ver \in 0..MaxServer
      BY <3>1 DEF Invocation
    <3>3. NavOK(q, server, b)
      BY <1>1, <1>2, <2>4, <3>1, <3>2 DEF NavOK, Current
    <3>4. QED
      BY <3>1, <3>3
  <2>5. QED
    BY <2>3, <2>4
<1>4. LateNav(v) \in [Navs -> Invocation \union {None}]
  BY <1>3 DEF LateNav
<1>5. ASSUME NEW u \in Preloaded
      PROVE  /\ LatePreloads(v)[u] \in Read \union {None, Sent}
             /\ PreloadOK(LatePreloads(v)[u], b)
  <2>1. /\ preloadInflight[u] \in Read \union {None, Sent}
        /\ PreloadOK(preloadInflight[u], acked)
    BY DEF IInv, PreloadsOK
  <2> DEFINE d == preloadInflight[u]
             hit == d \notin {None, Sent} /\ d.ver < v
  <2>2. LatePreloads(v)[u] = IF hit THEN [d EXCEPT !.late = TRUE] ELSE d
    BY DEF LatePreloads
  <2> HIDE DEF d
  <2>3. CASE hit
    <3>1. d \in Read
      BY <2>1, <2>3 DEF d
    <3>2. [d EXCEPT !.late = TRUE] \in Read /\ [d EXCEPT !.late = TRUE].late
      BY <3>1 DEF Read
    <3>3. QED
      BY <2>2, <2>3, <3>2 DEF PreloadOK, Current
  <2>4. CASE ~hit
    <3>1. LatePreloads(v)[u] = d /\ d \in Read \union {None, Sent} /\ PreloadOK(d, acked)
      BY <2>1, <2>2, <2>4 DEF d
    <3>2. d \notin {None, Sent} => d.ver \in 0..MaxServer
      BY <3>1 DEF Read
    <3>3. CASE d \in {None, Sent}
      BY <3>1, <3>3 DEF PreloadOK
    <3>4. CASE d \notin {None, Sent}
      <4>1. d \in Read /\ (d.late \/ d.ver >= acked) /\ ~(d.ver < v)
        BY <2>4, <3>1, <3>4 DEF PreloadOK, Current
      <4>2. d.late \/ d.ver >= b
        BY <1>1, <1>2, <3>2, <3>4, <4>1
      <4>3. QED
        BY <3>1, <4>1, <4>2 DEF PreloadOK, Current
    <3>5. QED
      BY <3>3, <3>4
  <2>5. QED
    BY <2>3, <2>4
<1>6. LatePreloads(v) \in [Preloaded -> Read \union {None, Sent}]
  BY <1>5 DEF LatePreloads
<1>7. QED
  BY <1>2, <1>3, <1>4, <1>5, <1>6 DEF NavsOK, PreloadsOK, b

\* One preload set.
LEMMA PreloadSetFacts ==
  ASSUME NEW a, NEW pl, PreloadsOK(pl, a), NEW u \in Preloaded,
         NEW d \in Read \union {None, Sent}, PreloadOK(d, a)
  PROVE  PreloadsOK([pl EXCEPT ![u] = d], a)
<1>1. [pl EXCEPT ![u] = d] \in [Preloaded -> Read \union {None, Sent}]
  BY DEF PreloadsOK
<1>2. ASSUME NEW x \in Preloaded PROVE PreloadOK([pl EXCEPT ![u] = d][x], a)
  <2>1. [pl EXCEPT ![u] = d][x] = IF x = u THEN d ELSE pl[x]
    BY DEF PreloadsOK
  <2>2. QED
    BY <2>1 DEF PreloadsOK
<1>3. QED
  BY <1>1, <1>2 DEF PreloadsOK

\* One promise set.
LEMMA PromiseSetFacts ==
  ASSUME NEW a, NEW pr, NEW f, PromisesOK(pr, f, a), NEW u \in Json,
         NEW p \in Read \union Reqs \union {None}, PromiseOK(p, u, f, a)
  PROVE  PromisesOK([pr EXCEPT ![u] = p], f, a)
<1>1. [pr EXCEPT ![u] = p] \in [Json -> Read \union Reqs \union {None}]
  BY DEF PromisesOK
<1>2. ASSUME NEW x \in Json PROVE PromiseOK([pr EXCEPT ![u] = p][x], x, f, a)
  <2>1. [pr EXCEPT ![u] = p][x] = IF x = u THEN p ELSE pr[x]
    BY DEF PromisesOK
  <2>2. QED
    BY <2>1 DEF PromisesOK
<1>3. QED
  BY <1>1, <1>2 DEF PromisesOK

\* No promise is memoized.
LEMMA NoPromisesFacts ==
  ASSUME NEW a, NEW f \in [Reqs -> Fetch \union {None}]
  PROVE  PromisesOK(NoPromises, f, a)
BY DEF PromisesOK, PromiseOK, NoPromises

\* The promises a page is seeded with.
LEMMA SeedFacts ==
  ASSUME server \in 0..MaxServer, NEW pr \in seedAtomsFromSSR,
         NEW a \in 0..server, NEW f \in [Reqs -> Fetch \union {None}]
  PROVE  PromisesOK(pr, f, a)
<1> DEFINE d == [ver |-> server, late |-> FALSE]
<1>1. d \in Read /\ Current(d, a)
  BY NavigationAssumption DEF Read, Current
<1> HIDE DEF d
<1>2. pr \in [Json -> {None, d}]
  BY DEF seedAtomsFromSSR, d
<1>3. QED
  BY <1>1, <1>2 DEF PromisesOK, PromiseOK

-----------------------------------------------------------------------------
(* The steps.                                                              *)

\* The counts are numbers.
LEMMA CountFacts ==
  ASSUME IInv
  PROVE  /\ server \in Nat /\ acked \in Nat /\ MaxServer \in Nat /\ acked <= server
         /\ server <= MaxServer /\ Sent \notin 0..MaxServer /\ None \notin 0..MaxServer
BY NavigationAssumption DEF IInv, CountsOK

\* The start keeps to IInv.
LEMMA InitHolds ==
  ASSUME Init
  PROVE  IInv
<1>1. CountsOK /\ server \in 0..MaxServer /\ acked \in 0..server
  BY NavigationAssumption DEF Init, CountsOK
<1>2. NavsOK(nav, server, acked)
  BY DEF Init, NavsOK, NavOK
<1>3. CacheOK(responseCache, acked)
  BY EmptyFacts DEF Init
<1>4. PreloadsOK(preloadInflight, acked)
  BY DEF Init, PreloadsOK, PreloadOK
<1>5. PromisesOK(promises, fetches, acked)
  <2>1. fetches \in [Reqs -> Fetch \union {None}] /\ promises \in seedAtomsFromSSR
    BY DEF Init
  <2>2. QED
    BY <1>1, <2>1, SeedFacts
<1>6. SubmitsOK(submits, server)
  BY DEF Init, SubmitsOK
<1>7. QED
  BY <1>1, <1>2, <1>3, <1>4, <1>5, <1>6 DEF IInv

\* The page is loaded anew.
LEMMA FullLoadHolds ==
  ASSUME IInv, FullLoad
  PROVE  IInv'
<1>1. CountsOK' /\ server' = server /\ acked' = server
  BY CountFacts DEF FullLoad, CountsOK
<1>2. NavsOK(nav', server', acked')
  BY DEF FullLoad, NavsOK, NavOK
<1>3. CacheOK(responseCache', acked')
  BY EmptyFacts DEF FullLoad
<1>4. PreloadsOK(preloadInflight', acked')
  BY DEF FullLoad, PreloadsOK, PreloadOK
<1>5. PromisesOK(promises', fetches', acked')
  <2>1. fetches' \in [Reqs -> Fetch \union {None}] /\ promises' \in seedAtomsFromSSR
    BY DEF FullLoad
  <2>2. server \in 0..MaxServer /\ server \in 0..server
    BY CountFacts
  <2>3. PromisesOK(promises', fetches', server)
    BY <2>1, <2>2, SeedFacts
  <2>4. QED
    BY <1>1, <2>3
<1>6. SubmitsOK(submits', server')
  BY DEF FullLoad, SubmitsOK
<1>7. QED
  BY <1>1, <1>2, <1>3, <1>4, <1>5, <1>6 DEF IInv

\* The server has committed one more, and nothing else is the page's yet.
LEMMA CommitFacts ==
  ASSUME IInv, server < MaxServer
  PROVE  /\ server + 1 \in 0..MaxServer /\ acked \in 0..(server + 1)
         /\ NavsOK(nav, server + 1, acked) /\ SubmitsOK(submits, server + 1)
<1>1. server + 1 \in 0..MaxServer /\ acked \in 0..(server + 1)
  BY CountFacts
<1>2. NavsOK(nav, server + 1, acked)
  BY CountFacts, MoreCommitted DEF IInv
<1>3. 0..server \subseteq 0..(server + 1)
  BY CountFacts
<1>4. SubmitsOK(submits, server + 1)
  BY <1>3 DEF IInv, SubmitsOK
<1>5. QED
  BY <1>1, <1>2, <1>4

\* navigate().
LEMMA navigateHolds ==
  ASSUME IInv, NEW n \in Navs, NEW kind \in Kinds, NEW u \in Urls, navigate(n, kind, u)
  PROVE  IInv'
<1>1. server' = server /\ acked' = acked
  BY DEF navigate
<1>2. Begun(kind, u) \in Invocation /\ NavOK(Begun(kind, u), server, acked)
  BY CountFacts, BegunFacts DEF IInv
<1>3. NavsOK(nav', server', acked')
  BY <1>1, <1>2, NavSetFacts DEF IInv, navigate
<1>4. CacheOK(responseCache', acked')
  BY <1>1, CountFacts, CacheGetFacts DEF IInv, navigate
<1>5. QED
  BY <1>1, <1>3, <1>4 DEF IInv, navigate, CountsOK

\* The server's answer.
LEMMA ServerAnswersHolds ==
  ASSUME IInv, NEW n \in Navs, ServerAnswers(n)
  PROVE  IInv'
<1> DEFINE q == nav[n]
           new == [q EXCEPT !.pc = "answered", !.ver = server']
<1>1. q \in Invocation /\ nav \in [Navs -> Invocation \union {None}]
  BY DEF IInv, NavsOK, ServerAnswers
<1>2. nav' = [nav EXCEPT ![n] = new] /\ acked' = acked
  BY DEF ServerAnswers
<1>3. /\ server' \in 0..MaxServer /\ acked \in 0..server' /\ server <= server'
      /\ NavsOK(nav, server', acked) /\ SubmitsOK(submits, server')
  <2>1. CASE server' = server
    BY <2>1, CountFacts DEF IInv
  <2>2. CASE server < MaxServer /\ server' = server + 1
    BY <2>2, CountFacts, CommitFacts
  <2>3. QED
    BY <2>1, <2>2 DEF ServerAnswers
<1>4. /\ new \in Invocation /\ new.ver = server' /\ new.kind = q.kind
      /\ new.late = q.late
  BY <1>1, <1>3 DEF Invocation
<1>5. NavOK(new, server', acked)
  BY <1>3, <1>4, CountFacts DEF NavOK, Current
<1>6. NavsOK(nav', server', acked')
  BY <1>2, <1>3, <1>4, <1>5, NavSetFacts
<1>7. QED
  BY <1>2, <1>3, <1>6 DEF IInv, ServerAnswers, CountsOK

\* A read's response.
LEMMA ReadArrivesHolds ==
  ASSUME IInv, NEW n \in Navs, ReadArrives(n)
  PROVE  IInv'
<1> DEFINE q == nav[n]
<1>1. /\ q \in Invocation /\ nav \in [Navs -> Invocation \union {None}]
      /\ NavOK(q, server, acked) /\ q # None /\ IsGet(q.kind) /\ q.pc = "answered"
  BY DEF IInv, NavsOK, ReadArrives
<1>2. server' = server /\ acked' = acked
  BY DEF ReadArrives
<1>3. Current(q, acked) /\ q.ver \in 0..MaxServer /\ q.late \in BOOLEAN /\ q.url \in Urls
  BY <1>1 DEF NavOK, Invocation
<1>4. ASSUME NEW u \in Urls
      PROVE  NavsOK([nav EXCEPT ![n] = [q EXCEPT !.pc = "arrived", !.url = u]], server, acked)
  <2> DEFINE new == [q EXCEPT !.pc = "arrived", !.url = u]
  <2>1. /\ new \in Invocation /\ new.kind = q.kind /\ new.ver = q.ver /\ new.late = q.late
        /\ new.pc = "arrived"
    BY <1>1 DEF Invocation
  <2>2. NavOK(new, server, acked)
    BY <1>1, <1>3, <2>1 DEF NavOK, Current
  <2>3. QED
    BY <2>1, <2>2, NavSetFacts DEF IInv
<1>5. [q EXCEPT !.pc = "arrived"] = [q EXCEPT !.pc = "arrived", !.url = q.url]
  BY <1>1 DEF Invocation
<1>6. NavsOK(nav', server', acked')
  <2>1. CASE \E u \in Urls : nav' = [nav EXCEPT ![n].pc = "arrived", ![n].url = u]
    <3>1. PICK u \in Urls : nav' = [nav EXCEPT ![n].pc = "arrived", ![n].url = u]
      BY <2>1
    <3>2. nav' = [nav EXCEPT ![n] = [q EXCEPT !.pc = "arrived", !.url = u]]
      BY <1>1, <3>1
    <3>3. QED
      BY <1>2, <1>4, <3>2
  <2>2. CASE nav' = [nav EXCEPT ![n].pc = "arrived"]
    <3>1. nav' = [nav EXCEPT ![n] = [q EXCEPT !.pc = "arrived", !.url = q.url]]
      BY <1>1, <1>5, <2>2
    <3>2. QED
      BY <1>2, <1>3, <1>4, <3>1
  <2>3. QED
    BY <2>1, <2>2 DEF ReadArrives
<1>7. CacheOK(responseCache', acked')
  BY <1>2, <1>3, CountFacts, CacheSetFacts DEF IInv, ReadArrives
<1>8. QED
  BY <1>2, <1>6, <1>7 DEF IInv, ReadArrives, CountsOK

\* The caches are emptied when the mutation v is confirmed.
LEMMA ConfirmedHolds ==
  ASSUME IInv, NEW v \in 0..server, server' = server, bustCacheOnMutation,
         acked' = IF v > acked THEN v ELSE acked, UNCHANGED fetches
  PROVE  /\ CountsOK' /\ acked' = Newer(acked, v)
         /\ CacheOK(responseCache', acked')
         /\ PromisesOK(promises', fetches', acked')
<1>1. acked' = Newer(acked, v)
  BY DEF Newer
<1>2. CountsOK'
  BY <1>1, LateFacts DEF CountsOK, IInv
<1>3. CacheOK(responseCache', acked')
  BY EmptyFacts DEF bustCacheOnMutation
<1>4. PromisesOK(promises', fetches', acked')
  BY NoPromisesFacts DEF bustCacheOnMutation, IInv, PromisesOK
<1>5. QED
  BY <1>1, <1>2, <1>3, <1>4

\* A mutation's response.
LEMMA MutationArrivesHolds ==
  ASSUME IInv, NEW n \in Navs, MutationArrives(n)
  PROVE  IInv'
<1> DEFINE v == nav[n].ver
           b == Newer(acked, v)
           q == LateNav(v)[n]
           new == [q EXCEPT !.pc = "arrived"]
<1>1. /\ nav[n] \in Invocation /\ NavOK(nav[n], server, acked) /\ ~IsGet(nav[n].kind)
      /\ nav[n] # None
  BY DEF IInv, NavsOK, MutationArrives
<1>2. v \in 0..server
  BY <1>1, CountFacts DEF NavOK, Invocation
<1>3. /\ NavsOK(LateNav(v), server, b) /\ PreloadsOK(LatePreloads(v), b)
  BY <1>2, LateFacts
<1>4. /\ server' = server /\ acked' = b
      /\ CountsOK' /\ CacheOK(responseCache', acked')
      /\ PromisesOK(promises', fetches', acked')
  BY <1>2, ConfirmedHolds DEF MutationArrives
<1>5. q = nav[n]
  BY <1>1 DEF LateNav
<1>6. /\ new \in Invocation /\ new.kind = nav[n].kind /\ new.ver = v
  BY <1>1, <1>5 DEF Invocation
<1>7. NavOK(new, server, b)
  BY <1>1, <1>2, <1>6, CountFacts DEF NavOK
<1>8. nav' = [LateNav(v) EXCEPT ![n] = new]
  BY DEF MutationArrives
<1>9. NavsOK(nav', server', acked')
  <2> HIDE DEF new
  <2>1. NavsOK([LateNav(v) EXCEPT ![n] = new], server, b)
    BY <1>3, <1>6, <1>7, NavSetFacts
  <2>2. QED
    BY <1>4, <1>8, <2>1
<1>10. PreloadsOK(preloadInflight', acked')
  BY <1>3, <1>4 DEF MutationArrives
<1>11. SubmitsOK(submits', server')
  BY <1>4 DEF MutationArrives, IInv
<1>12. QED
  BY <1>4, <1>9, <1>10, <1>11 DEF IInv

\* Paint.
LEMMA PaintHolds ==
  ASSUME IInv, NEW n \in Navs, Paint(n)
  PROVE  IInv'
<1> DEFINE q == nav[n]
           p == [ver |-> q.ver, late |-> q.late]
<1>1. /\ q \in Invocation /\ NavOK(q, server, acked) /\ q # None
      /\ q.pc \in {"arrived", "cached"} /\ nav \in [Navs -> Invocation \union {None}]
  BY DEF IInv, NavsOK, Paint
<1>2. server' = server /\ acked' = acked /\ fetches' = fetches
  BY DEF Paint
<1>3. PromisesOK(promises', fetches', acked')
  <2>1. CASE UNCHANGED promises
    BY <1>2, <2>1 DEF IInv
  <2>2. CASE /\ q.kind = "page" /\ q.url \in Json
             /\ promises' = [promises EXCEPT ![q.url] = p]
    <3>1. p \in Read /\ Current(p, acked)
      BY <1>1, <2>2 DEF NavOK, IsGet, Invocation, Read, Current
    <3> HIDE DEF p
    <3>2. PromiseOK(p, q.url, fetches, acked)
      BY <3>1 DEF PromiseOK
    <3>3. QED
      BY <1>2, <2>2, <3>1, <3>2, PromiseSetFacts DEF IInv
  <2>3. QED
    BY <2>1, <2>2 DEF Paint
<1>4. NavsOK(nav', server', acked') /\ CacheOK(responseCache', acked')
  <2>1. CASE nav' = [nav EXCEPT ![n] = None] /\ UNCHANGED responseCache
    BY <1>2, <2>1, NavEndFacts DEF IInv
  <2>2. CASE \E m \in Navs, u \in Urls :
               /\ nav[m] = None
               /\ nav' = [nav EXCEPT ![n] = None, ![m] = Begun("page", u)]
               /\ responseCache' = cacheGet(u)
    <3>1. PICK m \in Navs, u \in Urls :
               /\ nav[m] = None
               /\ nav' = [nav EXCEPT ![n] = None, ![m] = Begun("page", u)]
               /\ responseCache' = cacheGet(u)
      BY <2>2
    <3>2. Begun("page", u) \in Invocation /\ NavOK(Begun("page", u), server, acked)
      BY CountFacts, BegunFacts DEF IInv, Kinds
    <3>3. NavsOK([nav EXCEPT ![n] = None], server, acked)
      BY NavEndFacts DEF IInv
    <3>4. NavsOK([[nav EXCEPT ![n] = None] EXCEPT ![m] = Begun("page", u)], server, acked)
      BY <3>2, <3>3, NavSetFacts
    <3>5. QED
      BY <1>2, <3>1, <3>4, CountFacts, CacheGetFacts DEF IInv
  <2>3. QED
    BY <2>1, <2>2 DEF Paint
<1>5. QED
  BY <1>2, <1>3, <1>4 DEF IInv, Paint, CountsOK

\* A navigation ends without a swap.
LEMMA EndsHolds ==
  ASSUME IInv, NEW n \in Navs, Declines(n) \/ Rejects(n)
  PROVE  IInv'
<1>1. /\ server' = server /\ acked' = acked
      /\ nav' = [nav EXCEPT ![n] = None]
  BY DEF Declines, Rejects
<1>2. NavsOK(nav', server', acked')
  BY <1>1, NavEndFacts DEF IInv
<1>3. QED
  BY <1>1, <1>2 DEF IInv, Declines, Rejects, CountsOK

\* A preload, from its start to its end.
LEMMA PreloadHolds ==
  ASSUME IInv, NEW u \in Preloaded, startPreload(u) \/ PreloadAnswered(u) \/ PreloadEnds(u)
  PROVE  IInv'
<1>1. server' = server /\ acked' = acked
  BY DEF startPreload, PreloadAnswered, PreloadEnds
<1>2. PreloadsOK(preloadInflight', acked')
  <2>1. /\ PreloadOK(Sent, acked) /\ PreloadOK(None, acked)
        /\ [ver |-> server, late |-> FALSE] \in Read
        /\ PreloadOK([ver |-> server, late |-> FALSE], acked)
    BY CountFacts DEF PreloadOK, Read, Current
  <2>2. CASE startPreload(u)
    BY <1>1, <2>1, <2>2, PreloadSetFacts DEF IInv, startPreload
  <2>3. CASE PreloadAnswered(u)
    BY <1>1, <2>1, <2>3, PreloadSetFacts DEF IInv, PreloadAnswered
  <2>4. CASE PreloadEnds(u)
    BY <1>1, <2>1, <2>4, PreloadSetFacts DEF IInv, PreloadEnds
  <2>5. QED
    BY <2>2, <2>3, <2>4
<1>3. CacheOK(responseCache', acked')
  <2>1. CASE UNCHANGED responseCache
    BY <1>1, <2>1 DEF IInv
  <2>2. CASE /\ PreloadEnds(u) /\ preloadInflight[u] # Sent
             /\ responseCache' = cacheSet(responseCache, u, preloadInflight[u])
    <3>1. preloadInflight[u] \in Read /\ Current(preloadInflight[u], acked)
      BY <2>2 DEF IInv, PreloadsOK, PreloadOK, PreloadEnds
    <3>2. u \in Urls
      BY NavigationAssumption
    <3>3. QED
      BY <1>1, <2>2, <3>1, <3>2, CountFacts, CacheSetFacts DEF IInv, Read
  <2>3. QED
    BY <2>1, <2>2 DEF startPreload, PreloadAnswered, PreloadEnds
<1>4. QED
  BY <1>1, <1>2, <1>3 DEF IInv, startPreload, PreloadAnswered, PreloadEnds, CountsOK

\* prefetch() of a path that has no promise: no promise is of the request it takes.
LEMMA prefetchRouteHolds ==
  ASSUME IInv, NEW r \in Reqs, NEW u \in Json, prefetchRoute(r, u)
  PROVE  IInv'
<1> DEFINE new == [url |-> u, ver |-> Sent]
<1>1. /\ server' = server /\ acked' = acked /\ fetches[r] = None
      /\ fetches' = [fetches EXCEPT ![r] = new] /\ promises' = [promises EXCEPT ![u] = r]
  BY DEF prefetchRoute
<1>2. /\ fetches \in [Reqs -> Fetch \union {None}]
      /\ promises \in [Json -> Read \union Reqs \union {None}]
      /\ \A x \in Json : PromiseOK(promises[x], x, fetches, acked)
  BY DEF IInv, PromisesOK
<1>3. new \in Fetch /\ new # None /\ new.url = u /\ new.ver = Sent
  BY NoneAssumption DEF Fetch
<1> HIDE DEF new
<1>4. fetches' \in [Reqs -> Fetch \union {None}] /\ fetches'[r] = new
  BY <1>1, <1>2, <1>3
<1>5. promises' \in [Json -> Read \union Reqs \union {None}]
  BY <1>1, <1>2
<1>6. ASSUME NEW x \in Json PROVE PromiseOK(promises'[x], x, fetches', acked)
  <2>1. CASE x = u
    <3>1. promises'[x] = r
      BY <1>1, <1>2, <2>1
    <3>2. QED
      BY <1>3, <1>4, <2>1, <3>1 DEF PromiseOK
  <2>2. CASE x # u
    <3>1. promises'[x] = promises[x] /\ PromiseOK(promises[x], x, fetches, acked)
      BY <1>1, <1>2, <2>2
    <3>2. promises[x] # r \/ promises[x] \in Read
      BY <1>1, <3>1, NavigationAssumption DEF PromiseOK
    <3>3. promises[x] \in Reqs => promises[x] # r
      BY <3>2, NoneAssumption
    <3>4. promises[x] \in Reqs => fetches'[promises[x]] = fetches[promises[x]]
      BY <1>1, <1>2, <3>3
    <3>5. QED
      BY <3>1, <3>4 DEF PromiseOK
  <2>3. QED
    BY <2>1, <2>2
<1>7. PromisesOK(promises', fetches', acked')
  BY <1>1, <1>4, <1>5, <1>6 DEF PromisesOK
<1>8. QED
  BY <1>1, <1>7 DEF IInv, prefetchRoute, CountsOK

\* The server answers a prefetch.
LEMMA PrefetchAnsweredHolds ==
  ASSUME IInv, NEW r \in Reqs, PrefetchAnswered(r)
  PROVE  IInv'
<1> DEFINE new == [fetches[r] EXCEPT !.ver = server]
<1>1. /\ server' = server /\ acked' = acked /\ fetches[r] # None
      /\ fetches' = [fetches EXCEPT ![r] = new] /\ promises' = promises
  BY DEF PrefetchAnswered
<1>2. /\ fetches \in [Reqs -> Fetch \union {None}]
      /\ promises \in [Json -> Read \union Reqs \union {None}]
      /\ \A x \in Json : PromiseOK(promises[x], x, fetches, acked)
  BY DEF IInv, PromisesOK
<1>3. /\ new \in Fetch /\ new.url = fetches[r].url /\ new.ver = server
  <2>1. fetches[r] \in Fetch
    BY <1>1, <1>2
  <2>2. QED
    BY <2>1, CountFacts DEF Fetch
<1>4. new # None
  BY <1>3, NoneAssumption DEF Fetch
<1> HIDE DEF new
<1>5. fetches' \in [Reqs -> Fetch \union {None}] /\ fetches'[r] = new
  BY <1>1, <1>2, <1>3
<1>6. ASSUME NEW x \in Json PROVE PromiseOK(promises'[x], x, fetches', acked)
  <2>1. PromiseOK(promises[x], x, fetches, acked) /\ promises'[x] = promises[x]
    BY <1>1, <1>2
  <2>2. promises[x] \in Reqs /\ promises[x] # r
          => fetches'[promises[x]] = fetches[promises[x]]
    BY <1>1, <1>2
  <2>3. CASE promises[x] = r
    BY <1>3, <1>4, <1>5, <2>1, <2>3, CountFacts, NoneAssumption, NavigationAssumption
       DEF PromiseOK
  <2>4. CASE promises[x] # r
    BY <2>1, <2>2, <2>4 DEF PromiseOK
  <2>5. QED
    BY <2>3, <2>4
<1>7. PromisesOK(promises', fetches', acked')
  BY <1>1, <1>2, <1>5, <1>6 DEF PromisesOK
<1>8. QED
  BY <1>1, <1>7 DEF IInv, PrefetchAnswered, CountsOK

\* A prefetch ends: no promise is of its request any more.
LEMMA PrefetchEndsHolds ==
  ASSUME IInv, NEW r \in Reqs, PrefetchEnds(r)
  PROVE  IInv'
<1> DEFINE u == fetches[r].url
           d == [ver |-> fetches[r].ver, late |-> FALSE]
<1>1. /\ server' = server /\ acked' = acked /\ fetches[r] # None
      /\ fetches' = [fetches EXCEPT ![r] = None]
  BY DEF PrefetchEnds
<1>2. /\ fetches \in [Reqs -> Fetch \union {None}]
      /\ promises \in [Json -> Read \union Reqs \union {None}]
      /\ \A x \in Json : PromiseOK(promises[x], x, fetches, acked)
  BY DEF IInv, PromisesOK
<1>3. fetches[r] \in Fetch /\ u \in Json
  BY <1>1, <1>2 DEF Fetch
<1>4. r \notin Read /\ r # None
  BY NoneAssumption, NavigationAssumption
<1>5. \A x \in Json : promises[x] = r => x = u
  BY <1>2, <1>4 DEF PromiseOK
<1>6. PromisesOK(promises', fetches, acked) /\ \A x \in Json : promises'[x] # r
  <2>1. CASE promises' = failed(u)
    <3>1. promises' = [promises EXCEPT ![u] = None] /\ PromiseOK(None, u, fetches, acked)
      BY <2>1 DEF failed, PromiseOK
    <3>2. PromisesOK(promises', fetches, acked)
      BY <1>3, <3>1, PromiseSetFacts DEF IInv
    <3>3. \A x \in Json : promises'[x] # r
      BY <1>2, <1>4, <1>5, <3>1
    <3>4. QED
      BY <3>2, <3>3
  <2>2. CASE promises[u] # r /\ promises' = promises
    BY <1>5, <2>2 DEF IInv
  <2>3. CASE /\ promises[u] = r /\ fetches[r].ver # Sent
             /\ promises' = [promises EXCEPT ![u] = d]
    <3>1. fetches[r].ver >= acked /\ fetches[r].ver \in 0..MaxServer
      BY <1>2, <1>3, <1>4, <2>3 DEF PromiseOK, Fetch
    <3>2. d \in Read /\ Current(d, acked)
      BY <3>1 DEF Read, Current
    <3> HIDE DEF d
    <3>3. PromisesOK(promises', fetches, acked)
      BY <1>3, <2>3, <3>2, PromiseSetFacts DEF IInv, PromiseOK
    <3>4. \A x \in Json : promises'[x] # r
      BY <1>2, <1>3, <1>4, <1>5, <2>3, <3>2
    <3>5. QED
      BY <3>3, <3>4
  <2>4. QED
    BY <2>1, <2>2, <2>3 DEF PrefetchEnds
<1>7. fetches' \in [Reqs -> Fetch \union {None}]
  BY <1>1, <1>2
<1>8. ASSUME NEW x \in Json PROVE PromiseOK(promises'[x], x, fetches', acked)
  <2>1. PromiseOK(promises'[x], x, fetches, acked) /\ promises'[x] # r
    BY <1>6 DEF PromisesOK
  <2>2. promises'[x] \in Reqs => fetches'[promises'[x]] = fetches[promises'[x]]
    BY <1>1, <1>2, <2>1
  <2>3. QED
    BY <2>1, <2>2 DEF PromiseOK
<1>9. PromisesOK(promises', fetches', acked')
  BY <1>1, <1>6, <1>7, <1>8 DEF PromisesOK
<1>10. QED
  BY <1>1, <1>9 DEF IInv, PrefetchEnds, CountsOK

\* A promise is evicted.
LEMMA evictPrefetchHolds ==
  ASSUME IInv, NEW u \in Json, evictPrefetch(u)
  PROVE  IInv'
<1>1. /\ server' = server /\ acked' = acked /\ fetches' = fetches
      /\ promises' = [promises EXCEPT ![u] = None]
  BY DEF evictPrefetch
<1>2. PromisesOK(promises', fetches', acked')
  BY <1>1, PromiseSetFacts DEF IInv, PromiseOK
<1>3. QED
  BY <1>1, <1>2 DEF IInv, evictPrefetch, CountsOK

\* submit(), from its start to its end.
LEMMA SubmitHolds ==
  ASSUME IInv, NEW s \in Subs,
         submitAction(s) \/ SubmitCommits(s) \/ SubmitEnds(s) \/ SubmitThrows(s)
  PROVE  IInv'
<1>1. submits \in [Subs -> 0..server \union {None, Sent}]
  BY DEF IInv, SubmitsOK
<1>2. CASE submitAction(s) \/ SubmitThrows(s)
  <2>1. server' = server /\ acked' = acked
    BY <1>2 DEF submitAction, SubmitThrows
  <2>2. SubmitsOK(submits', server')
    BY <1>1, <1>2, <2>1 DEF SubmitsOK, submitAction, SubmitThrows
  <2>3. QED
    BY <1>2, <2>1, <2>2 DEF IInv, submitAction, SubmitThrows, CountsOK
<1>3. CASE SubmitCommits(s)
  <2>1. server' = server + 1 /\ acked' = acked /\ server < MaxServer
    BY <1>3 DEF SubmitCommits
  <2>2. /\ server + 1 \in 0..MaxServer /\ acked \in 0..(server + 1)
        /\ NavsOK(nav, server + 1, acked) /\ SubmitsOK(submits, server + 1)
    BY <2>1, CommitFacts
  <2>3. SubmitsOK(submits', server')
    <3>1. server + 1 \in 0..(server + 1)
      BY CountFacts
    <3>2. QED
      BY <1>3, <2>1, <2>2, <3>1 DEF SubmitsOK, SubmitCommits
  <2>4. QED
    BY <1>3, <2>1, <2>2, <2>3 DEF IInv, SubmitCommits, CountsOK
<1>4. CASE SubmitEnds(s)
  <2>1. server' = server /\ fetches' = fetches /\ bustCacheOnMutation
    BY <1>4 DEF SubmitEnds
  <2>2. SubmitsOK(submits', server')
    BY <1>1, <1>4, <2>1 DEF SubmitsOK, SubmitEnds
  <2>3. CASE submits[s] = Sent /\ UNCHANGED <<acked, nav, preloadInflight>>
    <3>1. CacheOK(responseCache', acked') /\ PromisesOK(promises', fetches', acked')
      BY <2>1, EmptyFacts, NoPromisesFacts DEF bustCacheOnMutation, IInv, PromisesOK
    <3>2. QED
      BY <2>1, <2>2, <2>3, <3>1 DEF IInv, CountsOK
  <2>4. CASE /\ submits[s] # Sent
             /\ acked' = IF submits[s] > acked THEN submits[s] ELSE acked
             /\ nav' = LateNav(submits[s]) /\ preloadInflight' = LatePreloads(submits[s])
    <3>1. submits[s] \in 0..server
      BY <1>1, <1>4, <2>4 DEF SubmitEnds
    <3>2. /\ CountsOK' /\ acked' = Newer(acked, submits[s])
          /\ CacheOK(responseCache', acked')
          /\ PromisesOK(promises', fetches', acked')
      BY <2>1, <2>4, <3>1, ConfirmedHolds
    <3>3. NavsOK(nav', server', acked') /\ PreloadsOK(preloadInflight', acked')
      BY <2>1, <2>4, <3>1, <3>2, LateFacts
    <3>4. QED
      BY <2>2, <3>2, <3>3 DEF IInv
  <2>5. QED
    BY <1>4, <2>3, <2>4 DEF SubmitEnds
<1>5. QED
  BY <1>2, <1>3, <1>4

\* Time passes, and other pages mutate.
LEMMA OutsideHolds ==
  ASSUME IInv, OthersMutate \/ \E i \in 1..MaxCache : EntryAges(i)
  PROVE  IInv'
<1>1. CASE OthersMutate
  <2>1. server' = server + 1 /\ acked' = acked /\ server < MaxServer
    BY <1>1 DEF OthersMutate
  <2>2. QED
    BY <1>1, <2>1, CommitFacts DEF OthersMutate, IInv, CountsOK
<1>2. ASSUME NEW i \in 1..MaxCache, EntryAges(i) PROVE IInv'
  <2> DEFINE c == responseCache
             e == [c[i] EXCEPT !.old = TRUE]
             set == [c EXCEPT ![i] = e]
  <2>1. /\ c \in Seq(Entry) /\ i \in DOMAIN c /\ Len(c) \in Nat /\ DOMAIN c = 1..Len(c)
        /\ responseCache' = set /\ acked' = acked /\ server' = server
    BY <1>2 DEF EntryAges, IInv, CacheOK
  <2>2. c[i] \in Entry
    BY <2>1
  <2>3. /\ e \in Entry /\ e.url = c[i].url /\ e.ver = c[i].ver /\ e.late = c[i].late
    BY <2>2 DEF Entry
  <2> HIDE DEF e
  <2>4. set \in Seq(Entry) /\ Len(set) = Len(c) /\ DOMAIN set = DOMAIN c
    BY <2>1, <2>3
  <2>5. \A j \in DOMAIN c : set[j] = IF j = i THEN e ELSE c[j]
    BY <2>1
  <2>6. \A j \in DOMAIN c : set[j].url = c[j].url /\ (Current(c[j], acked) => Current(set[j], acked))
    BY <2>3, <2>5 DEF Current
  <2> HIDE DEF set
  <2>7. CacheOK(set, acked)
    BY <2>4, <2>6 DEF IInv, CacheOK
  <2>8. QED
    BY <1>2, <2>1, <2>7 DEF EntryAges, IInv, CountsOK
<1>3. QED
  BY <1>1, <1>2

\* Every step keeps to IInv.
LEMMA NextHolds ==
  ASSUME IInv, [Next]_vars
  PROVE  IInv'
<1>1. CASE UNCHANGED vars
  BY <1>1 DEF vars, IInv, CountsOK
<1>2. CASE User
  BY <1>2, navigateHolds, PreloadHolds, evictPrefetchHolds, prefetchRouteHolds,
     SubmitHolds DEF User
<1>3. ASSUME NEW n \in Navs, Step(n) PROVE IInv'
  <2>1. CASE FullReload(n)
    BY <2>1, FullLoadHolds DEF FullReload
  <2>2. QED
    BY <1>3, <2>1, ServerAnswersHolds, ReadArrivesHolds, MutationArrivesHolds, EndsHolds,
       PaintHolds DEF Step
<1>4. CASE Rest
  BY <1>4, PreloadHolds, PrefetchAnsweredHolds, PrefetchEndsHolds, SubmitHolds,
     OutsideHolds DEF Rest
<1>5. QED
  BY <1>1, <1>2, <1>3, <1>4 DEF Next

\* IInv holds of every reachable state.
LEMMA InvHolds == Spec => []IInv
<1>1. Init => IInv
  BY InitHolds
<1>2. IInv /\ [Next]_vars => IInv'
  BY NextHolds
<1>3. QED
  BY <1>1, <1>2, PTL DEF Spec

-----------------------------------------------------------------------------
(* The theorems.                                                           *)

\* Every reachable page has its type: the response cache has at most MAX_CACHE
\* entries, and one for a key.
THEOREM TypeCorrect == Spec => []TypeOK
<1>1. ASSUME IInv PROVE TypeOK
  <2>1. server \in 0..MaxServer /\ acked \in 0..server
    BY <1>1 DEF IInv, CountsOK
  <2>2. nav \in [Navs -> Invocation \union {None}]
    BY <1>1 DEF IInv, NavsOK
  <2>3. /\ responseCache \in Seq(Entry) /\ Len(responseCache) <= MaxCache
        /\ \A i, j \in DOMAIN responseCache :
             responseCache[i].url = responseCache[j].url => i = j
    BY <1>1 DEF IInv, CacheOK
  <2>4. preloadInflight \in [Preloaded -> Read \union {None, Sent}]
    BY <1>1 DEF IInv, PreloadsOK
  <2>5. /\ promises \in [Json -> Read \union Reqs \union {None}]
        /\ fetches \in [Reqs -> Fetch \union {None}]
    BY <1>1 DEF IInv, PromisesOK
  <2>6. submits \in [Subs -> 0..MaxServer \union {None, Sent}]
    <3>1. 0..server \subseteq 0..MaxServer
      BY <2>1, NavigationAssumption
    <3>2. QED
      BY <1>1, <3>1 DEF IInv, SubmitsOK
  <2>7. QED
    BY <2>1, <2>2, <2>3, <2>4, <2>5, <2>6 DEF TypeOK, Entry, Fetch
<1>2. QED
  BY <1>1, InvHolds, PTL

\* The caches never give what a confirmed mutation replaced, but for reads that were
\* answered before the mutation and still under way when it was confirmed.
THEOREM WritesAreRead == Spec => []ReadYourWrites
<1>1. ASSUME IInv PROVE ReadYourWrites
  <2>1. ASSUME NEW e \in ToSet(responseCache) PROVE e.late \/ e.ver >= acked
    BY <1>1, <2>1 DEF IInv, CacheOK, Current, ToSet
  <2>2. ASSUME NEW u \in Json PROVE PromiseOK(promises[u], u, fetches, acked)
    BY <1>1 DEF IInv, PromisesOK
  <2>3. ASSUME NEW u \in Json, Resolved(u)
        PROVE  promises[u].late \/ promises[u].ver >= acked
    BY <2>2, <2>3 DEF PromiseOK, Resolved, Current
  <2>4. ASSUME NEW u \in Json, promises[u] \in Reqs, fetches[promises[u]] # None
        PROVE  fetches[promises[u]].ver = Sent \/ fetches[promises[u]].ver >= acked
    BY <2>2, <2>4, NoneAssumption, NavigationAssumption DEF PromiseOK
  <2>5. ASSUME NEW n \in Navs, nav[n] # None, IsGet(nav[n].kind), nav[n].pc # "fetch"
        PROVE  nav[n].late \/ nav[n].ver >= acked
    BY <1>1, <2>5 DEF IInv, NavsOK, NavOK, Current
  <2>6. QED
    BY <2>1, <2>3, <2>4, <2>5 DEF ReadYourWrites
<1>2. QED
  BY <1>1, InvHolds, PTL

\* Whoever asks for a memoized promise is given data or a request that is under way.
THEOREM FailuresAreForgotten == Spec => []MemoizedIsLive
<1>1. ASSUME IInv PROVE MemoizedIsLive
  BY <1>1, NoneAssumption, NavigationAssumption
     DEF IInv, PromisesOK, PromiseOK, MemoizedIsLive
<1>2. QED
  BY <1>1, InvHolds, PTL

=============================================================================
