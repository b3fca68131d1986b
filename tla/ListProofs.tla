----------------------------- MODULE ListProofs -----------------------------
(***************************************************************************)
(* Theorems about live lists, for every set of keys and contents, lists of *)
(* any length, and every bound.                                            *)
(*                                                                         *)
(*   - The diff of reconcileListRows leads from the one list to the other  *)
(*     (ReconcileLeads), and so does its delivery (ListReconcile).         *)
(*   - An open page and the JSON of the artifact stay in step with the     *)
(*     stored rows (LiveList).                                             *)
(*                                                                         *)
(* The lists on the way of a diff are a function of how many steps of a    *)
(* loop have been taken (Recursion), and what holds of one holds of the    *)
(* next (UpTo).                                                            *)
(***************************************************************************)
EXTENDS ListReconcile, LiveList, WellFoundedInduction, SequenceTheorems, TLAPS

-----------------------------------------------------------------------------
(* Induction, over sets of numbers.                                        *)

\* A set of numbers that is not empty has a least element.
LEMMA LeastNumber ==
  ASSUME NEW S \in SUBSET Nat, NEW e \in S
  PROVE  \E m \in S : \A k \in S : m <= k
<1>1. \E m \in S : \A k \in S : ~(<<k, m>> \in OpToRel(<, Nat))
  BY NatLessThanWellFounded, WFMin
<1>2. PICK m \in S : \A k \in S : ~(<<k, m>> \in OpToRel(<, Nat))
  BY <1>1
<1>3. \A k \in S : ~(k < m)
  BY <1>2 DEF OpToRel
<1>4. QED
  BY <1>3

\* A step from i - 1 to i.
Climbs(S, N) == 0 \in S /\ \A i \in 1..N : i - 1 \in S => i \in S

\* What holds at 0, and at i once it holds at i - 1, holds up to N.
LEMMA UpTo ==
  ASSUME NEW N \in Nat, NEW S, Climbs(S, N)
  PROVE  0..N \subseteq S
<1> DEFINE T == {i \in 0..N : i \notin S}
<1>1. SUFFICES ASSUME NEW e \in T PROVE FALSE
  OBVIOUS
<1>2. PICK m \in T : \A k \in T : m <= k
  <2> HIDE DEF T
  <2>1. T \in SUBSET Nat
    BY DEF T
  <2>2. QED
    BY <2>1, <1>1, LeastNumber
<1>3. m \in 1..N /\ m - 1 \in 0..N /\ m - 1 \notin T
  BY <1>2 DEF Climbs
<1>4. QED
  BY <1>2, <1>3 DEF Climbs

\* f is base at 0, and at i what step makes of f at i - 1.
Recurs(f, D, N, base, step) ==
  /\ f \in [0..N -> D]
  /\ f[0] = base
  /\ \A i \in 1..N : f[i] = step[i][f[i - 1]]

\* There is such a function.
LEMMA Recursion ==
  ASSUME NEW D, NEW base \in D, NEW N \in Nat, NEW step \in [1..N -> [D -> D]]
  PROVE  \E f : Recurs(f, D, N, base, step)
<1> DEFINE Good(k, f) == /\ f \in [0..k -> D]
                         /\ f[0] = base
                         /\ \A i \in 1..k : f[i] = step[i][f[i - 1]]
           S == {k \in 0..N : \E f : Good(k, f)}
<1>1. 0 \in S
  <2> DEFINE g == [i \in 0..0 |-> base]
  <2>1. Good(0, g)
    OBVIOUS
  <2> HIDE DEF g, Good
  <2>2. QED
    BY <2>1
<1>2. ASSUME NEW k \in 1..N, k - 1 \in S
      PROVE  k \in S
  <2>1. PICK f : Good(k - 1, f)
    BY <1>2
  <2> DEFINE g == [i \in 0..k |-> IF i = k THEN step[k][f[k - 1]] ELSE f[i]]
  <2>2. g \in [0..k -> D]
    <3>1. f[k - 1] \in D /\ step[k][f[k - 1]] \in D
      BY <2>1
    <3>2. QED
      BY <2>1, <3>1
  <2>3. g[0] = base
    BY <2>1
  <2>4. ASSUME NEW i \in 1..k
        PROVE  g[i] = step[i][g[i - 1]]
    <3>1. g[i - 1] = f[i - 1]
      OBVIOUS
    <3>2. CASE i = k
      BY <3>1, <3>2
    <3>3. CASE i # k
      BY <2>1, <3>1, <3>3
    <3>4. QED
      BY <3>2, <3>3
  <2>5. Good(k, g)
    BY <2>2, <2>3, <2>4
  <2> HIDE DEF g, Good
  <2>6. QED
    BY <2>5
<1>3. N \in S
  <2>1. Climbs(S, N)
    BY <1>1, <1>2 DEF Climbs
  <2> HIDE DEF S
  <2>2. QED
    BY <2>1, UpTo
<1>4. PICK f : Good(N, f)
  <2> HIDE DEF Good
  <2>1. QED
    BY <1>3
<1>5. QED
  BY <1>4 DEF Recurs

-----------------------------------------------------------------------------
(* Sequences.                                                              *)

\* f is what FlattenSeq has gathered of out, element by element.
Gathers(f, out, T) ==
  /\ f \in [0..Len(out) -> Seq(T)]
  /\ f[0] = <<>>
  /\ \A i \in 1..Len(out) : f[i] = f[i - 1] \o out[i]
  /\ FlattenSeq(out) = f[Len(out)]

\* FlattenSeq concatenates from left to right.
LEMMA Flattened ==
  ASSUME NEW T, NEW out \in Seq(Seq(T))
  PROVE  \E f : Gathers(f, out, T)
<1>1. PICK N \in Nat : N = Len(out)
  OBVIOUS
<1>2. out \in [1..N -> Seq(T)]
  BY <1>1
<1> DEFINE Cat(x, y) == x \o y
           step == [i \in 1..N |-> [x \in Seq(T) |-> Cat(x, out[i])]]
<1>3. \A x, y \in Seq(T) : Cat(x, y) \in Seq(T)
  BY ConcatProperties
<1> HIDE DEF Cat
<1>4. /\ step \in [1..N -> [Seq(T) -> Seq(T)]]
      /\ \A x \in Seq(T), i \in 1..N : step[i][x] = Cat(x, out[i])
  BY <1>2, <1>3
<1>5. <<>> \in Seq(T)
  OBVIOUS
<1> HIDE DEF step
<1>6. PICK f : Recurs(f, Seq(T), N, <<>>, step)
  BY <1>4, <1>5, Recursion
<1>7. f \in [0..N -> Seq(T)] /\ f[0] = <<>>
  BY <1>6 DEF Recurs
<1>8. ASSUME NEW i \in 1..N
      PROVE  f[i] = Cat(f[i - 1], out[i])
  <2>1. f[i - 1] \in Seq(T)
    BY <1>7
  <2>2. f[i] = step[i][f[i - 1]]
    BY <1>6 DEF Recurs
  <2>3. QED
    BY <1>4, <2>1, <2>2
<1>9. FlattenSeq(out) = f[N]
  <2>1. CASE N = 0
    <3>1. out = <<>>
      BY <1>1, <2>1, EmptySeq
    <3>2. QED
      BY <1>1, <1>7, <2>1, <3>1 DEF FlattenSeq
  <2>2. CASE N > 0
    <3> DEFINE Is(h) == h = [i \in 1..N |-> IF i = 1 THEN out[i] ELSE Cat(h[i - 1], out[i])]
               g == [i \in 1..N |-> f[i]]
               h == CHOOSE h : Is(h)
               S == {i \in 0..N : i > 0 => h[i] = f[i]}
    <3>1. f[1] = out[1]
      <4>1. f[1] = Cat(f[0], out[1]) /\ out[1] \in Seq(T)
        BY <1>2, <1>8, <2>2
      <4>2. QED
        BY <4>1, <1>7, ConcatEmptySeq DEF Cat
    <3>2. Is(g)
      <4>1. ASSUME NEW i \in 1..N
            PROVE  g[i] = IF i = 1 THEN out[i] ELSE Cat(g[i - 1], out[i])
        BY <1>8, <3>1
      <4>2. QED
        BY <4>1
    <3>3. FlattenSeq(out) = h[N]
      BY <1>1, <2>2 DEF FlattenSeq, Cat
    <3>4. Is(h)
      <4> HIDE DEF Is, g
      <4>1. QED
        BY <3>2
    <3> HIDE DEF h
    <3>5. h[1] = out[1]
      BY <3>4, <2>2
    <3>6. ASSUME NEW i \in 2..N
          PROVE  h[i] = Cat(h[i - 1], out[i])
      BY <3>4
    <3>7. ASSUME NEW i \in 1..N, i - 1 \in S
          PROVE  i \in S
      <4>1. CASE i = 1
        BY <3>1, <3>5, <4>1
      <4>2. CASE i # 1
        <5>1. h[i - 1] = f[i - 1] /\ i \in 2..N
          BY <3>7, <4>2
        <5>2. h[i] = f[i]
          BY <5>1, <3>6, <1>8
        <5>3. QED
          BY <5>2
      <4>3. QED
        BY <4>1, <4>2
    <3>8. 0 \in S
      OBVIOUS
    <3>9. N \in S
      <4>1. Climbs(S, N)
        BY <3>7, <3>8 DEF Climbs
      <4> HIDE DEF S
      <4>2. QED
        BY <4>1, UpTo
    <3>10. QED
      BY <2>2, <3>3, <3>9
  <2>3. QED
    BY <2>1, <2>2
<1>10. QED
  BY <1>1, <1>7, <1>8, <1>9 DEF Gathers, Cat

-----------------------------------------------------------------------------
(* Parts of sequences: what a splice makes of them.                        *)

\* A part of a sequence.
LEMMA PartOf ==
  ASSUME NEW T, NEW s \in Seq(T), NEW a \in 1..(Len(s) + 1), NEW b \in (a - 1)..Len(s)
  PROVE  /\ SubSeq(s, a, b) \in Seq(T)
         /\ Len(SubSeq(s, a, b)) = b - a + 1
         /\ \A x \in 1..(b - a + 1) : SubSeq(s, a, b)[x] = s[a + x - 1]
<1>1. \A x \in a..b : s[x] \in T
  OBVIOUS
<1>2. a \in Int /\ b \in Int
  OBVIOUS
<1>3. QED
  BY <1>1, <1>2, SubSeqProperties

\* i, or the end of N positions if i is beyond it.
Clamped(i, N) == IF i > N THEN N ELSE i

\* m is s with e at position at.
IsSpliced(m, s, at, e) ==
  /\ at \in 1..(Len(s) + 1)
  /\ Len(m) = Len(s) + 1
  /\ \A x \in 1..(Len(s) + 1) : /\ x < at => m[x] = s[x]
                                /\ x = at => m[x] = e
                                /\ x > at => m[x] = s[x - 1]

\* What splice makes of a sequence.
LEMMA SplicedAt ==
  ASSUME NEW T, NEW s \in Seq(T), NEW i \in Nat \ {0}, NEW e \in T
  PROVE  /\ Spliced(s, i, e) \in Seq(T)
         /\ IsSpliced(Spliced(s, i, e), s, Clamped(i, Len(s) + 1), e)
<1> DEFINE at == Clamped(i, Len(s) + 1)
           l == SubSeq(s, 1, at - 1)
           r == SubSeq(s, at, Len(s))
           m == <<e>>
<1>1. at \in 1..(Len(s) + 1)
  BY DEF Clamped
<1>2. Spliced(s, i, e) = l \o m \o r
  BY DEF Spliced, InsertAt, Clamped
<1> HIDE DEF at
<1>3. l \in Seq(T) /\ Len(l) = at - 1 /\ \A x \in 1..(at - 1) : l[x] = s[x]
  <2>1. 1 \in 1..(Len(s) + 1) /\ at - 1 \in (1 - 1)..Len(s)
    BY <1>1
  <2>2. /\ l \in Seq(T) /\ Len(l) = (at - 1) - 1 + 1
        /\ \A x \in 1..((at - 1) - 1 + 1) : l[x] = s[1 + x - 1]
    BY <2>1, PartOf
  <2>3. QED
    BY <1>1, <2>2
<1>4. /\ r \in Seq(T) /\ Len(r) = Len(s) - at + 1
      /\ \A x \in 1..(Len(s) - at + 1) : r[x] = s[at + x - 1]
  <2>1. Len(s) \in (at - 1)..Len(s)
    BY <1>1
  <2>2. QED
    BY <1>1, <2>1, PartOf
<1>5. m \in Seq(T) /\ Len(m) = 1 /\ m[1] = e
  OBVIOUS
<1> HIDE DEF l, m, r
<1> DEFINE a == l \o m
<1>6. /\ a \in Seq(T) /\ Len(a) = at
      /\ \A x \in 1..at : (x < at => a[x] = s[x]) /\ (x = at => a[x] = e)
  <2>1. /\ a \in Seq(T) /\ Len(a) = Len(l) + Len(m)
        /\ \A x \in 1..(Len(l) + Len(m)) : a[x] = IF x <= Len(l) THEN l[x] ELSE m[x - Len(l)]
    BY <1>3, <1>5, ConcatProperties
  <2>2. QED
    BY <2>1, <1>1, <1>3, <1>5
<1> HIDE DEF a
<1>7. /\ a \o r \in Seq(T) /\ Len(a \o r) = Len(a) + Len(r)
      /\ \A x \in 1..(Len(a) + Len(r)) : (a \o r)[x] = IF x <= Len(a) THEN a[x] ELSE r[x - Len(a)]
  BY <1>4, <1>6, ConcatProperties
<1>8. Len(a) + Len(r) = Len(s) + 1
  BY <1>1, <1>4, <1>6
<1>9. ASSUME NEW x \in 1..(Len(s) + 1)
      PROVE  /\ x < at => (a \o r)[x] = s[x]
             /\ x = at => (a \o r)[x] = e
             /\ x > at => (a \o r)[x] = s[x - 1]
  <2>1. CASE x <= at
    BY <1>1, <1>6, <1>7, <1>8, <2>1
  <2>2. CASE x > at
    <3>1. x - at \in 1..(Len(s) - at + 1) /\ at + (x - at) - 1 = x - 1
      BY <1>1, <2>2
    <3>2. (a \o r)[x] = r[x - at]
      BY <1>1, <1>6, <1>7, <1>8, <2>2
    <3>3. r[x - at] = s[at + (x - at) - 1]
      BY <1>4, <3>1
    <3>4. QED
      BY <1>1, <2>2, <3>1, <3>2, <3>3
  <2>3. x <= at \/ x > at
    BY <1>1
  <2>4. QED
    BY <2>1, <2>2, <2>3
<1>10. Spliced(s, i, e) = a \o r
  BY <1>2 DEF a
<1>11. QED
  BY <1>1, <1>7, <1>8, <1>9, <1>10 DEF IsSpliced, at

\* What is left when the element at q is taken out.
LEMMA RemovedAt ==
  ASSUME NEW T, NEW s \in Seq(T), NEW q \in 1..Len(s)
  PROVE  /\ RemoveAt(s, q) \in Seq(T)
         /\ Len(RemoveAt(s, q)) = Len(s) - 1
         /\ \A x \in 1..(Len(s) - 1) :
              /\ x < q => RemoveAt(s, q)[x] = s[x]
              /\ x >= q => RemoveAt(s, q)[x] = s[x + 1]
<1> DEFINE l == SubSeq(s, 1, q - 1)
           r == SubSeq(s, q + 1, Len(s))
<1>1. l \in Seq(T) /\ Len(l) = q - 1 /\ \A x \in 1..(q - 1) : l[x] = s[x]
  BY PartOf
<1>2. /\ r \in Seq(T) /\ Len(r) = Len(s) - q
      /\ \A x \in 1..(Len(s) - q) : r[x] = s[q + x]
  BY PartOf
<1>3. RemoveAt(s, q) = l \o r
  BY DEF RemoveAt
<1> HIDE DEF l, r
<1>4. /\ l \o r \in Seq(T) /\ Len(l \o r) = Len(l) + Len(r)
      /\ \A x \in 1..(Len(l) + Len(r)) : (l \o r)[x] = IF x <= Len(l) THEN l[x] ELSE r[x - Len(l)]
  BY <1>1, <1>2, ConcatProperties
<1>5. QED
  BY <1>1, <1>2, <1>3, <1>4, SMTT(30)

\* m is s with the element at q put in at position at instead: those in
\* between make room for it.
IsShifted(m, s, q, at) ==
  /\ at \in 1..Len(s)
  /\ Len(m) = Len(s)
  /\ \A x \in 1..Len(s) :
       /\ x = at => m[x] = s[q]
       /\ x < at /\ x < q => m[x] = s[x]
       /\ x < at /\ x >= q => m[x] = s[x + 1]
       /\ x > at /\ x <= q => m[x] = s[x - 1]
       /\ x > at /\ x > q => m[x] = s[x]

\* What taking an element out and putting it in elsewhere makes of a sequence.
LEMMA ShiftedAt ==
  ASSUME NEW T, NEW s \in Seq(T), NEW q \in 1..Len(s), NEW i \in Nat \ {0}
  PROVE  /\ Shifted(s, q, i) \in Seq(T)
         /\ IsShifted(Shifted(s, q, i), s, q, Clamped(i, Len(s)))
<1> DEFINE r == RemoveAt(s, q)
           e == s[q]
           at == Clamped(i, Len(s))
           m == Spliced(r, i, e)
<1>1. /\ r \in Seq(T) /\ Len(r) = Len(s) - 1
      /\ \A x \in 1..(Len(s) - 1) : (x < q => r[x] = s[x]) /\ (x >= q => r[x] = s[x + 1])
  BY RemovedAt
<1>2. e \in T
  OBVIOUS
<1>3. Shifted(s, q, i) = m
  BY DEF Shifted
<1> HIDE DEF r, e
<1>4. at = Clamped(i, Len(r) + 1)
  BY <1>1
<1>5. m \in Seq(T) /\ IsSpliced(m, r, at, e)
  BY <1>1, <1>2, <1>4, SplicedAt
<1> HIDE DEF m, at
<1>6. /\ at \in 1..Len(s) /\ Len(m) = Len(s)
      /\ \A x \in 1..Len(s) : /\ x < at => m[x] = r[x]
                              /\ x = at => m[x] = e
                              /\ x > at => m[x] = r[x - 1]
  BY <1>1, <1>5 DEF IsSpliced
<1>7. ASSUME NEW x \in 1..Len(s)
      PROVE  /\ x = at => m[x] = s[q]
             /\ x < at /\ x < q => m[x] = s[x]
             /\ x < at /\ x >= q => m[x] = s[x + 1]
             /\ x > at /\ x <= q => m[x] = s[x - 1]
             /\ x > at /\ x > q => m[x] = s[x]
  <2>1. CASE x = at
    BY <1>6, <2>1 DEF e
  <2>2. CASE x < at
    <3>1. x \in 1..(Len(s) - 1) /\ m[x] = r[x]
      BY <1>6, <2>2
    <3>2. QED
      BY <1>1, <1>6, <2>2, <3>1
  <2>3. CASE x > at
    <3>1. x - 1 \in 1..(Len(s) - 1) /\ m[x] = r[x - 1] /\ (x - 1) + 1 = x
      BY <1>6, <2>3
    <3>2. (x - 1 < q => r[x - 1] = s[x - 1]) /\ (x - 1 >= q => r[x - 1] = s[(x - 1) + 1])
      BY <1>1, <3>1
    <3>3. QED
      BY <1>6, <2>3, <3>1, <3>2
  <2>4. QED
    BY <1>6, <2>1, <2>2, <2>3
<1>8. QED
  BY <1>3, <1>5, <1>6, <1>7 DEF IsShifted, at

-----------------------------------------------------------------------------
(* Lists.                                                                  *)

\* What IsList says, position by position.
LEMMA ListForm ==
  ASSUME NEW l \in Seq(Row)
  PROVE  IsList(l) <=> \A i, j \in 1..Len(l) : l[i].key = l[j].key => i = j
<1>1. DOMAIN KeysOf(l) = 1..Len(l) /\ \A i \in 1..Len(l) : KeysOf(l)[i] = l[i].key
  BY DEF KeysOf
<1>2. QED
  BY <1>1 DEF IsList, IsInjective

\* The first position that has a value.
LEMMA FirstOf ==
  ASSUME NEW S \in SUBSET (Nat \ {0}), NEW m \in S, \A i \in S : m <= i,
         NEW q, q = IF S # {} THEN Min(S) ELSE 0
  PROVE  q = m
<1>1. q = CHOOSE x \in S : \A y \in S : x <= y
  BY DEF Min
<1>2. q \in S /\ \A y \in S : q <= y
  BY <1>1, Zenon
<1>3. m <= q /\ q <= m
  BY <1>2
<1>4. QED
  BY <1>2, <1>3

\* IndexOf finds the first row with a key, and is 0 if there is none.
LEMMA IndexFound ==
  ASSUME NEW l \in Seq(Row), NEW k
  PROVE  /\ Has(l, k) => /\ IndexOf(l, k) \in 1..Len(l)
                         /\ l[IndexOf(l, k)].key = k
         /\ ~Has(l, k) => IndexOf(l, k) = 0
<1> DEFINE S == {i \in 1..Len(l) : l[i].key = k}
<1>1. IndexOf(l, k) = IF S # {} THEN Min(S) ELSE 0
  BY DEF IndexOf, SelectInSeq
<1>2. Has(l, k) <=> S # {}
  BY DEF Has
<1>3. CASE S = {}
  BY <1>1, <1>2, <1>3
<1>4. CASE S # {}
  <2>1. PICK e \in S : TRUE
    BY <1>4
  <2>2. S \in SUBSET Nat /\ S \in SUBSET (Nat \ {0}) /\ \A i \in S : i \in 1..Len(l) /\ l[i].key = k
    OBVIOUS
  <2> HIDE DEF S
  <2>3. PICK m \in S : \A i \in S : m <= i
    BY <2>1, <2>2, LeastNumber
  <2>4. IndexOf(l, k) = m
    BY <1>1, <2>2, <2>3, FirstOf
  <2>5. QED
    BY <1>2, <1>4, <2>2, <2>4
<1>5. QED
  BY <1>3, <1>4

\* In a list, IndexOf is where the key is.
LEMMA IndexIn ==
  ASSUME NEW l, IsList(l), NEW i \in 1..Len(l)
  PROVE  Has(l, l[i].key) /\ IndexOf(l, l[i].key) = i /\ RowOf(l, l[i].key) = l[i]
<1>1. l \in Seq(Row)
  BY DEF IsList
<1>2. Has(l, l[i].key)
  BY <1>1 DEF Has
<1>3. QED
  BY <1>1, <1>2, IndexFound, ListForm DEF RowOf

\* A key is in a list at one of its positions.
LEMMA HasAt ==
  ASSUME NEW l \in Seq(Row), NEW k
  PROVE  Has(l, k) <=> \E i \in 1..Len(l) : l[i].key = k
BY DEF Has

\* The keys of a list of rows.
LEMMA KeysAt ==
  ASSUME NEW l \in Seq(Row)
  PROVE  /\ KeysOf(l) \in Seq(Keys)
         /\ Len(KeysOf(l)) = Len(l)
         /\ \A i \in 1..Len(l) : KeysOf(l)[i] = l[i].key
<1>1. DOMAIN KeysOf(l) = 1..Len(l) /\ \A i \in 1..Len(l) : KeysOf(l)[i] = l[i].key
  BY DEF KeysOf
<1>2. ASSUME NEW i \in 1..Len(l)
      PROVE  l[i].key \in Keys
  <2>1. l[i] \in Row
    OBVIOUS
  <2>2. QED
    BY <2>1 DEF Row
<1>3. KeysOf(l) = [i \in 1..Len(l) |-> l[i].key]
  BY DEF KeysOf
<1>4. KeysOf(l) \in [1..Len(l) -> Keys]
  BY <1>2, <1>3
<1>5. Len(l) \in Nat
  OBVIOUS
<1> HIDE DEF KeysOf
<1>6. KeysOf(l) \in Seq(Keys)
  BY <1>4, <1>5, SeqDef
<1>7. QED
  BY <1>1, <1>5, <1>6

\* Keys are looked up in the keys of a list as in the list.
LEMMA FoundAsIndex ==
  ASSUME NEW l \in Seq(Row), NEW n, NEW i
  PROVE  Found(KeysOf(l), n, i) = IndexOf(l, n[i].key)
<1> DEFINE k == n[i].key
           o == KeysOf(l)
           S == {x \in 1..Len(o) : o[x] = k}
           R == {x \in 1..Len(l) : l[x].key = k}
<1>1. Len(o) = Len(l) /\ \A x \in 1..Len(l) : o[x] = l[x].key
  BY KeysAt
<1>2. Found(o, n, i) = IF S # {} THEN Min(S) ELSE 0
  BY DEF Found, SelectInSeq
<1>3. IndexOf(l, k) = IF R # {} THEN Min(R) ELSE 0
  BY DEF IndexOf, SelectInSeq
<1>4. S = R
  BY <1>1
<1> HIDE DEF S, R
<1>5. QED
  BY <1>2, <1>3, <1>4

-----------------------------------------------------------------------------
(* What a splice leaves a list.                                            *)

\* Two sequences with the same elements are the same.
LEMMA SameSeq ==
  ASSUME NEW T, NEW s \in Seq(T), NEW t \in Seq(T), Len(s) = Len(t),
         \A x \in 1..Len(s) : s[x] = t[x]
  PROVE  s = t
BY SeqEqual

\* The keys of a list into which a row is spliced.
LEMMA KeysSpliced ==
  ASSUME NEW l \in Seq(Row), NEW i \in Nat \ {0}, NEW e \in Row
  PROVE  KeysOf(Spliced(l, i, e)) = Spliced(KeysOf(l), i, e.key)
<1> DEFINE at == Clamped(i, Len(l) + 1)
           m == Spliced(l, i, e)
           o == Spliced(KeysOf(l), i, e.key)
<1>1. m \in Seq(Row) /\ IsSpliced(m, l, at, e)
  BY SplicedAt
<1>2. /\ KeysOf(l) \in Seq(Keys) /\ Len(KeysOf(l)) = Len(l)
      /\ \A x \in 1..Len(l) : KeysOf(l)[x] = l[x].key
  BY KeysAt
<1>3. e.key \in Keys
  BY DEF Row
<1>4. at = Clamped(i, Len(KeysOf(l)) + 1)
  BY <1>2
<1>5. o \in Seq(Keys) /\ IsSpliced(o, KeysOf(l), at, e.key)
  BY <1>2, <1>3, <1>4, SplicedAt
<1> HIDE DEF m, o, at
<1>6. at \in 1..(Len(l) + 1) /\ Len(m) = Len(l) + 1 /\ Len(o) = Len(l) + 1
  BY <1>1, <1>2, <1>5 DEF IsSpliced
<1>7. /\ KeysOf(m) \in Seq(Keys) /\ Len(KeysOf(m)) = Len(m)
      /\ \A x \in 1..Len(m) : KeysOf(m)[x] = m[x].key
  BY <1>1, KeysAt
<1>8. ASSUME NEW x \in 1..Len(m)
      PROVE  KeysOf(m)[x] = o[x]
  <2>1. KeysOf(m)[x] = m[x].key /\ x \in 1..(Len(l) + 1)
    BY <1>6, <1>7
  <2>2. CASE x < at
    <3>1. x \in 1..Len(l) /\ m[x] = l[x] /\ o[x] = KeysOf(l)[x]
      BY <1>1, <1>2, <1>5, <1>6, <2>1, <2>2, SMTT(30) DEF IsSpliced
    <3>2. QED
      BY <1>2, <2>1, <3>1
  <2>3. CASE x = at
    BY <1>1, <1>2, <1>5, <1>6, <2>1, <2>3 DEF IsSpliced
  <2>4. CASE x > at
    <3>1. x - 1 \in 1..Len(l) /\ m[x] = l[x - 1] /\ o[x] = KeysOf(l)[x - 1]
      BY <1>1, <1>2, <1>5, <1>6, <2>1, <2>4 DEF IsSpliced
    <3>2. QED
      BY <1>2, <2>1, <3>1
  <2>5. QED
    BY <1>6, <2>1, <2>2, <2>3, <2>4
<1>9. KeysOf(m) = o
  BY <1>5, <1>6, <1>7, <1>8, SameSeq
<1>10. QED
  BY <1>9 DEF m, o

\* The keys of a list in which a row is shifted.
LEMMA KeysShifted ==
  ASSUME NEW l \in Seq(Row), NEW q \in 1..Len(l), NEW i \in Nat \ {0}
  PROVE  KeysOf(Shifted(l, q, i)) = Shifted(KeysOf(l), q, i)
<1> DEFINE at == Clamped(i, Len(l))
           m == Shifted(l, q, i)
           o == Shifted(KeysOf(l), q, i)
           y(x) == IF x = at THEN q
                   ELSE IF x < at THEN IF x < q THEN x ELSE x + 1
                   ELSE IF x <= q THEN x - 1 ELSE x
<1>1. m \in Seq(Row) /\ IsShifted(m, l, q, at)
  BY ShiftedAt
<1>2. /\ KeysOf(l) \in Seq(Keys) /\ Len(KeysOf(l)) = Len(l)
      /\ \A x \in 1..Len(l) : KeysOf(l)[x] = l[x].key
  BY KeysAt
<1>3. at = Clamped(i, Len(KeysOf(l))) /\ q \in 1..Len(KeysOf(l))
  BY <1>2
<1>4. o \in Seq(Keys) /\ IsShifted(o, KeysOf(l), q, at)
  BY <1>2, <1>3, ShiftedAt
<1> HIDE DEF m, o, at
<1>5. at \in 1..Len(l) /\ Len(m) = Len(l) /\ Len(o) = Len(l)
  BY <1>1, <1>2, <1>4 DEF IsShifted
<1>6. \A x \in 1..Len(l) : y(x) \in 1..Len(l)
  BY <1>5
<1>7. /\ KeysOf(m) \in Seq(Keys) /\ Len(KeysOf(m)) = Len(m)
      /\ \A x \in 1..Len(m) : KeysOf(m)[x] = m[x].key
  BY <1>1, KeysAt
<1>8. ASSUME NEW x \in 1..Len(m)
      PROVE  KeysOf(m)[x] = o[x]
  <2>1. m[x] = l[y(x)]
    BY <1>1, <1>5 DEF IsShifted
  <2>2. o[x] = KeysOf(l)[y(x)]
    BY <1>2, <1>4, <1>5 DEF IsShifted
  <2>3. y(x) \in 1..Len(l)
    BY <1>5, <1>6
  <2> HIDE DEF y
  <2>4. QED
    BY <1>2, <1>7, <2>1, <2>2, <2>3
<1>9. KeysOf(m) = o
  BY <1>4, <1>5, <1>7, <1>8, SameSeq
<1>10. QED
  BY <1>9 DEF m, o

\* A key is in a list with one of its rows.
LEMMA HasRow ==
  ASSUME NEW l \in Seq(Row), NEW k
  PROVE  Has(l, k) <=> \E r \in Range(l) : r.key = k
BY DEF Has, Range

\* A row with a new key is spliced into a list: it stays a list, with that row
\* too, and its rows keep their order.
LEMMA ListSpliced ==
  ASSUME NEW l, IsList(l), NEW i \in Nat \ {0}, NEW e \in Row, ~Has(l, e.key),
         NEW m, m = Spliced(l, i, e)
  PROVE  /\ IsList(m) /\ Len(m) = Len(l) + 1
         /\ Range(m) = Range(l) \cup {e}
         /\ \A j, k \in Keys \ {e.key} : Before(m, j, k) => Before(l, j, k)
<1> DEFINE at == Clamped(i, Len(l) + 1)
<1>0. l \in Seq(Row)
  BY DEF IsList
<1>1. l \in Seq(Row) /\ m \in Seq(Row) /\ IsSpliced(m, l, at, e)
  BY <1>0, SplicedAt
<1> HIDE DEF at
<1>2. /\ m \in Seq(Row) /\ Len(m) = Len(l) + 1
      /\ \A x \in 1..(Len(l) + 1) : /\ x < at => m[x] = l[x]
                                    /\ x = at => m[x] = e
                                    /\ x > at => m[x] = l[x - 1]
  BY <1>1 DEF IsSpliced
<1>3. at \in 1..(Len(l) + 1)
  BY <1>1 DEF IsSpliced
<1>4. \A x, z \in 1..Len(l) : l[x].key = l[z].key => x = z
  BY <1>1, ListForm
<1>5. \A x \in 1..Len(l) : l[x].key # e.key
  BY <1>1, HasAt
\* Where the row at x comes from.
<1> DEFINE y(x) == IF x < at THEN x ELSE x - 1
<1>6. \A x \in 1..Len(m) : \/ x = at /\ m[x] = e
                           \/ x # at /\ y(x) \in 1..Len(l) /\ m[x] = l[y(x)]
  BY <1>1, <1>2, <1>3
<1>7. \A x, z \in 1..Len(m) : x # at /\ z # at /\ y(x) = y(z) => x = z
  BY <1>1, <1>2, <1>3
<1>8. \A x, z \in 1..Len(m) : x # at /\ z # at /\ x < z => y(x) < y(z)
  BY <1>1, <1>2, <1>3
<1>9. \A x \in 1..Len(l) : \E z \in 1..Len(m) : z # at /\ y(z) = x
  <2>1. TAKE x \in 1..Len(l)
  <2>2. CASE x < at
    BY <1>1, <1>2, <1>3, <2>2
  <2>3. CASE x >= at
    <3>1. x + 1 \in 1..Len(m) /\ x + 1 # at /\ y(x + 1) = x
      BY <1>1, <1>2, <1>3, <2>3
    <3>2. QED
      BY <3>1
  <2>4. QED
    BY <1>3, <2>2, <2>3
<1>10. at \in 1..Len(m)
  BY <1>2, <1>3
<1> HIDE DEF y
<1>11. IsList(m)
  <2>1. ASSUME NEW x \in 1..Len(m), NEW z \in 1..Len(m), m[x].key = m[z].key
        PROVE  x = z
    <3>1. CASE x = at
      BY <1>5, <1>6, <2>1, <3>1
    <3>2. CASE z = at
      BY <1>5, <1>6, <2>1, <3>2
    <3>3. CASE x # at /\ z # at
      BY <1>4, <1>6, <1>7, <2>1, <3>3
    <3>4. QED
      BY <3>1, <3>2, <3>3
  <2>2. QED
    BY <1>2, <2>1, ListForm
<1>12. Range(m) = Range(l) \cup {e}
  <2>1. \A r : r \in Range(l) <=> \E x \in 1..Len(l) : l[x] = r
    BY <1>1 DEF Range
  <2>2. \A r : r \in Range(m) <=> \E x \in 1..Len(m) : m[x] = r
    BY <1>2 DEF Range
  <2>3. \A r \in Range(m) : r \in Range(l) \cup {e}
    BY <1>6, <2>1, <2>2
  <2>4. \A r \in Range(l) : r \in Range(m)
    BY <1>6, <1>9, <2>1, <2>2
  <2>5. e \in Range(m)
    BY <1>6, <1>10, <2>2
  <2>6. QED
    BY <2>3, <2>4, <2>5
<1>13. ASSUME NEW j \in Keys \ {e.key}, NEW k \in Keys \ {e.key}, Before(m, j, k)
       PROVE  Before(l, j, k)
  <2>1. PICK a \in 1..Len(m), b \in 1..Len(m) : a < b /\ m[a].key = j /\ m[b].key = k
    BY <1>2, <1>13 DEF Before
  <2>2. a # at /\ b # at
    BY <1>6, <2>1
  <2>3. /\ y(a) \in 1..Len(l) /\ y(b) \in 1..Len(l) /\ y(a) < y(b)
        /\ l[y(a)].key = j /\ l[y(b)].key = k
    BY <1>6, <1>8, <2>1, <2>2
  <2>4. QED
    BY <1>1, <2>3 DEF Before
<1>14. QED
  BY <1>2, <1>11, <1>12, <1>13

\* A row is taken out of a list.
LEMMA ListRemoved ==
  ASSUME NEW l, IsList(l), NEW q \in 1..Len(l), NEW m, m = RemoveAt(l, q)
  PROVE  IsList(m) /\ Range(m) = Range(l) \ {l[q]}
<1>1. l \in Seq(Row)
  BY DEF IsList
<1>2. /\ m \in Seq(Row) /\ Len(m) = Len(l) - 1
      /\ \A x \in 1..(Len(l) - 1) : (x < q => m[x] = l[x]) /\ (x >= q => m[x] = l[x + 1])
  BY <1>1, RemovedAt
<1>3. \A x, z \in 1..Len(l) : l[x].key = l[z].key => x = z
  BY <1>1, ListForm
<1> DEFINE y(x) == IF x < q THEN x ELSE x + 1
<1>4. ASSUME NEW x \in 1..Len(m)
      PROVE  y(x) \in 1..Len(l) /\ y(x) # q /\ m[x] = l[y(x)]
  <2>1. x \in 1..(Len(l) - 1) /\ Len(l) \in Nat
    BY <1>1, <1>2
  <2>2. CASE x < q
    BY <1>2, <2>1, <2>2
  <2>3. CASE x >= q
    BY <1>2, <2>1, <2>3
  <2>4. QED
    BY <2>1, <2>2, <2>3
<1>5. \A x, z \in 1..Len(m) : y(x) = y(z) => x = z
  BY <1>1, <1>2
<1>6. \A x \in 1..Len(l) : x # q => \E z \in 1..Len(m) : y(z) = x
  <2>1. TAKE x \in 1..Len(l)
  <2>2. CASE x < q
    BY <1>1, <1>2, <2>2
  <2>3. CASE x > q
    <3>1. x - 1 \in 1..Len(m) /\ y(x - 1) = x
      BY <1>1, <1>2, <2>3
    <3>2. QED
      BY <3>1
  <2>4. QED
    BY <2>2, <2>3
<1> HIDE DEF y
<1>7. IsList(m)
  BY <1>2, <1>3, <1>4, <1>5, ListForm
<1>8. \A r : r \in Range(l) <=> \E x \in 1..Len(l) : l[x] = r
  BY <1>1 DEF Range
<1>9. \A r : r \in Range(m) <=> \E x \in 1..Len(m) : m[x] = r
  BY <1>2 DEF Range
<1>10. Range(m) = Range(l) \ {l[q]}
  <2>1. \A r \in Range(m) : r \in Range(l) \ {l[q]}
    BY <1>3, <1>4, <1>8, <1>9
  <2>2. \A r \in Range(l) \ {l[q]} : r \in Range(m)
    BY <1>4, <1>6, <1>8, <1>9
  <2>3. QED
    BY <2>1, <2>2
<1>11. QED
  BY <1>7, <1>10

\* A row is shifted within a list.
LEMMA ListShifted ==
  ASSUME NEW l, IsList(l), NEW q \in 1..Len(l), NEW i \in Nat \ {0},
         NEW m, m = Shifted(l, q, i)
  PROVE  IsList(m) /\ Len(m) = Len(l) /\ Range(m) = Range(l)
<1>1. l \in Seq(Row)
  BY DEF IsList
<1> DEFINE r == RemoveAt(l, q)
<1>2. IsList(r) /\ Range(r) = Range(l) \ {l[q]}
  BY ListRemoved
<1>3. Len(m) = Len(l)
  BY <1>1, ShiftedAt DEF IsShifted
<1>4. m = Spliced(r, i, l[q])
  BY DEF Shifted
<1> HIDE DEF r
<1>5. l[q] \in Row /\ l[q] \in Range(l)
  BY <1>1 DEF Range
<1>6. r \in Seq(Row)
  BY <1>2 DEF IsList
<1>7. \A z \in Range(l) : z.key = l[q].key => z = l[q]
  BY <1>1, ListForm DEF Range
<1>8. ~Has(r, l[q].key)
  BY <1>2, <1>6, <1>7, HasRow
<1>9. IsList(m) /\ Range(m) = Range(r) \cup {l[q]}
  BY <1>2, <1>4, <1>5, <1>8, ListSpliced
<1>10. QED
  BY <1>2, <1>3, <1>5, <1>9

-----------------------------------------------------------------------------
(* Rows picked from a list.                                                *)

\* A sequence and one more element.
LEMMA Appended ==
  ASSUME NEW T, NEW s \in Seq(T), NEW e \in T, NEW m, m = s \o <<e>>
  PROVE  /\ m \in Seq(T) /\ Len(m) = Len(s) + 1
         /\ \A x \in 1..Len(s) : m[x] = s[x]
         /\ m[Len(s) + 1] = e
<1> DEFINE r == <<e>>
<1>1. r \in Seq(T) /\ Len(r) = 1 /\ r[1] = e
  OBVIOUS
<1> HIDE DEF r
<1>2. m = s \o r
  BY DEF r
<1>3. /\ m \in Seq(T) /\ Len(m) = Len(s) + Len(r)
      /\ \A x \in 1..(Len(s) + Len(r)) : m[x] = IF x <= Len(s) THEN s[x] ELSE r[x - Len(s)]
  BY <1>1, <1>2, ConcatProperties
<1>4. QED
  BY <1>1, <1>3

\* f is what Picked has gathered of s, element by element.
Picks(f, s, P, T) ==
  /\ f \in [0..Len(s) -> Seq(T)]
  /\ f[0] = <<>>
  /\ \A i \in 1..Len(s) : /\ i \in P => f[i] = f[i - 1] \o <<s[i]>>
                          /\ i \notin P => f[i] = f[i - 1]
  /\ Picked(s, P) = f[Len(s)]

\* Picked goes through the sequence from left to right.
LEMMA PickedFrom ==
  ASSUME NEW T, NEW s \in Seq(T), NEW P
  PROVE  \E f : Picks(f, s, P, T)
<1> DEFINE One(i) == <<s[i]>>
           None == <<>>
           out == [i \in DOMAIN s |-> IF i \in P THEN One(i) ELSE None]
<1>1. DOMAIN s = 1..Len(s) /\ Len(s) \in Nat
  OBVIOUS
<1>2. \A i \in 1..Len(s) : One(i) \in Seq(T)
  OBVIOUS
<1>3. None \in Seq(T)
  OBVIOUS
<1>4. Picked(s, P) = FlattenSeq(out)
  BY DEF Picked
<1> HIDE DEF One, None
<1>5. out \in [1..Len(s) -> Seq(T)]
  BY <1>1, <1>2, <1>3
<1>6. \A i \in 1..Len(s) : out[i] = IF i \in P THEN One(i) ELSE None
  BY <1>1
<1> HIDE DEF out
<1>7. out \in Seq(Seq(T)) /\ Len(out) = Len(s)
  BY <1>1, <1>5, LenProperties, SeqDef
<1>8. PICK f : Gathers(f, out, T)
  BY <1>7, Flattened
<1>9. /\ f \in [0..Len(s) -> Seq(T)] /\ f[0] = <<>>
      /\ \A i \in 1..Len(s) : f[i] = f[i - 1] \o out[i]
      /\ Picked(s, P) = f[Len(s)]
  BY <1>4, <1>7, <1>8 DEF Gathers
<1>10. ASSUME NEW i \in 1..Len(s)
       PROVE  /\ i \in P => f[i] = f[i - 1] \o One(i)
              /\ i \notin P => f[i] = f[i - 1]
  <2>1. f[i - 1] \in Seq(T)
    BY <1>1, <1>9
  <2>2. CASE i \in P
    BY <1>6, <1>9, <2>2
  <2>3. CASE i \notin P
    <3>1. f[i] = f[i - 1] \o None
      BY <1>6, <1>9, <2>3
    <3>2. f[i - 1] \o <<>> = f[i - 1]
      BY <2>1, ConcatEmptySeq
    <3>3. QED
      BY <2>3, <3>1, <3>2 DEF None
  <2>4. QED
    BY <2>2, <2>3
<1>11. Picks(f, s, P, T)
  BY <1>9, <1>10 DEF Picks, One
<1>12. QED
  BY <1>11

\* All positions but q are picked: the element at q is left out, if there is one.
LEMMA PickedAllBut ==
  ASSUME NEW T, NEW s \in Seq(T), NEW P, NEW q \in Nat \ {0},
         \A i \in 1..Len(s) : i \in P <=> i # q
  PROVE  /\ q <= Len(s) => Picked(s, P) = RemoveAt(s, q)
         /\ q > Len(s) => Picked(s, P) = s
<1>1. PICK f : Picks(f, s, P, T)
  BY PickedFrom
<1>2. PICK N \in Nat : N = Len(s)
  OBVIOUS
<1>3. /\ f \in [0..N -> Seq(T)] /\ f[0] = <<>> /\ Picked(s, P) = f[N]
      /\ \A i \in 1..N : /\ i \in P => f[i] = f[i - 1] \o <<s[i]>>
                         /\ i \notin P => f[i] = f[i - 1]
  BY <1>1, <1>2 DEF Picks
<1> DEFINE Upto(g, i) == /\ Len(g) = IF i < q THEN i ELSE i - 1
                         /\ \A x \in 1..Len(g) : /\ x < q => g[x] = s[x]
                                                 /\ x >= q => g[x] = s[x + 1]
           S == {i \in 0..N : Upto(f[i], i)}
<1>4. 0 \in S
  BY <1>3
<1>5. ASSUME NEW i \in 1..N, i - 1 \in S
      PROVE  i \in S
  <2> DEFINE g == f[i - 1]
  <2>1. g \in Seq(T) /\ Upto(g, i - 1) /\ s[i] \in T
    <3>1. i - 1 \in 0..N /\ i \in 1..Len(s)
      BY <1>2
    <3>2. g \in Seq(T)
      BY <1>3, <3>1
    <3> HIDE DEF Upto
    <3>3. QED
      BY <1>5, <3>1, <3>2
  <2> HIDE DEF g
  <2>2. CASE i = q
    <3>1. f[i] = g
      BY <1>2, <1>3, <2>2 DEF g
    <3>2. Upto(g, i)
      BY <2>1, <2>2
    <3> HIDE DEF Upto
    <3>3. QED
      BY <3>1, <3>2
  <2>3. CASE i # q
    <3> DEFINE m == f[i]
    <3>1. m = g \o <<s[i]>>
      BY <1>2, <1>3, <2>3 DEF g
    <3> HIDE DEF m
    <3>2. /\ m \in Seq(T) /\ Len(m) = Len(g) + 1
          /\ \A x \in 1..Len(g) : m[x] = g[x]
          /\ m[Len(g) + 1] = s[i]
      BY <2>1, <3>1, Appended
    <3>3. Len(g) = IF i < q THEN i - 1 ELSE i - 2
      BY <2>1, <2>3
    <3>4. Len(m) = IF i < q THEN i ELSE i - 1
      BY <3>2, <3>3
    <3>5. ASSUME NEW x \in 1..Len(m)
          PROVE  /\ x < q => m[x] = s[x]
                 /\ x >= q => m[x] = s[x + 1]
      <4>1. CASE x = Len(g) + 1
        BY <2>3, <3>2, <3>3, <4>1
      <4>2. CASE x # Len(g) + 1
        <5>1. x \in 1..Len(g)
          BY <3>2, <3>3, <4>2
        <5>2. QED
          BY <2>1, <3>2, <5>1
      <4>3. QED
        BY <4>1, <4>2
    <3>6. Upto(m, i)
      BY <3>4, <3>5
    <3> HIDE DEF Upto
    <3>7. QED
      BY <3>6 DEF m
  <2>4. QED
    BY <2>2, <2>3
<1>6. Upto(f[N], N)
  <2>1. Climbs(S, N)
    BY <1>4, <1>5 DEF Climbs
  <2> HIDE DEF S
  <2>2. N \in S
    BY <2>1, UpTo
  <2>3. QED
    BY <2>2 DEF S
<1> DEFINE m == Picked(s, P)
<1>7. m \in Seq(T) /\ Upto(m, N)
  BY <1>3, <1>6
<1> HIDE DEF m
<1>8. CASE q <= N
  <2> DEFINE r == RemoveAt(s, q)
  <2>1. q \in 1..Len(s)
    BY <1>2, <1>8
  <2>2. /\ r \in Seq(T) /\ Len(r) = Len(s) - 1
        /\ \A x \in 1..(Len(s) - 1) : (x < q => r[x] = s[x]) /\ (x >= q => r[x] = s[x + 1])
    BY <2>1, RemovedAt
  <2> HIDE DEF r
  <2>3. Len(m) = N - 1 /\ \A x \in 1..(N - 1) : m[x] = r[x]
    BY <1>2, <1>7, <1>8, <2>2
  <2>4. m = r
    BY <1>2, <1>7, <2>2, <2>3, SameSeq
  <2>5. QED
    BY <1>2, <1>8, <2>4 DEF m, r
<1>9. CASE q > N
  <2>1. Len(m) = N /\ \A x \in 1..N : m[x] = s[x]
    BY <1>7, <1>9
  <2>2. m = s
    BY <1>2, <1>7, <2>1, SameSeq
  <2>3. QED
    BY <1>2, <1>9, <2>2 DEF m
<1>10. QED
  BY <1>2, <1>8, <1>9

\* Rows are picked from a list: they are a list, in the order they had.
LEMMA ListPicked ==
  ASSUME NEW l, IsList(l), NEW P, NEW m, m = Picked(l, P)
  PROVE  /\ IsList(m)
         /\ Range(m) = {l[i] : i \in P \cap (1..Len(l))}
         /\ \A j, k : Before(m, j, k) => Before(l, j, k)
<1>1. l \in Seq(Row)
  BY DEF IsList
<1>2. PICK f : Picks(f, l, P, Row)
  BY <1>1, PickedFrom
<1>3. PICK N \in Nat : N = Len(l)
  BY <1>1
<1>4. /\ f \in [0..N -> Seq(Row)] /\ f[0] = <<>> /\ m = f[N]
      /\ \A i \in 1..N : /\ i \in P => f[i] = f[i - 1] \o <<l[i]>>
                         /\ i \notin P => f[i] = f[i - 1]
  BY <1>2, <1>3 DEF Picks
<1> DEFINE Of(g, i) ==
             /\ \A x \in 1..Len(g) : \E y \in P \cap (1..i) : g[x] = l[y]
             /\ \A y \in P \cap (1..i) : \E x \in 1..Len(g) : g[x] = l[y]
             /\ \A x, z \in 1..Len(g) : x < z =>
                  \E y, w \in 1..i : y < w /\ g[x] = l[y] /\ g[z] = l[w]
           S == {i \in 0..N : Of(f[i], i)}
<1>5. 0 \in S
  BY <1>4
<1>6. ASSUME NEW i \in 1..N, i - 1 \in S
      PROVE  i \in S
  <2> DEFINE g == f[i - 1]
             h == f[i]
  <2>1. g \in Seq(Row) /\ Of(g, i - 1) /\ l[i] \in Row
    BY <1>1, <1>3, <1>4, <1>6
  <2> HIDE DEF g
  <2>2. CASE i \notin P
    <3>1. h = g
      BY <1>4, <2>2 DEF g
    <3> HIDE DEF h
    <3>2. P \cap (1..i) = P \cap (1..(i - 1)) /\ 1..(i - 1) \subseteq 1..i
      BY <2>2
    <3>3. /\ \A x \in 1..Len(g) : \E y \in P \cap (1..i) : g[x] = l[y]
          /\ \A y \in P \cap (1..i) : \E x \in 1..Len(g) : g[x] = l[y]
      BY <2>1, <3>2
    <3>4. \A x, z \in 1..Len(g) : x < z =>
            \E y, w \in 1..i : y < w /\ g[x] = l[y] /\ g[z] = l[w]
      BY <2>1, <3>2
    <3>5. Of(g, i)
      BY <3>3, <3>4
    <3> HIDE DEF Of
    <3>6. QED
      BY <3>1, <3>5 DEF h
  <2>3. CASE i \in P
    <3>1. h = g \o <<l[i]>>
      BY <1>4, <2>3 DEF g
    <3> HIDE DEF h
    <3>2. /\ h \in Seq(Row) /\ Len(h) = Len(g) + 1
          /\ \A x \in 1..Len(g) : h[x] = g[x]
          /\ h[Len(g) + 1] = l[i]
      BY <2>1, <3>1, Appended
    <3>3. \A x \in 1..Len(h) : x \in 1..Len(g) \/ x = Len(g) + 1
      BY <2>1, <3>2
    <3>4. Len(g) + 1 \in 1..Len(h) /\ \A x \in 1..Len(g) : x \in 1..Len(h)
      BY <2>1, <3>2
    <3>5. ASSUME NEW x \in 1..Len(h)
          PROVE  \E y \in P \cap (1..i) : h[x] = l[y]
      <4>1. CASE x = Len(g) + 1
        <5>1. i \in P \cap (1..i)
          BY <2>3
        <5>2. QED
          BY <3>2, <4>1, <5>1
      <4>2. CASE x \in 1..Len(g)
        <5>1. PICK y \in P \cap (1..(i - 1)) : g[x] = l[y]
          BY <2>1, <4>2
        <5>2. y \in P \cap (1..i)
          BY <5>1
        <5>3. QED
          BY <3>2, <4>2, <5>1, <5>2
      <4>3. QED
        BY <3>3, <4>1, <4>2
    <3>6. ASSUME NEW y \in P \cap (1..i)
          PROVE  \E x \in 1..Len(h) : h[x] = l[y]
      <4>1. CASE y = i
        BY <3>2, <3>4, <4>1
      <4>2. CASE y # i
        <5>1. y \in P \cap (1..(i - 1))
          BY <4>2
        <5>2. PICK x \in 1..Len(g) : g[x] = l[y]
          BY <2>1, <5>1
        <5>3. QED
          BY <3>2, <3>4, <5>2
      <4>3. QED
        BY <4>1, <4>2
    <3>7. ASSUME NEW x \in 1..Len(h), NEW z \in 1..Len(h), x < z
          PROVE  \E y, w \in 1..i : y < w /\ h[x] = l[y] /\ h[z] = l[w]
      <4>1. x \in 1..Len(g) /\ h[x] = g[x]
        BY <2>1, <3>2, <3>7
      <4>2. CASE z = Len(g) + 1
        <5>1. PICK y \in P \cap (1..(i - 1)) : g[x] = l[y]
          BY <2>1, <4>1
        <5>2. y \in 1..i /\ i \in 1..i /\ y < i
          BY <5>1
        <5>3. h[x] = l[y] /\ h[z] = l[i]
          BY <3>2, <4>1, <4>2, <5>1
        <5>4. QED
          BY <5>2, <5>3
      <4>3. CASE z \in 1..Len(g)
        <5>1. PICK y \in 1..(i - 1), w \in 1..(i - 1) : y < w /\ g[x] = l[y] /\ g[z] = l[w]
          BY <2>1, <3>7, <4>1, <4>3
        <5>2. y \in 1..i /\ w \in 1..i
          OBVIOUS
        <5>3. QED
          BY <3>2, <4>1, <4>3, <5>1, <5>2
      <4>4. QED
        BY <3>3, <4>2, <4>3
    <3>8. Of(h, i)
      BY <3>5, <3>6, <3>7
    <3> HIDE DEF Of
    <3>9. QED
      BY <3>8 DEF h
  <2>4. QED
    BY <2>2, <2>3
<1>7. m \in Seq(Row) /\ Of(m, N)
  <2>1. Climbs(S, N)
    BY <1>5, <1>6 DEF Climbs
  <2> HIDE DEF S
  <2>2. N \in S
    BY <2>1, UpTo
  <2>3. Of(f[N], N)
    BY <2>2 DEF S
  <2> HIDE DEF Of
  <2>4. QED
    BY <1>4, <2>3
<1>8. IsList(m)
  <2>1. \A y, w \in 1..N : l[y].key = l[w].key => y = w
    BY <1>1, <1>3, ListForm
  <2>2. ASSUME NEW x \in 1..Len(m), NEW z \in 1..Len(m), x < z
        PROVE  m[x].key # m[z].key
    <3>1. PICK y \in 1..N, w \in 1..N : y < w /\ m[x] = l[y] /\ m[z] = l[w]
      BY <1>7, <2>2
    <3>2. QED
      BY <2>1, <3>1
  <2>3. \A x, z \in 1..Len(m) : m[x].key = m[z].key => x = z
    BY <2>2
  <2>4. QED
    BY <1>7, <2>3, ListForm
<1>9. Range(m) = {l[i] : i \in P \cap (1..Len(l))}
  <2>1. \A r : r \in Range(m) <=> \E x \in 1..Len(m) : m[x] = r
    <3> HIDE DEF Of
    <3>1. QED
      BY <1>7 DEF Range
  <2>2. ASSUME NEW r \in Range(m)
        PROVE  r \in {l[i] : i \in P \cap (1..N)}
    <3>1. PICK x \in 1..Len(m) : m[x] = r
      BY <2>1
    <3>2. PICK y \in P \cap (1..N) : m[x] = l[y]
      BY <1>7
    <3>3. QED
      BY <3>1, <3>2
  <2>3. \A i \in P \cap (1..N) : l[i] \in Range(m)
    BY <1>7, <2>1
  <2>4. QED
    BY <1>3, <2>2, <2>3
<1>10. ASSUME NEW j, NEW k, Before(m, j, k)
       PROVE  Before(l, j, k)
  <2>1. PICK a \in 1..Len(m), b \in 1..Len(m) : a < b /\ m[a].key = j /\ m[b].key = k
    BY <1>7, <1>10, SMTT(30) DEF Before
  <2>2. PICK y \in 1..N, w \in 1..N : y < w /\ m[a] = l[y] /\ m[b] = l[w]
    BY <1>7, <2>1
  <2>3. QED
    BY <1>1, <1>3, <2>1, <2>2 DEF Before
<1>11. QED
  BY <1>8, <1>9, <1>10

-----------------------------------------------------------------------------
(* Patches.                                                                *)

\* The patches reconcileListRows may emit.
Patch ==
  UNION {[op : {"remove"}, key : Keys],
         {e \in [op : {"insert"}, key : Keys, to : Nat \ {0}, row : Row] :
            e.row.key = e.key},
         [op : {"move"}, key : Keys, to : Nat \ {0}],
         {e \in [op : {"replace"}, key : Keys, row : Row] : e.row.key = e.key}}

\* What a patch says, by its op.
LEMMA PatchFields ==
  ASSUME NEW e \in Patch
  PROVE  /\ e.key \in Keys
         /\ e.op \in {"remove", "insert", "move", "replace"}
         /\ e.op \in {"insert", "move"} => e.to \in Nat \ {0}
         /\ e.op \in {"insert", "replace"} => e.row \in Row /\ e.row.key = e.key
BY DEF Patch

\* What a patch makes of an array, op by op.
LEMMA RowsByOp ==
  ASSUME NEW l, NEW e
  PROVE  /\ e.op = "insert" => ApplyToRows(l, e) = Inserted(l, e)
         /\ e.op = "remove" => ApplyToRows(l, e) = Removed(l, e)
         /\ e.op = "move" => ApplyToRows(l, e) = Moved(l, e)
         /\ e.op = "replace" => ApplyToRows(l, e) = Replaced(l, e)
BY DEF ApplyToRows

\* What a patch makes of a page, op by op.
LEMMA DomByOp ==
  ASSUME NEW l, NEW e
  PROVE  /\ e.op = "insert" => ApplyToDom(l, e) = Spliced(l, e.to, e.row)
         /\ e.op # "insert" /\ ~Has(l, e.key) => ApplyToDom(l, e) = l
         /\ e.op = "remove" /\ Has(l, e.key) =>
              ApplyToDom(l, e) = RemoveAt(l, IndexOf(l, e.key))
         /\ e.op = "move" /\ Has(l, e.key) =>
              ApplyToDom(l, e) = Shifted(l, IndexOf(l, e.key), e.to)
         /\ e.op = "replace" /\ Has(l, e.key) =>
              ApplyToDom(l, e) = ReplaceAt(l, IndexOf(l, e.key), e.row)
BY DEF ApplyToDom

\* A remove takes out the row with its key, if there is one.
LEMMA RemovedIs ==
  ASSUME NEW l, IsList(l), NEW e
  PROVE  /\ Has(l, e.key) => Removed(l, e) = RemoveAt(l, IndexOf(l, e.key))
         /\ ~Has(l, e.key) => Removed(l, e) = l
<1> DEFINE k == e.key
           P == {i \in DOMAIN l : l[i].key # k}
<1>1. l \in Seq(Row) /\ DOMAIN l = 1..Len(l) /\ Len(l) \in Nat
  BY DEF IsList
<1>2. Removed(l, e) = Picked(l, P)
  BY DEF Removed
<1> HIDE DEF k
<1>3. CASE Has(l, k)
  <2>1. PICK q \in 1..Len(l) : q = IndexOf(l, k) /\ l[q].key = k
    BY <1>1, <1>3, IndexFound
  <2>2. \A i \in 1..Len(l) : i \in P <=> i # q
    BY <1>1, <2>1, ListForm
  <2> HIDE DEF P
  <2>3. Picked(l, P) = RemoveAt(l, q)
    BY <1>1, <2>1, <2>2, PickedAllBut
  <2>4. QED
    BY <1>2, <1>3, <2>1, <2>3 DEF k
<1>4. CASE ~Has(l, k)
  <2>1. \A i \in 1..Len(l) : i \in P <=> i # Len(l) + 1
    BY <1>1, <1>4, HasAt
  <2> HIDE DEF P
  <2>2. Len(l) + 1 \in Nat \ {0} /\ Len(l) + 1 > Len(l)
    BY <1>1
  <2>3. Picked(l, P) = l
    BY <1>1, <2>1, <2>2, PickedAllBut
  <2>4. QED
    BY <1>2, <1>4, <2>3 DEF k
<1>5. QED
  BY <1>3, <1>4 DEF k

\* A replace gives the row with its key its new content, if there is one.
LEMMA ReplacedIs ==
  ASSUME NEW l, IsList(l), NEW e
  PROVE  /\ Has(l, e.key) => Replaced(l, e) = ReplaceAt(l, IndexOf(l, e.key), e.row)
         /\ ~Has(l, e.key) => Replaced(l, e) = l
<1> DEFINE k == e.key
<1>1. l \in Seq(Row) /\ DOMAIN l = 1..Len(l)
  BY DEF IsList
<1>2. Replaced(l, e) = [i \in DOMAIN l |-> IF l[i].key = k THEN e.row ELSE l[i]]
  BY DEF Replaced
<1> HIDE DEF k
<1>3. l = [i \in DOMAIN l |-> l[i]]
  BY <1>1
<1>4. CASE Has(l, k)
  <2>1. PICK q \in 1..Len(l) : q = IndexOf(l, k) /\ l[q].key = k
    BY <1>1, <1>4, IndexFound
  <2>2. \A i \in DOMAIN l : l[i].key = k <=> i = q
    BY <1>1, <2>1, ListForm
  <2>3. ReplaceAt(l, q, e.row) = [i \in DOMAIN l |-> IF i = q THEN e.row ELSE l[i]]
    BY <1>1, <2>1 DEF ReplaceAt
  <2>4. QED
    BY <1>2, <1>4, <2>1, <2>2, <2>3 DEF k
<1>5. CASE ~Has(l, k)
  <2>1. \A i \in DOMAIN l : l[i].key # k
    BY <1>5 DEF Has
  <2>2. QED
    BY <1>2, <1>3, <1>5, <2>1 DEF k
<1>6. QED
  BY <1>4, <1>5 DEF k

\* A row of a list is replaced by one with its key.
LEMMA ListReplaced ==
  ASSUME NEW l, IsList(l), NEW q \in 1..Len(l), NEW e \in Row, e.key = l[q].key,
         NEW m, m = ReplaceAt(l, q, e)
  PROVE  IsList(m)
<1>1. l \in Seq(Row)
  BY DEF IsList
<1>2. /\ m \in Seq(Row) /\ Len(m) = Len(l) /\ m[q] = e
      /\ \A x \in 1..Len(l) : x # q => m[x] = l[x]
  BY <1>1 DEF ReplaceAt
<1>3. \A x \in 1..Len(l) : m[x].key = l[x].key
  BY <1>2
<1>4. QED
  BY <1>1, <1>2, <1>3, ListForm

\* A patch leaves a list a list.
LEMMA StaysList ==
  ASSUME NEW l, IsList(l), NEW e \in Patch
  PROVE  IsList(ApplyToRows(l, e))
<1> DEFINE q == IndexOf(l, e.key)
<1>1. l \in Seq(Row)
  BY DEF IsList
<1>2. Has(l, e.key) => q \in 1..Len(l) /\ l[q].key = e.key
  BY <1>1, IndexFound
<1> HIDE DEF q
<1>3. CASE e.op = "insert"
  <2>1. e.to \in Nat \ {0} /\ e.row \in Row /\ e.row.key = e.key
    BY <1>3, PatchFields
  <2>2. CASE Has(l, e.key)
    BY <1>3, <2>2, RowsByOp DEF Inserted
  <2>3. CASE ~Has(l, e.key)
    <3>1. ApplyToRows(l, e) = Spliced(l, e.to, e.row)
      BY <1>3, <2>3, RowsByOp DEF Inserted
    <3>2. QED
      BY <2>1, <2>3, <3>1, ListSpliced
  <2>4. QED
    BY <2>2, <2>3
<1>4. CASE e.op = "remove"
  BY <1>2, <1>4, RowsByOp, RemovedIs, ListRemoved DEF q
<1>5. CASE e.op = "move"
  <2>1. e.to \in Nat \ {0}
    BY <1>5, PatchFields
  <2>2. CASE Has(l, e.key)
    <3>1. ApplyToRows(l, e) = Shifted(l, q, e.to)
      BY <1>5, <2>2, RowsByOp DEF Moved, q
    <3>2. QED
      BY <1>2, <2>1, <2>2, <3>1, ListShifted
  <2>3. CASE ~Has(l, e.key)
    BY <1>5, <2>3, RowsByOp DEF Moved
  <2>4. QED
    BY <2>2, <2>3
<1>6. CASE e.op = "replace"
  <2>1. e.row \in Row /\ e.row.key = e.key
    BY <1>6, PatchFields
  <2>2. QED
    BY <1>2, <1>6, <2>1, RowsByOp, ReplacedIs, ListReplaced DEF q
<1>7. QED
  BY <1>3, <1>4, <1>5, <1>6, PatchFields

\* A patch leaves the rows of a page rows.
LEMMA StaysRows ==
  ASSUME NEW l \in Seq(Row), NEW e \in Patch
  PROVE  ApplyToDom(l, e) \in Seq(Row)
<1> DEFINE q == IndexOf(l, e.key)
<1>1. Has(l, e.key) => q \in 1..Len(l)
  BY IndexFound
<1> HIDE DEF q
<1>2. CASE e.op = "insert"
  <2>1. e.to \in Nat \ {0} /\ e.row \in Row
    BY <1>2, PatchFields
  <2>2. Spliced(l, e.to, e.row) \in Seq(Row)
    BY <2>1, SplicedAt
  <2>3. QED
    BY <1>2, <2>2, DomByOp
<1>3. CASE e.op # "insert" /\ ~Has(l, e.key)
  BY <1>3, DomByOp
<1>4. CASE e.op = "remove" /\ Has(l, e.key)
  <2>1. RemoveAt(l, q) \in Seq(Row)
    BY <1>1, <1>4, RemovedAt
  <2>2. QED
    BY <1>4, <2>1, DomByOp DEF q
<1>5. CASE e.op = "move" /\ Has(l, e.key)
  <2>1. e.to \in Nat \ {0}
    BY <1>5, PatchFields
  <2>2. Shifted(l, q, e.to) \in Seq(Row)
    BY <1>1, <1>5, <2>1, ShiftedAt
  <2>3. QED
    BY <1>5, <2>2, DomByOp DEF q
<1>6. CASE e.op = "replace" /\ Has(l, e.key)
  <2>1. e.row \in Row
    BY <1>6, PatchFields
  <2>2. ReplaceAt(l, q, e.row) \in Seq(Row)
    BY <1>1, <1>6, <2>1 DEF ReplaceAt
  <2>3. QED
    BY <1>6, <2>2, DomByOp DEF q
<1>7. QED
  BY <1>2, <1>3, <1>4, <1>5, <1>6, PatchFields

\* What an insert brings is not there yet, and what another patch names is.
Fits(l, e) == (e.op = "insert") = ~Has(l, e.key)

\* A patch that fits does to a page what it does to an array.
LEMMA SameOnLists ==
  ASSUME NEW l, IsList(l), NEW e \in Patch, Fits(l, e)
  PROVE  ApplyToDom(l, e) = ApplyToRows(l, e)
<1>1. CASE e.op = "insert"
  BY <1>1, DomByOp, RowsByOp DEF Fits, Inserted
<1>2. CASE e.op = "remove"
  BY <1>2, DomByOp, RowsByOp, RemovedIs DEF Fits
<1>3. CASE e.op = "move"
  BY <1>3, DomByOp, RowsByOp DEF Fits, Moved
<1>4. CASE e.op = "replace"
  BY <1>4, DomByOp, RowsByOp, ReplacedIs DEF Fits
<1>5. QED
  BY <1>1, <1>2, <1>3, <1>4, PatchFields

-----------------------------------------------------------------------------
(* The way a diff leads.                                                   *)

\* path are the lists on the way from l to m, patch after patch of s; each
\* patch fits the list it is for.
Path(path, l, s, m) ==
  /\ path \in [0..Len(s) -> Seq(Row)]
  /\ path[0] = l
  /\ \A i \in 1..Len(s) : /\ Fits(path[i - 1], s[i])
                          /\ path[i] = ApplyToRows(path[i - 1], s[i])
  /\ path[Len(s)] = m

\* The patches s lead from l to m.
Leads(l, s, m) == s \in Seq(Patch) /\ \E path : Path(path, l, s, m)

\* All lists on the way from a list are lists.
LEMMA PathOfLists ==
  ASSUME NEW l, IsList(l), NEW m, NEW s \in Seq(Patch), NEW path, Path(path, l, s, m)
  PROVE  \A i \in 0..Len(s) : IsList(path[i])
<1> DEFINE S == {i \in 0..Len(s) : IsList(path[i])}
<1>1. PICK N \in Nat : N = Len(s)
  OBVIOUS
<1>2. ASSUME NEW i \in 1..N, i - 1 \in S
      PROVE  i \in S
  <2>1. IsList(path[i - 1]) /\ s[i] \in Patch /\ path[i] = ApplyToRows(path[i - 1], s[i])
    BY <1>1, <1>2 DEF Path
  <2>2. IsList(path[i])
    BY <2>1, StaysList
  <2>3. QED
    BY <1>1, <2>2
<1>3. 0 \in S
  BY DEF Path
<1>4. Climbs(S, N)
  BY <1>2, <1>3 DEF Climbs
<1> HIDE DEF S
<1>5. 0..N \subseteq S
  BY <1>4, UpTo
<1>6. QED
  BY <1>1, <1>5 DEF S

\* No patch leads nowhere.
LEMMA LeadsNone ==
  ASSUME NEW l, IsList(l)
  PROVE  Leads(l, <<>>, l)
<1> DEFINE s == <<>>
           path == [i \in 0..0 |-> l]
<1>1. s \in Seq(Patch) /\ Len(s) = 0
  OBVIOUS
<1>2. path \in [0..0 -> Seq(Row)] /\ path[0] = l
  BY DEF IsList
<1> HIDE DEF s, path
<1>3. Path(path, l, s, l)
  BY <1>1, <1>2 DEF Path
<1>4. QED
  BY <1>1, <1>3 DEF Leads, s

\* A patch that fits leads to what it makes of the list.
LEMMA LeadsOne ==
  ASSUME NEW l, IsList(l), NEW e \in Patch, Fits(l, e), NEW m, m = ApplyToRows(l, e)
  PROVE  Leads(l, <<e>>, m)
<1> DEFINE s == <<e>>
           path == [i \in 0..1 |-> IF i = 0 THEN l ELSE m]
<1>1. s \in Seq(Patch) /\ Len(s) = 1 /\ s[1] = e
  OBVIOUS
<1>2. l \in Seq(Row) /\ m \in Seq(Row)
  BY StaysList DEF IsList
<1>3. path \in [0..1 -> Seq(Row)] /\ path[0] = l /\ path[1] = m
  BY <1>2
<1> HIDE DEF s, path
<1>4. \A i \in 1..Len(s) : i = 1
  BY <1>1
<1>5. Path(path, l, s, m)
  BY <1>1, <1>3, <1>4 DEF Path
<1>6. QED
  BY <1>1, <1>5 DEF Leads, s

\* Patches that lead from l to m and patches that lead on from m make one diff.
LEMMA LeadsOn ==
  ASSUME NEW l, NEW s, NEW m, NEW t, NEW n, Leads(l, s, m), Leads(m, t, n)
  PROVE  Leads(l, s \o t, n)
<1>1. PICK a : Path(a, l, s, m)
  BY DEF Leads
<1>2. PICK b : Path(b, m, t, n)
  BY DEF Leads
<1>3. s \in Seq(Patch) /\ t \in Seq(Patch)
  BY DEF Leads
<1>4. PICK M \in Nat, N \in Nat : M = Len(s) /\ N = Len(t)
  BY <1>3
<1> DEFINE u == s \o t
           path == [i \in 0..(M + N) |-> IF i <= M THEN a[i] ELSE b[i - M]]
<1>5. /\ u \in Seq(Patch) /\ Len(u) = M + N
      /\ \A i \in 1..(M + N) : u[i] = IF i <= M THEN s[i] ELSE t[i - M]
  BY <1>3, <1>4, ConcatProperties
<1> HIDE DEF u
<1>6. /\ a \in [0..M -> Seq(Row)] /\ a[0] = l /\ a[M] = m
      /\ \A i \in 1..M : Fits(a[i - 1], s[i]) /\ a[i] = ApplyToRows(a[i - 1], s[i])
  BY <1>1, <1>4 DEF Path
<1>7. /\ b \in [0..N -> Seq(Row)] /\ b[0] = m /\ b[N] = n
      /\ \A i \in 1..N : Fits(b[i - 1], t[i]) /\ b[i] = ApplyToRows(b[i - 1], t[i])
  BY <1>2, <1>4 DEF Path
<1>8. \A i \in 0..M : path[i] = a[i]
  BY <1>4
<1>9. \A i \in 0..N : path[M + i] = b[i]
  BY <1>4, <1>6, <1>7
<1>10. path \in [0..(M + N) -> Seq(Row)]
  <2>1. ASSUME NEW i \in 0..(M + N)
        PROVE  path[i] \in Seq(Row)
    <3>1. CASE i <= M
      BY <1>4, <1>6, <1>8, <3>1
    <3>2. CASE i > M
      <4>1. i - M \in 0..N
        BY <1>4, <3>2
      <4>2. QED
        BY <1>4, <1>7, <3>2, <4>1
    <3>3. QED
      BY <1>4, <3>1, <3>2
  <2>2. QED
    BY <2>1
<1> HIDE DEF path
<1>11. ASSUME NEW i \in 1..(M + N)
       PROVE  Fits(path[i - 1], u[i]) /\ path[i] = ApplyToRows(path[i - 1], u[i])
  <2>1. CASE i <= M
    <3>1. path[i] = a[i] /\ path[i - 1] = a[i - 1] /\ u[i] = s[i]
      BY <1>4, <1>5, <1>8, <2>1
    <3>2. QED
      BY <1>6, <2>1, <3>1
  <2>2. CASE i > M
    <3>1. i - M \in 1..N /\ M + (i - M) = i /\ M + (i - M - 1) = i - 1
      BY <1>4, <2>2
    <3>2. path[i] = b[i - M] /\ path[i - 1] = b[i - M - 1] /\ u[i] = t[i - M]
      BY <1>4, <1>5, <1>9, <2>2, <3>1, SMTT(30)
    <3>3. QED
      BY <1>7, <3>1, <3>2
  <2>3. QED
    BY <1>4, <2>1, <2>2
<1>12. path[0] = l /\ path[M + N] = n
  BY <1>4, <1>6, <1>7, <1>8, <1>9
<1>13. Path(path, l, u, n)
  BY <1>5, <1>10, <1>11, <1>12 DEF Path
<1>14. QED
  BY <1>5, <1>13 DEF Leads, u

\* A loop that emits out[i] on its way from L[i - 1] to L[i].
LEMMA LeadsLoop ==
  ASSUME NEW N \in Nat, NEW L, IsList(L[0]),
         NEW out \in Seq(Seq(Patch)), Len(out) = N,
         \A i \in 1..N : Leads(L[i - 1], out[i], L[i])
  PROVE  Leads(L[0], FlattenSeq(out), L[N])
<1>1. PICK f : Gathers(f, out, Patch)
  BY Flattened
<1>2. /\ f[0] = <<>> /\ FlattenSeq(out) = f[N]
      /\ \A i \in 1..N : f[i] = f[i - 1] \o out[i]
  BY <1>1 DEF Gathers
<1> DEFINE S == {i \in 0..N : Leads(L[0], f[i], L[i])}
<1>3. 0 \in S
  BY <1>2, LeadsNone
<1>4. ASSUME NEW i \in 1..N, i - 1 \in S
      PROVE  i \in S
  <2>1. Leads(L[0], f[i - 1] \o out[i], L[i])
    BY <1>4, LeadsOn
  <2>2. f[i] = f[i - 1] \o out[i] /\ i \in 0..N
    BY <1>2
  <2>3. Leads(L[0], f[i], L[i])
    BY <2>1, <2>2
  <2>4. QED
    BY <2>2, <2>3
<1>5. N \in S
  <2>1. Climbs(S, N)
    BY <1>3, <1>4 DEF Climbs
  <2> HIDE DEF S
  <2>2. QED
    BY <2>1, UpTo
<1>6. QED
  BY <1>2, <1>5

\* A loop that emits one element or none at each of its N steps.
LEMMA Emitted ==
  ASSUME NEW T, NEW N \in Nat, NEW out, DOMAIN out = 1..N, out = [i \in DOMAIN out |-> out[i]],
         \A i \in 1..N : out[i] = <<>> \/ \E e \in T : out[i] = <<e>>
  PROVE  out \in Seq(Seq(T)) /\ Len(out) = N
<1>1. ASSUME NEW i \in 1..N
      PROVE  out[i] \in Seq(T)
  <2>1. CASE out[i] = <<>>
    BY <2>1
  <2>2. CASE \E e \in T : out[i] = <<e>>
    <3>1. PICK e \in T : out[i] = <<e>>
      BY <2>2
    <3>2. <<e>> \in Seq(T)
      OBVIOUS
    <3>3. QED
      BY <3>1, <3>2
  <2>3. QED
    BY <2>1, <2>2
<1>2. out \in [1..N -> Seq(T)]
  BY <1>1
<1>3. QED
  BY <1>2, SeqDef, LenProperties

-----------------------------------------------------------------------------
(* The removals.                                                           *)

\* The rows that stay.
Kept(p, n) == Picked(p, {j \in DOMAIN p : Has(n, p[j].key)})

\* Keys are picked as rows are.
LEMMA KeysPicked ==
  ASSUME NEW l \in Seq(Row), NEW P
  PROVE  KeysOf(Picked(l, P)) = Picked(KeysOf(l), P)
<1>1. PICK N \in Nat : N = Len(l)
  OBVIOUS
<1>2. /\ KeysOf(l) \in Seq(Keys) /\ Len(KeysOf(l)) = N
      /\ \A i \in 1..N : KeysOf(l)[i] = l[i].key
  BY <1>1, KeysAt
<1>3. PICK f : Picks(f, l, P, Row)
  BY PickedFrom
<1>4. PICK g : Picks(g, KeysOf(l), P, Keys)
  BY <1>2, PickedFrom
<1>5. /\ f \in [0..N -> Seq(Row)] /\ f[0] = <<>> /\ Picked(l, P) = f[N]
      /\ \A i \in 1..N : /\ i \in P => f[i] = f[i - 1] \o <<l[i]>>
                         /\ i \notin P => f[i] = f[i - 1]
  BY <1>1, <1>3 DEF Picks
<1>6. /\ g \in [0..N -> Seq(Keys)] /\ g[0] = <<>> /\ Picked(KeysOf(l), P) = g[N]
      /\ \A i \in 1..N : /\ i \in P => g[i] = g[i - 1] \o <<KeysOf(l)[i]>>
                         /\ i \notin P => g[i] = g[i - 1]
  BY <1>2, <1>4 DEF Picks
<1> DEFINE S == {i \in 0..N : KeysOf(f[i]) = g[i]}
<1>7. 0 \in S
  <2>1. KeysOf(<<>>) = <<>>
    BY DEF KeysOf
  <2>2. QED
    BY <1>5, <1>6, <2>1
<1>8. ASSUME NEW i \in 1..N, i - 1 \in S
      PROVE  i \in S
  <2> DEFINE a == f[i - 1]
             b == f[i]
             c == g[i - 1]
             d == g[i]
  <2>1. a \in Seq(Row) /\ c \in Seq(Keys) /\ KeysOf(a) = c
    BY <1>5, <1>6, <1>8
  <2>2. CASE i \notin P
    <3>1. b = a /\ d = c
      BY <1>5, <1>6, <2>2
    <3>2. QED
      BY <2>1, <3>1
  <2>3. CASE i \in P
    <3>1. b = a \o <<l[i]>> /\ d = c \o <<l[i].key>>
      BY <1>2, <1>5, <1>6, <2>3
    <3>2. l[i] \in Row
      BY <1>1
    <3>3. l[i].key \in Keys
      BY <3>2 DEF Row
    <3> HIDE DEF a, b, c, d
    <3>4. /\ b \in Seq(Row) /\ Len(b) = Len(a) + 1
          /\ \A x \in 1..Len(a) : b[x] = a[x]
          /\ b[Len(a) + 1] = l[i]
      BY <2>1, <3>1, <3>2, Appended
    <3>5. /\ d \in Seq(Keys) /\ Len(d) = Len(c) + 1
          /\ \A x \in 1..Len(c) : d[x] = c[x]
          /\ d[Len(c) + 1] = l[i].key
      BY <2>1, <3>1, <3>3, Appended
    <3>6. Len(c) = Len(a) /\ \A x \in 1..Len(a) : c[x] = a[x].key
      BY <2>1, KeysAt
    <3>7. /\ KeysOf(b) \in Seq(Keys) /\ Len(KeysOf(b)) = Len(b)
          /\ \A x \in 1..Len(b) : KeysOf(b)[x] = b[x].key
      BY <3>4, KeysAt
    <3>8. ASSUME NEW x \in 1..Len(b)
          PROVE  KeysOf(b)[x] = d[x]
      <4>1. x \in 1..Len(a) \/ x = Len(a) + 1
        BY <2>1, <3>4
      <4>2. QED
        BY <3>4, <3>5, <3>6, <3>7, <4>1
    <3>9. KeysOf(b) = d
      BY <3>4, <3>5, <3>6, <3>7, <3>8, SameSeq
    <3>10. QED
      BY <3>9 DEF b, d
  <2>4. QED
    BY <2>2, <2>3
<1>9. N \in S
  <2>1. Climbs(S, N)
    BY <1>7, <1>8 DEF Climbs
  <2> HIDE DEF S
  <2>2. QED
    BY <2>1, UpTo
<1>10. QED
  BY <1>5, <1>6, <1>9

\* What is kept: the rows of p whose key is in n, in their order.
LEMMA KeptRows ==
  ASSUME NEW p, IsList(p), NEW n
  PROVE  /\ IsList(Kept(p, n))
         /\ \A r : r \in Range(Kept(p, n)) <=> r \in Range(p) /\ Has(n, r.key)
         /\ \A j, k : Before(Kept(p, n), j, k) => Before(p, j, k)
         /\ KeysOf(Kept(p, n)) =
              Picked(KeysOf(p), {j \in DOMAIN p : Has(n, p[j].key)})
<1> DEFINE P == {j \in DOMAIN p : Has(n, p[j].key)}
           m == Kept(p, n)
<1>1. p \in Seq(Row) /\ DOMAIN p = 1..Len(p)
  BY DEF IsList
<1>2. m = Picked(p, P)
  BY DEF Kept
<1> HIDE DEF m
<1>3. \A i \in 1..Len(p) : i \in P <=> Has(n, p[i].key)
  BY <1>1
<1>4. KeysOf(m) = Picked(KeysOf(p), P)
  <2> HIDE DEF P
  <2>1. QED
    BY <1>1, <1>2, KeysPicked
<1>5. /\ IsList(m) /\ Range(m) = {p[i] : i \in P \cap (1..Len(p))}
      /\ \A j, k : Before(m, j, k) => Before(p, j, k)
  <2> HIDE DEF P
  <2>1. QED
    BY <1>2, ListPicked
<1>6. \A r : r \in Range(p) <=> \E i \in 1..Len(p) : p[i] = r
  BY <1>1 DEF Range
<1>7. \A r : r \in Range(m) <=> r \in Range(p) /\ Has(n, r.key)
  <2> HIDE DEF P
  <2>1. QED
    BY <1>3, <1>5, <1>6
<1>8. QED
  BY <1>4, <1>5, <1>7 DEF m

\* m is h and what p has after position i.
IsWithRest(m, h, p, i) ==
  /\ m \in Seq(Row)
  /\ Len(m) = Len(h) + Len(p) - i
  /\ \A x \in 1..(Len(h) + Len(p) - i) : /\ x <= Len(h) => m[x] = h[x]
                                         /\ x > Len(h) => m[x] = p[i + x - Len(h)]

\* The concatenation is that sequence.
LEMMA WithRest ==
  ASSUME NEW h \in Seq(Row), NEW p \in Seq(Row), NEW i \in 0..Len(p)
  PROVE  IsWithRest(h \o SubSeq(p, i + 1, Len(p)), h, p, i)
<1> DEFINE r == SubSeq(p, i + 1, Len(p))
           m == h \o r
<1>1. i + 1 \in 1..(Len(p) + 1) /\ Len(p) \in ((i + 1) - 1)..Len(p)
  OBVIOUS
<1>2. /\ r \in Seq(Row) /\ Len(r) = Len(p) - (i + 1) + 1
      /\ \A x \in 1..(Len(p) - (i + 1) + 1) : r[x] = p[(i + 1) + x - 1]
  BY <1>1, PartOf
<1> HIDE DEF r
<1>3. /\ m \in Seq(Row) /\ Len(m) = Len(h) + Len(r)
      /\ \A x \in 1..(Len(h) + Len(r)) : m[x] = IF x <= Len(h) THEN h[x] ELSE r[x - Len(h)]
  BY <1>2, ConcatProperties
<1>4. Len(r) = Len(p) - i
  BY <1>2
<1> HIDE DEF m
<1>5. ASSUME NEW x \in 1..(Len(h) + Len(p) - i)
      PROVE  /\ x <= Len(h) => m[x] = h[x]
             /\ x > Len(h) => m[x] = p[i + x - Len(h)]
  <2>1. m[x] = IF x <= Len(h) THEN h[x] ELSE r[x - Len(h)]
    BY <1>3, <1>4
  <2>2. CASE x > Len(h)
    <3>1. x - Len(h) \in 1..(Len(p) - (i + 1) + 1) /\ (i + 1) + (x - Len(h)) - 1 = i + x - Len(h)
      BY <2>2
    <3>2. r[x - Len(h)] = p[(i + 1) + (x - Len(h)) - 1]
      BY <1>2, <3>1
    <3>3. QED
      BY <2>1, <2>2, <3>1, <3>2
  <2>3. QED
    BY <2>1, <2>2
<1>6. IsWithRest(m, h, p, i)
  BY <1>3, <1>4, <1>5 DEF IsWithRest
<1>7. QED
  BY <1>6 DEF m, r

\* The row after h in l is row i of p: it is taken out, or counted to h.
RestSteps(l, h, p, i) ==
  /\ Len(h) + 1 \in 1..Len(l)
  /\ l[Len(h) + 1] = p[i]
  /\ RemoveAt(l, Len(h) + 1) = h \o SubSeq(p, i + 1, Len(p))
  /\ l = (h \o <<p[i]>>) \o SubSeq(p, i + 1, Len(p))

\* The loop over p finds its row right after those it has kept.
LEMMA RestStep ==
  ASSUME NEW h \in Seq(Row), NEW p \in Seq(Row), NEW i \in 1..Len(p),
         NEW l, l = h \o SubSeq(p, i, Len(p))
  PROVE  RestSteps(l, h, p, i)
<1>1. PICK N \in Nat, H \in Nat, c \in Nat : N = Len(p) /\ H = Len(h) /\ c = H + 1
  OBVIOUS
<1>2. PICK m, g, k, r : /\ m = h \o SubSeq(p, i + 1, Len(p))
                        /\ g = h \o <<p[i]>>
                        /\ k = g \o SubSeq(p, i + 1, Len(p))
                        /\ r = RemoveAt(l, c)
  OBVIOUS
<1>3. i \in 1..N /\ i \in 0..Len(p) /\ p[i] \in Row
  BY <1>1
<1>4. /\ l \in Seq(Row) /\ Len(l) = H + N - i + 1
      /\ \A x \in 1..(H + N - i + 1) : /\ x <= H => l[x] = h[x]
                                       /\ x > H => l[x] = p[i + x - H - 1]
  <2>1. i - 1 \in 0..Len(p) /\ l = h \o SubSeq(p, (i - 1) + 1, Len(p))
    BY <1>1, <1>3
  <2>2. IsWithRest(l, h, p, i - 1)
    BY <2>1, WithRest
  <2>3. H + N - i + 1 = Len(h) + Len(p) - (i - 1)
    BY <1>1, <1>3
  <2>4. \A x \in 1..(H + N - i + 1) : (i - 1) + x - H = i + x - H - 1
    BY <1>1, <1>3
  <2>5. QED
    BY <1>1, <2>2, <2>3, <2>4 DEF IsWithRest
<1>5. /\ m \in Seq(Row) /\ Len(m) = H + N - i
      /\ \A x \in 1..(H + N - i) : /\ x <= H => m[x] = h[x]
                                   /\ x > H => m[x] = p[i + x - H]
  BY <1>1, <1>2, <1>3, WithRest DEF IsWithRest
<1>6. /\ g \in Seq(Row) /\ Len(g) = c
      /\ \A x \in 1..H : g[x] = h[x]
      /\ g[c] = p[i]
  BY <1>1, <1>2, <1>3, Appended
<1>7. /\ k \in Seq(Row) /\ Len(k) = c + N - i
      /\ \A x \in 1..(c + N - i) : /\ x <= c => k[x] = g[x]
                                   /\ x > c => k[x] = p[i + x - c]
  <2>1. IsWithRest(k, g, p, i)
    BY <1>2, <1>3, <1>6, WithRest
  <2>2. QED
    BY <1>1, <1>6, <2>1 DEF IsWithRest
<1>8. c \in 1..Len(l) /\ l[c] = p[i]
  <2>1. c \in 1..(H + N - i + 1) /\ c > H /\ i + c - H - 1 = i
    BY <1>1, <1>3
  <2>2. QED
    BY <1>4, <2>1
<1>9. /\ r \in Seq(Row) /\ Len(r) = Len(l) - 1
      /\ \A x \in 1..(Len(l) - 1) : (x < c => r[x] = l[x]) /\ (x >= c => r[x] = l[x + 1])
  <2>1. l \in Seq(Row) /\ c \in 1..Len(l)
    BY <1>4, <1>8
  <2>2. /\ RemoveAt(l, c) \in Seq(Row) /\ Len(RemoveAt(l, c)) = Len(l) - 1
        /\ \A x \in 1..(Len(l) - 1) : /\ x < c => RemoveAt(l, c)[x] = l[x]
                                      /\ x >= c => RemoveAt(l, c)[x] = l[x + 1]
    BY <2>1, RemovedAt
  <2>3. QED
    BY <1>2, <2>2
<1>10. r = m
  <2>1. Len(r) = Len(m) /\ Len(l) - 1 = H + N - i
    BY <1>1, <1>3, <1>4, <1>5, <1>9
  <2>2. ASSUME NEW x \in 1..(H + N - i)
        PROVE  r[x] = m[x]
    <3>1. x \in 1..(H + N - i + 1) /\ x + 1 \in 1..(H + N - i + 1)
      BY <1>1, <1>3
    <3>2. CASE x <= H
      <4>1. r[x] = l[x]
        <5>1. x \in 1..(Len(l) - 1) /\ x < c
          BY <1>1, <1>3, <2>1, <3>2
        <5>2. QED
          BY <1>9, <5>1
      <4>2. QED
        BY <1>4, <1>5, <3>1, <3>2, <4>1
    <3>3. CASE x > H
      <4>1. r[x] = l[x + 1]
        <5>1. x \in 1..(Len(l) - 1) /\ x >= c
          BY <1>1, <1>3, <2>1, <3>3
        <5>2. QED
          BY <1>9, <5>1
      <4>2. x + 1 > H /\ i + (x + 1) - H - 1 = i + x - H
        BY <1>1, <1>3, <3>3
      <4>3. l[x + 1] = p[i + (x + 1) - H - 1]
        BY <1>4, <3>1, <4>2
      <4>4. QED
        BY <1>5, <3>3, <4>1, <4>2, <4>3
    <3>4. QED
      BY <1>1, <3>2, <3>3
  <2>3. QED
    BY <1>5, <1>9, <2>1, <2>2, SameSeq
<1>11. l = k
  <2>1. Len(l) = Len(k) /\ c + N - i = H + N - i + 1
    BY <1>1, <1>3, <1>4, <1>7
  <2>2. ASSUME NEW x \in 1..(H + N - i + 1)
        PROVE  l[x] = k[x]
    <3>1. CASE x <= H
      <4>1. x \in 1..H /\ x <= c
        BY <1>1, <3>1
      <4>2. k[x] = g[x]
        BY <1>7, <2>1, <4>1
      <4>3. QED
        BY <1>4, <1>6, <3>1, <4>1, <4>2
    <3>2. CASE x = c
      <4>1. k[x] = g[x]
        BY <1>1, <1>7, <2>1, <3>2
      <4>2. QED
        BY <1>6, <1>8, <3>2, <4>1
    <3>3. CASE x > c
      <4>1. x > H /\ i + x - H - 1 = i + x - c
        BY <1>1, <1>3, <3>3
      <4>2. l[x] = p[i + x - H - 1] /\ k[x] = p[i + x - c]
        BY <1>4, <1>7, <2>1, <3>3, <4>1
      <4>3. QED
        BY <4>1, <4>2
    <3>4. x \in Nat /\ c = H + 1 /\ H \in Nat
      BY <1>1, <1>3
    <3>5. x <= H \/ x = c \/ x > c
      BY <3>4
    <3>6. QED
      BY <3>1, <3>2, <3>3, <3>5
  <2>3. QED
    BY <1>4, <1>7, <2>1, <2>2, SameSeq
<1>12. QED
  BY <1>1, <1>2, <1>8, <1>10, <1>11 DEF RestSteps

\* The removals lead from the old list to the rows that stay.
LEMMA RemovalsLead ==
  ASSUME NEW p, IsList(p), NEW n
  PROVE  Leads(p, Removals(p, n), Kept(p, n))
<1> DEFINE P == {j \in DOMAIN p : Has(n, p[j].key)}
<1>1. p \in Seq(Row) /\ DOMAIN p = 1..Len(p) /\ Len(p) \in Nat
  BY DEF IsList
<1>2. PICK N \in Nat : N = Len(p)
  BY <1>1
<1>3. \A i \in 1..N : i \in P <=> Has(n, p[i].key)
  BY <1>1, <1>2
<1>4. Kept(p, n) = Picked(p, P)
  BY DEF Kept
<1> HIDE DEF P
<1>5. PICK f : Picks(f, p, P, Row)
  BY <1>1, PickedFrom
<1>6. /\ f \in [0..N -> Seq(Row)] /\ f[0] = <<>> /\ Kept(p, n) = f[N]
      /\ \A i \in 1..N : /\ i \in P => f[i] = f[i - 1] \o <<p[i]>>
                         /\ i \notin P => f[i] = f[i - 1]
  BY <1>2, <1>4, <1>5 DEF Picks
<1> DEFINE To(i) == f[i] \o SubSeq(p, i + 1, N)
           L == [i \in 0..N |-> To(i)]
           e(i) == [op |-> "remove", key |-> p[i].key]
           None == <<>>
           Some(i) == <<e(i)>>
           out == [i \in DOMAIN p |-> IF Has(n, p[i].key) THEN None ELSE Some(i)]
<1>7. L[0] = p
  <2>1. <<>> \o SubSeq(p, 1, N) = p
    <3>1. SubSeq(p, 1, Len(p)) = p
      <4>1. 1 \in 1..(Len(p) + 1) /\ Len(p) \in (1 - 1)..Len(p)
        BY <1>1
      <4>2. /\ SubSeq(p, 1, Len(p)) \in Seq(Row) /\ Len(SubSeq(p, 1, Len(p))) = Len(p) - 1 + 1
            /\ \A x \in 1..(Len(p) - 1 + 1) : SubSeq(p, 1, Len(p))[x] = p[1 + x - 1]
        BY <1>1, <4>1, PartOf
      <4>3. Len(p) - 1 + 1 = Len(p) /\ \A x \in 1..Len(p) : 1 + x - 1 = x
        BY <1>1
      <4>4. QED
        BY <1>1, <4>2, <4>3, SameSeq
    <3>2. QED
      BY <1>1, <1>2, <3>1, ConcatEmptySeq
  <2>2. L[0] = To(0)
    <3> HIDE DEF To
    <3>1. QED
      OBVIOUS
  <2>3. To(0) = f[0] \o SubSeq(p, 1, N)
    <3>1. PICK z \in 0..N : z = 0 /\ z + 1 = 1
      OBVIOUS
    <3>2. QED
      BY <3>1
  <2>4. QED
    BY <1>6, <2>1, <2>2, <2>3
<1>8. L[N] = Kept(p, n)
  <2> DEFINE r == SubSeq(p, N + 1, N)
  <2>1. r \in Seq(Row) /\ Len(r) = 0
    <3>1. N + 1 \in 1..(Len(p) + 1) /\ N \in ((N + 1) - 1)..Len(p)
      BY <1>2
    <3>2. r \in Seq(Row) /\ Len(r) = N - (N + 1) + 1
      BY <1>1, <3>1, PartOf
    <3>3. QED
      BY <1>2, <3>2
  <2> HIDE DEF r
  <2>2. r = <<>>
    BY <2>1, EmptySeq
  <2>3. L[N] = f[N] \o r
    BY DEF r
  <2>4. QED
    BY <1>6, <2>2, <2>3, ConcatEmptySeq
<1>9. ASSUME NEW i \in 1..N
      PROVE  \/ i \in P /\ L[i] = L[i - 1]
             \/ /\ i \notin P
                /\ Len(f[i - 1]) + 1 \in 1..Len(L[i - 1])
                /\ L[i - 1][Len(f[i - 1]) + 1] = p[i]
                /\ L[i] = RemoveAt(L[i - 1], Len(f[i - 1]) + 1)
  <2> DEFINE h == f[i - 1]
             l == L[i - 1]
  <2>1. h \in Seq(Row) /\ i \in 1..Len(p) /\ l = h \o SubSeq(p, i, Len(p))
    <3>1. i - 1 \in 0..N /\ (i - 1) + 1 = i
      BY <1>2
    <3>2. l = To(i - 1)
      BY <3>1
    <3>3. QED
      BY <1>2, <1>6, <3>1, <3>2
  <2>2. L[i] = f[i] \o SubSeq(p, i + 1, Len(p))
    BY <1>2
  <2>3. /\ i \in P => f[i] = h \o <<p[i]>>
        /\ i \notin P => f[i] = h
    BY <1>6
  <2> HIDE DEF L, h, l
  <2>4. RestSteps(l, h, p, i)
    BY <1>1, <2>1, RestStep
  <2>5. QED
    BY <2>2, <2>3, <2>4 DEF h, l, RestSteps
<1> HIDE DEF To, L
<1>10. \A i \in 0..N : IsList(L[i])
  <2> DEFINE S == {i \in 0..N : IsList(L[i])}
  <2>1. ASSUME NEW i \in 1..N, i - 1 \in S
        PROVE  i \in S
    <3>1. IsList(L[i - 1])
      BY <2>1
    <3>2. IsList(L[i])
      BY <1>9, <3>1, ListRemoved
    <3>3. QED
      BY <3>2
  <2>2. Climbs(S, N)
    BY <1>7, <2>1 DEF Climbs
  <2> HIDE DEF S
  <2>3. 0..N \subseteq S
    BY <2>2, UpTo
  <2>4. QED
    BY <2>3 DEF S
<1>11. Removals(p, n) = FlattenSeq(out)
  BY DEF Removals
<1>12. \A i \in 1..N : e(i) \in Patch
  <2>1. \A i \in 1..N : p[i].key \in Keys
    <3>1. \A i \in 1..N : p[i] \in Row
      BY <1>1, <1>2
    <3>2. QED
      BY <3>1 DEF Row
  <2>2. QED
    BY <2>1 DEF Patch
<1>13. DOMAIN out = 1..N /\ out = [i \in DOMAIN out |-> out[i]]
  BY <1>1, <1>2
<1>14. \A i \in 1..N : out[i] = IF Has(n, p[i].key) THEN None ELSE Some(i)
  BY <1>1, <1>2
<1> HIDE DEF out
<1>15. out \in Seq(Seq(Patch)) /\ Len(out) = N
  <2>1. \A i \in 1..N : out[i] = <<>> \/ \E z \in Patch : out[i] = <<z>>
    BY <1>12, <1>14
  <2>2. QED
    BY <1>13, <2>1, Emitted
<1>16. ASSUME NEW i \in 1..N
       PROVE  Leads(L[i - 1], out[i], L[i])
  <2> DEFINE l == L[i - 1]
             z == e(i)
             q == Len(f[i - 1]) + 1
  <2>1. IsList(l) /\ l \in Seq(Row)
    BY <1>10 DEF IsList
  <2>2. CASE i \in P
    <3>1. out[i] = <<>> /\ L[i] = l
      BY <1>3, <1>9, <1>14, <2>2
    <3>2. QED
      BY <2>1, <3>1, LeadsNone
  <2>3. CASE i \notin P
    <3>1. out[i] = <<z>>
      BY <1>3, <1>14, <2>3
    <3>2. z \in Patch /\ z.op = "remove" /\ z.key = p[i].key
      BY <1>12
    <3> HIDE DEF l, z, e
    <3>3. q \in 1..Len(l) /\ l[q] = p[i] /\ L[i] = RemoveAt(l, q)
      BY <1>9, <2>3 DEF l
    <3> HIDE DEF q
    <3>4. Has(l, z.key) /\ IndexOf(l, z.key) = q
      BY <2>1, <3>2, <3>3, IndexIn
    <3>5. L[i] = ApplyToRows(l, z)
      BY <2>1, <3>2, <3>3, <3>4, RowsByOp, RemovedIs
    <3>6. Fits(l, z)
      BY <3>2, <3>4 DEF Fits
    <3>7. Leads(l, <<z>>, L[i])
      BY <2>1, <3>2, <3>5, <3>6, LeadsOne
    <3>8. QED
      BY <3>1, <3>7 DEF l
  <2>4. QED
    BY <2>2, <2>3
<1>17. QED
  <2>1. IsList(L[0])
    BY <1>10
  <2>2. Leads(L[0], FlattenSeq(out), L[N])
    BY <1>15, <1>16, <2>1, LeadsLoop
  <2>3. QED
    BY <1>7, <1>8, <1>11, <2>2

-----------------------------------------------------------------------------
(* The insertions.                                                         *)

\* The lists on the way: the rows that stay, and the rows that are new as far
\* as position i of n.
Inserting(V, p, n) ==
  /\ V[0] = Kept(p, n)
  /\ \A i \in 1..Len(n) :
       V[i] = IF Has(p, n[i].key) THEN V[i - 1] ELSE Spliced(V[i - 1], i, n[i])

\* There are such lists.
LEMMA InsertingIs ==
  ASSUME NEW p, IsList(p), NEW n, IsList(n)
  PROVE  \E V : Inserting(V, p, n)
<1> DEFINE Put(l, i) == Spliced(l, i, n[i])
           N == Len(n)
           step == [i \in 1..N |-> [l \in Seq(Row) |->
                      IF Has(p, n[i].key) THEN l ELSE Put(l, i)]]
<1>1. n \in Seq(Row) /\ N \in Nat /\ \A i \in 1..N : n[i] \in Row
  BY DEF IsList
<1>2. \A l \in Seq(Row), i \in 1..N : Put(l, i) \in Seq(Row)
  <2>1. TAKE l \in Seq(Row), i \in 1..N
  <2>2. i \in Nat \ {0} /\ n[i] \in Row
    BY <1>1
  <2>3. QED
    BY <2>2, SplicedAt
<1> HIDE DEF Put, N
<1>3. /\ step \in [1..N -> [Seq(Row) -> Seq(Row)]]
      /\ \A i \in 1..N, l \in Seq(Row) :
           step[i][l] = IF Has(p, n[i].key) THEN l ELSE Put(l, i)
  BY <1>2
<1> HIDE DEF step
<1>4. Kept(p, n) \in Seq(Row)
  BY KeptRows DEF IsList
<1>5. PICK V : Recurs(V, Seq(Row), N, Kept(p, n), step)
  BY <1>1, <1>3, <1>4, Recursion
<1>6. V \in [0..N -> Seq(Row)] /\ V[0] = Kept(p, n) /\ \A i \in 1..N : V[i] = step[i][V[i - 1]]
  BY <1>5 DEF Recurs
<1>7. ASSUME NEW i \in 1..N
      PROVE  V[i] = IF Has(p, n[i].key) THEN V[i - 1] ELSE Put(V[i - 1], i)
  <2>1. V[i - 1] \in Seq(Row)
    BY <1>1, <1>6
  <2>2. QED
    BY <1>3, <1>6, <2>1
<1>8. Inserting(V, p, n)
  BY <1>6, <1>7 DEF Inserting, Put, N
<1>9. QED
  BY <1>8

\* What is in the list at i, and in which order.
Mixed(l, p, n, i) ==
  /\ IsList(l)
  /\ \A r : r \in Range(l) <=>
       \/ r \in Range(p) /\ Has(n, r.key)
       \/ \E j \in 1..i : r = n[j] /\ ~Has(p, n[j].key)
  /\ \A j, k \in Keys : Has(p, j) /\ Has(p, k) /\ Before(l, j, k) => Before(p, j, k)

\* A new row is not in the list yet.
LEMMA NotYetIn ==
  ASSUME NEW p, IsList(p), NEW n, IsList(n), NEW i \in 1..Len(n), NEW l,
         Mixed(l, p, n, i - 1), ~Has(p, n[i].key)
  PROVE  ~Has(l, n[i].key)
<1>1. SUFFICES ASSUME Has(l, n[i].key) PROVE FALSE
  OBVIOUS
<1>2. l \in Seq(Row) /\ p \in Seq(Row) /\ n \in Seq(Row)
  BY DEF Mixed, IsList
<1>3. PICK r \in Range(l) : r.key = n[i].key
  BY <1>1, <1>2, HasRow
<1>4. CASE r \in Range(p)
  BY <1>2, <1>3, <1>4, HasRow
<1>5. CASE \E j \in 1..(i - 1) : r = n[j]
  <2>1. PICK j \in 1..(i - 1) : r = n[j]
    BY <1>5
  <2>2. j \in 1..Len(n) /\ j # i /\ n[j].key = n[i].key
    BY <1>2, <1>3, <2>1
  <2>3. QED
    BY <1>2, <2>2, ListForm
<1>6. QED
  BY <1>3, <1>4, <1>5 DEF Mixed

\* The lists on the way hold what they should.
LEMMA InsertingMixes ==
  ASSUME NEW p, IsList(p), NEW n, IsList(n), NEW V, Inserting(V, p, n)
  PROVE  \A i \in 0..Len(n) : Mixed(V[i], p, n, i)
<1> DEFINE S == {i \in 0..Len(n) : Mixed(V[i], p, n, i)}
<1>1. n \in Seq(Row) /\ Len(n) \in Nat
  BY DEF IsList
<1>2. 0 \in S
  <2>1. V[0] = Kept(p, n)
    BY DEF Inserting
  <2> DEFINE l == Kept(p, n)
  <2>2. /\ IsList(l)
        /\ \A r : r \in Range(l) <=> r \in Range(p) /\ Has(n, r.key)
        /\ \A j, k : Before(l, j, k) => Before(p, j, k)
    BY KeptRows
  <2> HIDE DEF l
  <2>3. Mixed(l, p, n, 0)
    <3>1. 1..0 = {}
      OBVIOUS
    <3>2. QED
      BY <2>2, <3>1 DEF Mixed
  <2>4. QED
    BY <1>1, <2>1, <2>3 DEF l
<1>3. ASSUME NEW i \in 1..Len(n), i - 1 \in S
      PROVE  i \in S
  <2> DEFINE l == V[i - 1]
             m == V[i]
             e == n[i]
  <2>1. Mixed(l, p, n, i - 1)
    BY <1>3
  <2>2. m = IF Has(p, e.key) THEN l ELSE Spliced(l, i, e)
    BY DEF Inserting
  <2>3. e \in Row /\ i \in Nat \ {0}
    BY <1>1
  <2> HIDE DEF l, m
  <2>4. CASE Has(p, e.key)
    <3>1. m = l /\ \A j \in 1..i : ~Has(p, n[j].key) => j \in 1..(i - 1)
      BY <2>2, <2>4
    <3>2. \A j \in 1..(i - 1) : j \in 1..i
      OBVIOUS
    <3>3. Mixed(m, p, n, i)
      BY <2>1, <3>1, <3>2 DEF Mixed
    <3>4. QED
      BY <3>3 DEF m
  <2>5. CASE ~Has(p, e.key)
    <3>1. m = Spliced(l, i, e)
      BY <2>2, <2>5
    <3>2. IsList(l) /\ ~Has(l, e.key)
      BY <2>1, <2>5, NotYetIn DEF Mixed
    <3>3. /\ IsList(m)
          /\ Range(m) = Range(l) \cup {e}
          /\ \A j, k \in Keys \ {e.key} : Before(m, j, k) => Before(l, j, k)
      BY <2>3, <3>1, <3>2, ListSpliced
    <3>4. \A r : r \in Range(m) <=>
            \/ r \in Range(p) /\ Has(n, r.key)
            \/ \E j \in 1..i : r = n[j] /\ ~Has(p, n[j].key)
      <4>1. \A r : r \in Range(m) <=>
              \/ r \in Range(p) /\ Has(n, r.key)
              \/ \E j \in 1..(i - 1) : r = n[j] /\ ~Has(p, n[j].key)
              \/ r = e
        BY <2>1, <3>3 DEF Mixed
      <4>2. \A j \in 1..i : j \in 1..(i - 1) \/ j = i
        OBVIOUS
      <4>3. \A j \in 1..(i - 1) : j \in 1..i
        OBVIOUS
      <4>4. i \in 1..i
        OBVIOUS
      <4>5. QED
        BY <2>5, <4>1, <4>2, <4>3, <4>4
    <3>5. \A j, k \in Keys : Has(p, j) /\ Has(p, k) /\ Before(m, j, k) => Before(p, j, k)
      BY <2>1, <2>5, <3>3 DEF Mixed
    <3>6. Mixed(m, p, n, i)
      BY <3>3, <3>4, <3>5 DEF Mixed
    <3>7. QED
      BY <3>6 DEF m
  <2>6. QED
    BY <2>4, <2>5
<1>4. Climbs(S, Len(n))
  BY <1>2, <1>3 DEF Climbs
<1> HIDE DEF S
<1>5. 0..Len(n) \subseteq S
  BY <1>1, <1>4, UpTo
<1>6. QED
  BY <1>5 DEF S

\* The insertions lead from the rows that stay to all rows of the new list.
LEMMA InsertionsLead ==
  ASSUME NEW p, IsList(p), NEW n, IsList(n), NEW V, Inserting(V, p, n)
  PROVE  Leads(Kept(p, n), Insertions(p, n), V[Len(n)])
<1> DEFINE N == Len(n)
           e(i) == [op |-> "insert", key |-> n[i].key, to |-> i, row |-> n[i]]
           None == <<>>
           Some(i) == <<e(i)>>
           out == [i \in DOMAIN n |-> IF Has(p, n[i].key) THEN None ELSE Some(i)]
<1>1. n \in Seq(Row) /\ DOMAIN n = 1..N /\ N \in Nat
  BY DEF IsList
<1>2. \A i \in 1..N : e(i) \in Patch
  <2>1. ASSUME NEW i \in 1..N
        PROVE  e(i) \in Patch
    <3>1. n[i] \in Row /\ i \in Nat \ {0}
      BY <1>1
    <3>2. n[i].key \in Keys
      BY <3>1 DEF Row
    <3>3. QED
      BY <3>1, <3>2 DEF Patch
  <2>2. QED
    BY <2>1
<1>3. Insertions(p, n) = FlattenSeq(out)
  BY DEF Insertions
<1> HIDE DEF N
<1>4. DOMAIN out = 1..N /\ out = [i \in DOMAIN out |-> out[i]]
  BY <1>1
<1>5. \A i \in 1..N : out[i] = IF Has(p, n[i].key) THEN None ELSE Some(i)
  BY <1>1
<1> HIDE DEF out
<1>6. out \in Seq(Seq(Patch)) /\ Len(out) = N
  <2>1. \A i \in 1..N : out[i] = <<>> \/ \E z \in Patch : out[i] = <<z>>
    BY <1>2, <1>5
  <2>2. QED
    BY <1>1, <1>4, <2>1, Emitted
<1>7. \A i \in 0..N : Mixed(V[i], p, n, i)
  BY InsertingMixes DEF N
<1>8. ASSUME NEW i \in 1..N
      PROVE  Leads(V[i - 1], out[i], V[i])
  <2> DEFINE l == V[i - 1]
             z == e(i)
  <2>1. Mixed(l, p, n, i - 1)
    BY <1>1, <1>7
  <2>2. IsList(l)
    BY <2>1 DEF Mixed
  <2>3. V[i] = IF Has(p, n[i].key) THEN l ELSE Spliced(l, i, n[i])
    BY DEF Inserting, N
  <2>4. CASE Has(p, n[i].key)
    <3>1. out[i] = <<>> /\ V[i] = l
      BY <1>5, <2>3, <2>4
    <3>2. QED
      BY <2>2, <3>1, LeadsNone
  <2>5. CASE ~Has(p, n[i].key)
    <3>1. out[i] = <<z>>
      BY <1>5, <2>5
    <3>2. z \in Patch /\ z.op = "insert" /\ z.key = n[i].key /\ z.to = i /\ z.row = n[i]
      BY <1>2
    <3> HIDE DEF l, z, e
    <3>3. ~Has(l, z.key)
      <4>1. ~Has(l, n[i].key)
        BY <2>1, <2>5, NotYetIn DEF N
      <4>2. QED
        BY <3>2, <4>1
    <3>4. V[i] = ApplyToRows(l, z)
      BY <2>3, <2>5, <3>2, <3>3, RowsByOp DEF Inserted
    <3>5. Fits(l, z)
      BY <3>2, <3>3 DEF Fits
    <3>6. Leads(l, <<z>>, V[i])
      BY <2>2, <3>2, <3>4, <3>5, LeadsOne
    <3>7. QED
      BY <3>1, <3>6 DEF l
  <2>6. QED
    BY <2>4, <2>5
<1>9. QED
  <2>1. V[0] = Kept(p, n) /\ IsList(V[0])
    <3>1. V[0] = Kept(p, n)
      BY DEF Inserting
    <3>2. IsList(Kept(p, n))
      BY KeptRows
    <3>3. QED
      BY <3>1, <3>2
  <2>2. Leads(V[0], FlattenSeq(out), V[N])
    BY <1>1, <1>6, <1>8, <2>1, LeadsLoop
  <2>3. QED
    BY <1>3, <2>1, <2>2 DEF N

-----------------------------------------------------------------------------
(* The order of the rows once they are inserted.                           *)

\* The keys of the lists on the way are the orders the code keeps.
LEMMA InsertingOrders ==
  ASSUME NEW p, IsList(p), NEW n, IsList(n), NEW V, Inserting(V, p, n)
  PROVE  KeysOf(V[Len(n)]) = VirtualOrder(p, n)
<1> DEFINE N == Len(n)
           Base == Picked(KeysOf(p), {j \in DOMAIN p : Has(n, p[j].key)})
           Put(o, i) == Spliced(o, i, n[i].key)
           Is(o) == o = [i \in 0..N |-> IF i = 0 THEN Base
                                        ELSE IF Has(p, n[i].key) THEN o[i - 1]
                                        ELSE Put(o[i - 1], i)]
           g == [i \in 0..N |-> KeysOf(V[i])]
           order == CHOOSE o : Is(o)
           S == {i \in 0..N : order[i] = g[i]}
<1>1. n \in Seq(Row) /\ N \in Nat
  BY DEF IsList
<1>2. \A i \in 0..N : V[i] \in Seq(Row)
  BY InsertingMixes DEF Mixed, IsList
<1>3. VirtualOrder(p, n) = order[N]
  BY DEF VirtualOrder
<1>4. KeysOf(V[0]) = Base
  BY KeptRows DEF Inserting
<1>5. ASSUME NEW i \in 1..N
      PROVE  KeysOf(V[i]) = IF Has(p, n[i].key) THEN KeysOf(V[i - 1])
                            ELSE Put(KeysOf(V[i - 1]), i)
  <2>1. V[i - 1] \in Seq(Row) /\ n[i] \in Row /\ i \in Nat \ {0}
    BY <1>1, <1>2
  <2>2. KeysOf(Spliced(V[i - 1], i, n[i])) = Spliced(KeysOf(V[i - 1]), i, n[i].key)
    BY <2>1, KeysSpliced
  <2>3. V[i] = IF Has(p, n[i].key) THEN V[i - 1] ELSE Spliced(V[i - 1], i, n[i])
    BY DEF Inserting
  <2>4. QED
    BY <2>2, <2>3
<1> HIDE DEF N, Base, Put
<1>6. Is(g)
  <2>1. ASSUME NEW i \in 0..N
        PROVE  g[i] = IF i = 0 THEN Base
                      ELSE IF Has(p, n[i].key) THEN g[i - 1] ELSE Put(g[i - 1], i)
    <3>1. CASE i = 0
      BY <1>4, <3>1
    <3>2. CASE i # 0
      <4>1. i \in 1..N /\ i - 1 \in 0..N
        BY <1>1, <3>2
      <4>2. QED
        BY <1>5, <3>2, <4>1
    <3>3. QED
      BY <3>1, <3>2
  <2>2. QED
    BY <2>1
<1>7. Is(order)
  <2> HIDE DEF Is, g
  <2>1. QED
    BY <1>6
<1> HIDE DEF order
<1>8. order[0] = Base
  BY <1>1, <1>7
<1>9. \A i \in 1..N : order[i] = IF Has(p, n[i].key) THEN order[i - 1] ELSE Put(order[i - 1], i)
  BY <1>1, <1>7
<1>10. 0 \in S
  BY <1>1, <1>4, <1>8
<1>11. ASSUME NEW i \in 1..N, i - 1 \in S
       PROVE  i \in S
  BY <1>5, <1>9, <1>11
<1>12. N \in S
  <2>1. Climbs(S, N)
    BY <1>10, <1>11 DEF Climbs
  <2> HIDE DEF S
  <2>2. QED
    BY <1>1, <2>1, UpTo
<1>13. QED
  BY <1>1, <1>3, <1>12 DEF N

\* Two rows that stay have changed their order.
Inverted(p, n) ==
  \E j, k \in {k \in Keys : Has(p, k) /\ Has(n, k)} : Before(p, j, k) /\ Before(n, k, j)

\* If none have, each row is where it belongs as soon as it is there.
LEMMA InsertingInOrder ==
  ASSUME NEW p, IsList(p), NEW n, IsList(n), NEW V, Inserting(V, p, n), ~Inverted(p, n)
  PROVE  \A i \in 0..Len(n) : /\ i <= Len(V[i])
                              /\ \A x \in 1..i : V[i][x].key = n[x].key
<1> DEFINE Ok(l, i) == i <= Len(l) /\ \A x \in 1..i : l[x].key = n[x].key
           S == {i \in 0..Len(n) : Ok(V[i], i)}
<1>1. n \in Seq(Row) /\ p \in Seq(Row) /\ Len(n) \in Nat
  BY DEF IsList
<1>2. \A x, y \in 1..Len(n) : n[x].key = n[y].key => x = y
  BY <1>1, ListForm
<1>3. 0 \in S
  <2>1. Mixed(V[0], p, n, 0)
    BY <1>1, InsertingMixes
  <2>2. 0 <= Len(V[0])
    BY <2>1 DEF Mixed, IsList
  <2>3. QED
    BY <1>1, <2>2
<1>4. ASSUME NEW i \in 1..Len(n), i - 1 \in S
      PROVE  i \in S
  <2> DEFINE l == V[i - 1]
             m == V[i]
             e == n[i]
  <2>1. Mixed(l, p, n, i - 1)
    BY <1>1, InsertingMixes
  <2>2. m = IF Has(p, e.key) THEN l ELSE Spliced(l, i, e)
    BY DEF Inserting
  <2>3. i - 1 <= Len(l) /\ \A x \in 1..(i - 1) : l[x].key = n[x].key
    BY <1>4
  <2>4. e \in Row /\ i \in Nat \ {0}
    BY <1>1
  <2> HIDE DEF l, m, e
  <2>5. IsList(l) /\ l \in Seq(Row) /\ Len(l) \in Nat
    BY <2>1 DEF Mixed, IsList
  <2>6. \A x, y \in 1..Len(l) : l[x].key = l[y].key => x = y
    BY <2>5, ListForm
  <2>7. CASE ~Has(p, e.key)
    <3>1. m = Spliced(l, i, e)
      BY <2>2, <2>7
    <3>2. i = Clamped(i, Len(l) + 1)
      BY <2>3, <2>5 DEF Clamped
    <3>3. IsSpliced(m, l, i, e)
      BY <2>4, <2>5, <3>1, <3>2, SplicedAt
    <3>4. i <= Len(m)
      BY <2>5, <3>3 DEF IsSpliced
    <3>5. ASSUME NEW x \in 1..i
          PROVE  m[x].key = n[x].key
      <4>1. x \in 1..(Len(l) + 1)
        BY <2>3, <2>5
      <4>2. CASE x = i
        BY <3>3, <4>1, <4>2 DEF IsSpliced, e
      <4>3. CASE x < i
        <5>1. x \in 1..(i - 1) /\ m[x] = l[x]
          BY <3>3, <4>1, <4>3 DEF IsSpliced
        <5>2. QED
          BY <2>3, <5>1
      <4>4. QED
        BY <4>2, <4>3
    <3>6. QED
      BY <3>4, <3>5 DEF m
  <2>8. CASE Has(p, e.key)
    <3>1. m = l
      BY <2>2, <2>8
    <3>2. PICK q \in 1..Len(l) : l[q].key = e.key
      <4>1. PICK r \in Range(p) : r.key = e.key
        BY <1>1, <2>8, HasRow
      <4>2. Has(n, r.key)
        BY <1>1, <4>1, HasAt DEF e
      <4>3. r \in Range(l)
        BY <2>1, <4>1, <4>2 DEF Mixed
      <4>4. QED
        BY <2>5, <4>1, <4>3 DEF Range
    <3>3. q >= i
      <4>1. SUFFICES ASSUME q < i PROVE FALSE
        OBVIOUS
      <4>2. q \in 1..(i - 1) /\ q \in 1..Len(n) /\ n[q].key = e.key
        BY <2>3, <3>2, <4>1
      <4>3. QED
        BY <1>2, <4>2 DEF e
    <3>4. i \in 1..Len(l)
      BY <2>5, <3>2, <3>3
    <3>5. CASE q > i
      <4> DEFINE w == l[i]
      <4>1. w \in Range(l) /\ w \in Row
        BY <2>5, <3>4 DEF Range
      <4>2. w.key \in Keys /\ e.key \in Keys
        BY <2>4, <4>1 DEF Row
      <4> HIDE DEF w
      <4>3. \A j \in 1..(i - 1) : n[j].key # w.key
        <5>1. TAKE j \in 1..(i - 1)
        <5>2. j \in 1..Len(l) /\ j # i /\ l[j].key = n[j].key
          BY <2>3, <2>5
        <5>3. QED
          BY <2>6, <3>4, <5>2 DEF w
      <4>4. w \in Range(p) /\ Has(n, w.key)
        BY <2>1, <4>1, <4>3 DEF Mixed
      <4>5. Has(p, w.key)
        BY <1>1, <4>4, HasRow
      <4>6. PICK j \in 1..Len(n) : n[j].key = w.key
        BY <1>1, <4>4, HasAt
      <4>7. j # i
        BY <2>6, <3>2, <3>4, <3>5, <4>6 DEF w, e
      <4>8. j > i
        BY <4>3, <4>6, <4>7
      <4>9. Before(n, e.key, w.key)
        BY <1>1, <4>6, <4>8 DEF Before, e
      <4>10. Before(l, w.key, e.key)
        BY <2>5, <3>2, <3>4, <3>5 DEF Before, w
      <4>11. Before(p, w.key, e.key)
        BY <2>1, <2>8, <4>2, <4>5, <4>10 DEF Mixed
      <4>12. Has(n, e.key)
        BY <1>1, HasAt DEF e
      <4>13. Inverted(p, n)
        BY <2>8, <4>2, <4>4, <4>5, <4>9, <4>11, <4>12 DEF Inverted
      <4>14. QED
        BY <4>13
    <3>6. CASE q = i
      <4>1. \A x \in 1..i : x = i \/ x \in 1..(i - 1)
        OBVIOUS
      <4>2. Ok(l, i)
        BY <2>3, <2>5, <3>2, <3>4, <3>6, <4>1 DEF e
      <4> HIDE DEF Ok
      <4>3. QED
        BY <3>1, <4>2 DEF m
    <3>7. QED
      BY <3>2, <3>3, <3>5, <3>6
  <2>9. QED
    BY <2>7, <2>8
<1>5. Climbs(S, Len(n))
  BY <1>3, <1>4 DEF Climbs
<1> HIDE DEF S
<1>6. 0..Len(n) \subseteq S
  BY <1>1, <1>5, UpTo
<1>7. QED
  BY <1>6 DEF S

-----------------------------------------------------------------------------
(* The moves.                                                              *)

\* Row i of n is moved to where it belongs.
MovedTo(l, n, i) ==
  IF IndexOf(l, n[i].key) \in {0, i} THEN l ELSE Shifted(l, IndexOf(l, n[i].key), i)

\* The lists on the way: the rows are put in place one after the other.
Moving(M, l, n) == M[0] = l /\ \A i \in 1..Len(n) : M[i] = MovedTo(M[i - 1], n, i)

\* A move leaves a sequence of rows.
LEMMA MovedIs ==
  ASSUME NEW l \in Seq(Row), NEW n, NEW i \in Nat \ {0}
  PROVE  MovedTo(l, n, i) \in Seq(Row)
<1> DEFINE q == IndexOf(l, n[i].key)
<1>1. q = 0 \/ q \in 1..Len(l)
  BY IndexFound
<1> HIDE DEF q
<1>2. q \in 1..Len(l) => Shifted(l, q, i) \in Seq(Row)
  BY ShiftedAt
<1>3. QED
  BY <1>1, <1>2 DEF MovedTo, q

\* There are such lists.
LEMMA MovingIs ==
  ASSUME NEW l, IsList(l), NEW n, IsList(n)
  PROVE  \E M : Moving(M, l, n)
<1> DEFINE N == Len(n)
           step == [i \in 1..N |-> [m \in Seq(Row) |-> MovedTo(m, n, i)]]
<1>1. l \in Seq(Row) /\ N \in Nat
  BY DEF IsList
<1> HIDE DEF N
<1>2. \A m \in Seq(Row), i \in 1..N : MovedTo(m, n, i) \in Seq(Row)
  BY <1>1, MovedIs
<1>3. /\ step \in [1..N -> [Seq(Row) -> Seq(Row)]]
      /\ \A i \in 1..N, m \in Seq(Row) : step[i][m] = MovedTo(m, n, i)
  BY <1>2
<1> HIDE DEF step
<1>4. PICK M : Recurs(M, Seq(Row), N, l, step)
  BY <1>1, <1>3, Recursion
<1>5. M \in [0..N -> Seq(Row)] /\ M[0] = l /\ \A i \in 1..N : M[i] = step[i][M[i - 1]]
  BY <1>4 DEF Recurs
<1>6. ASSUME NEW i \in 1..N
      PROVE  M[i] = MovedTo(M[i - 1], n, i)
  <2>1. M[i - 1] \in Seq(Row)
    BY <1>1, <1>5
  <2>2. QED
    BY <1>3, <1>5, <2>1
<1>7. Moving(M, l, n)
  BY <1>5, <1>6 DEF Moving, N
<1>8. QED
  BY <1>7

\* m has the rows of l, the first i of them in the order of n.
Sorted(m, l, n, i) ==
  /\ IsList(m)
  /\ Range(m) = Range(l)
  /\ i <= Len(m)
  /\ \A x \in 1..i : m[x].key = n[x].key

\* A row that is looked for is not among those in place.
LEMMA NotInPlace ==
  ASSUME NEW n, IsList(n), NEW i \in 1..Len(n), NEW l, NEW m, Sorted(m, l, n, i - 1),
         Has(l, n[i].key), NEW q, q = IndexOf(m, n[i].key)
  PROVE  q \in 1..Len(m) /\ m[q].key = n[i].key /\ i <= q
<1>1. m \in Seq(Row) /\ n \in Seq(Row)
  BY DEF Sorted, IsList
<1>2. Has(m, n[i].key)
  BY DEF Sorted, Has, Range
<1>3. q \in 1..Len(m) /\ m[q].key = n[i].key
  BY <1>1, <1>2, IndexFound
<1>4. \A x, y \in 1..Len(n) : n[x].key = n[y].key => x = y
  BY <1>1, ListForm
<1>5. ~(q < i)
  <2>1. SUFFICES ASSUME q < i PROVE FALSE
    OBVIOUS
  <2>2. q \in 1..(i - 1) /\ q \in 1..Len(n) /\ n[q].key = n[i].key
    BY <1>1, <1>3, <2>1 DEF Sorted
  <2>3. QED
    BY <1>4, <2>1, <2>2
<1>6. QED
  BY <1>1, <1>3, <1>5

\* Once row i has been put in place, the rows up to i are where n has them.
LEMMA MovingSorts ==
  ASSUME NEW l, IsList(l), NEW n, IsList(n), \A i \in 1..Len(n) : Has(l, n[i].key),
         NEW M, Moving(M, l, n)
  PROVE  \A i \in 0..Len(n) : Sorted(M[i], l, n, i)
<1> DEFINE S == {i \in 0..Len(n) : Sorted(M[i], l, n, i)}
<1>1. n \in Seq(Row) /\ Len(n) \in Nat /\ l \in Seq(Row) /\ Len(l) \in Nat
  BY DEF IsList
<1>2. 0 \in S
  <2>1. Sorted(l, l, n, 0)
    BY <1>1 DEF Sorted
  <2>2. QED
    BY <1>1, <2>1 DEF Moving
<1>3. ASSUME NEW i \in 1..Len(n), i - 1 \in S
      PROVE  i \in S
  <2> DEFINE a == M[i - 1]
             b == M[i]
             q == IndexOf(a, n[i].key)
  <2>1. Sorted(a, l, n, i - 1)
    BY <1>3
  <2>2. b = MovedTo(a, n, i)
    BY DEF Moving
  <2> HIDE DEF a, b, q
  <2>3. q \in 1..Len(a) /\ a[q].key = n[i].key /\ i <= q
    BY <2>1, NotInPlace DEF q
  <2>4. IsList(a) /\ a \in Seq(Row) /\ Len(a) \in Nat
    BY <2>1 DEF Sorted, IsList
  <2>5. \A x \in 1..i : x = i \/ x \in 1..(i - 1)
    OBVIOUS
  <2>6. CASE q = i
    <3>1. b = a
      BY <2>2, <2>6 DEF MovedTo, q
    <3>2. Sorted(a, l, n, i)
      BY <2>1, <2>3, <2>4, <2>5, <2>6 DEF Sorted
    <3>3. QED
      BY <3>1, <3>2 DEF b
  <2>7. CASE q # i
    <3>1. b = Shifted(a, q, i)
      BY <2>2, <2>3, <2>7 DEF MovedTo, q
    <3>2. i \in Nat \ {0} /\ i = Clamped(i, Len(a))
      BY <2>3, <2>4 DEF Clamped
    <3>3. IsList(b) /\ Len(b) = Len(a) /\ Range(b) = Range(a)
      BY <2>3, <2>4, <3>1, <3>2, ListShifted
    <3>4. IsShifted(b, a, q, i)
      BY <2>3, <2>4, <3>1, <3>2, ShiftedAt
    <3>5. ASSUME NEW x \in 1..i
          PROVE  b[x].key = n[x].key
      <4>1. x \in 1..Len(a)
        BY <2>3, <2>4
      <4>2. CASE x = i
        BY <2>3, <3>4, <4>1, <4>2 DEF IsShifted
      <4>3. CASE x \in 1..(i - 1)
        <5>1. b[x] = a[x]
          BY <2>3, <2>4, <3>4, <4>1, <4>3 DEF IsShifted
        <5>2. QED
          BY <2>1, <4>3, <5>1 DEF Sorted
      <4>4. QED
        BY <2>5, <4>2, <4>3
    <3>6. Sorted(b, l, n, i)
      BY <2>1, <2>3, <2>4, <3>3, <3>5 DEF Sorted
    <3>7. QED
      BY <3>6 DEF b
  <2>8. QED
    BY <2>6, <2>7
<1>4. Climbs(S, Len(n))
  BY <1>2, <1>3 DEF Climbs
<1> HIDE DEF S
<1>5. 0..Len(n) \subseteq S
  BY <1>1, <1>4, UpTo
<1>6. QED
  BY <1>5 DEF S

-----------------------------------------------------------------------------
(* The moves that are emitted.                                             *)

\* A key is put in place in an order as its row is in a list.
LEMMA KeyMoved ==
  ASSUME NEW l \in Seq(Row), NEW n, NEW i \in Nat \ {0}
  PROVE  PutInPlace(KeysOf(l), n, i) = KeysOf(MovedTo(l, n, i))
<1> DEFINE q == IndexOf(l, n[i].key)
<1>1. Found(KeysOf(l), n, i) = q
  BY FoundAsIndex
<1>2. q = 0 \/ q \in 1..Len(l)
  BY IndexFound
<1>3. PutInPlace(KeysOf(l), n, i) = IF q \in {0, i} THEN KeysOf(l) ELSE Shifted(KeysOf(l), q, i)
  BY <1>1 DEF PutInPlace
<1>4. MovedTo(l, n, i) = IF q \in {0, i} THEN l ELSE Shifted(l, q, i)
  BY DEF MovedTo
<1> HIDE DEF q
<1>5. q \in 1..Len(l) => KeysOf(Shifted(l, q, i)) = Shifted(KeysOf(l), q, i)
  BY KeysShifted
<1>6. QED
  BY <1>2, <1>3, <1>4, <1>5

\* The keys of the lists on the way are the orders the code keeps.
LEMMA MovingOrders ==
  ASSUME NEW p, NEW n, IsList(n), NEW l, IsList(l), KeysOf(l) = VirtualOrder(p, n),
         NEW M, Moving(M, l, n)
  PROVE  \A i \in 0..Len(n) : M[i] \in Seq(Row) /\ Orders(p, n)[i] = KeysOf(M[i])
<1> DEFINE N == Len(n)
           Is(o) == o = [i \in 0..N |-> IF i = 0 THEN VirtualOrder(p, n)
                                        ELSE PutInPlace(o[i - 1], n, i)]
           g == [i \in 0..N |-> KeysOf(M[i])]
           order == CHOOSE o : Is(o)
           R == {i \in 0..N : M[i] \in Seq(Row)}
           S == {i \in 0..N : order[i] = g[i]}
<1>1. N \in Nat /\ l \in Seq(Row)
  BY DEF IsList
<1>2. Orders(p, n) = order
  BY DEF Orders
<1>3. M[0] = l /\ \A i \in 1..N : M[i] = MovedTo(M[i - 1], n, i)
  BY DEF Moving
<1> HIDE DEF N
<1>4. \A i \in 0..N : M[i] \in Seq(Row)
  <2>1. ASSUME NEW i \in 1..N, i - 1 \in R
        PROVE  i \in R
    <3>1. M[i - 1] \in Seq(Row) /\ i \in Nat \ {0} /\ i \in 0..N
      BY <1>1, <2>1
    <3>2. MovedTo(M[i - 1], n, i) \in Seq(Row)
      BY <3>1, MovedIs
    <3>3. QED
      BY <1>3, <3>1, <3>2
  <2>2. Climbs(R, N)
    BY <1>1, <1>3, <2>1 DEF Climbs
  <2> HIDE DEF R
  <2>3. 0..N \subseteq R
    BY <1>1, <2>2, UpTo
  <2>4. QED
    BY <2>3 DEF R
<1>5. ASSUME NEW i \in 1..N
      PROVE  KeysOf(M[i]) = PutInPlace(KeysOf(M[i - 1]), n, i)
  <2>1. M[i - 1] \in Seq(Row) /\ i \in Nat \ {0}
    BY <1>1, <1>4
  <2>2. QED
    BY <1>3, <2>1, KeyMoved
<1>6. Is(g)
  <2>1. ASSUME NEW i \in 0..N
        PROVE  g[i] = IF i = 0 THEN VirtualOrder(p, n) ELSE PutInPlace(g[i - 1], n, i)
    <3>1. CASE i = 0
      BY <1>3, <3>1
    <3>2. CASE i # 0
      <4>1. i \in 1..N /\ i - 1 \in 0..N
        BY <1>1, <3>2
      <4>2. QED
        BY <1>5, <3>2, <4>1
    <3>3. QED
      BY <3>1, <3>2
  <2>2. QED
    BY <2>1
<1>7. Is(order)
  <2> HIDE DEF Is, g
  <2>1. QED
    BY <1>6
<1> HIDE DEF order
<1>8. order[0] = VirtualOrder(p, n)
  BY <1>1, <1>7
<1>9. \A i \in 1..N : order[i] = PutInPlace(order[i - 1], n, i)
  BY <1>1, <1>7
<1>10. 0 \in S
  BY <1>1, <1>3, <1>8
<1>11. ASSUME NEW i \in 1..N, i - 1 \in S
       PROVE  i \in S
  BY <1>5, <1>9, <1>11
<1>12. 0..N \subseteq S
  <2>1. Climbs(S, N)
    BY <1>10, <1>11 DEF Climbs
  <2> HIDE DEF S
  <2>2. QED
    BY <1>1, <2>1, UpTo
<1>13. QED
  <2>1. \A i \in 0..N : order[i] = KeysOf(M[i])
    BY <1>12
  <2>2. QED
    BY <1>2, <1>4, <2>1 DEF N

\* Where the code finds a key is where its row is.
LEMMA FoundInOrder ==
  ASSUME NEW p, NEW n, IsList(n), NEW l, IsList(l), KeysOf(l) = VirtualOrder(p, n),
         NEW M, Moving(M, l, n), NEW i \in 1..Len(n)
  PROVE  Found(Orders(p, n)[i - 1], n, i) = IndexOf(M[i - 1], n[i].key)
<1>1. i - 1 \in 0..Len(n)
  BY DEF IsList
<1>2. M[i - 1] \in Seq(Row) /\ Orders(p, n)[i - 1] = KeysOf(M[i - 1])
  BY <1>1, MovingOrders
<1>3. QED
  BY <1>2, FoundAsIndex

\* The moves put the rows in the order of the new list.
LEMMA MovesLead ==
  ASSUME NEW p, NEW n, IsList(n), NEW l, IsList(l), KeysOf(l) = VirtualOrder(p, n),
         \A i \in 1..Len(n) : Has(l, n[i].key), NEW M, Moving(M, l, n)
  PROVE  Leads(l, Moves(p, n), M[Len(n)])
<1> DEFINE N == Len(n)
           e(i) == [op |-> "move", key |-> n[i].key, to |-> i]
           None == <<>>
           Some(i) == <<e(i)>>
           Stays(i) == Found(Orders(p, n)[i - 1], n, i) \in {0, i}
           out == [i \in DOMAIN n |-> IF Stays(i) THEN None ELSE Some(i)]
<1>1. n \in Seq(Row) /\ DOMAIN n = 1..N /\ N \in Nat
  BY DEF IsList
<1>2. \A i \in 1..N : e(i) \in Patch
  <2>1. ASSUME NEW i \in 1..N
        PROVE  e(i) \in Patch
    <3>1. n[i] \in Row /\ i \in Nat \ {0}
      BY <1>1
    <3>2. n[i].key \in Keys
      BY <3>1 DEF Row
    <3>3. QED
      BY <3>1, <3>2 DEF Patch
  <2>2. QED
    BY <2>1
<1>3. Moves(p, n) = FlattenSeq(out)
  BY DEF Moves
<1> HIDE DEF N
<1>4. DOMAIN out = 1..N /\ out = [i \in DOMAIN out |-> out[i]]
  BY <1>1
<1>5. \A i \in 1..N : out[i] = IF Stays(i) THEN None ELSE Some(i)
  BY <1>1
<1> HIDE DEF out
<1>6. out \in Seq(Seq(Patch)) /\ Len(out) = N
  <2>1. \A i \in 1..N : out[i] = <<>> \/ \E z \in Patch : out[i] = <<z>>
    BY <1>2, <1>5
  <2>2. QED
    BY <1>1, <1>4, <2>1, Emitted
<1>7. \A i \in 0..N : Sorted(M[i], l, n, i)
  BY MovingSorts DEF N
<1>8. ASSUME NEW i \in 1..N
      PROVE  Leads(M[i - 1], out[i], M[i])
  <2> DEFINE a == M[i - 1]
             z == e(i)
             q == IndexOf(a, n[i].key)
  <2>1. Sorted(a, l, n, i - 1)
    BY <1>1, <1>7
  <2>2. IsList(a) /\ a \in Seq(Row)
    BY <2>1 DEF Sorted, IsList
  <2>3. M[i] = IF q \in {0, i} THEN a ELSE Shifted(a, q, i)
    BY DEF Moving, MovedTo, N
  <2>4. Stays(i) <=> q \in {0, i}
    BY FoundInOrder DEF N
  <2> HIDE DEF q, Stays
  <2>5. CASE q \in {0, i}
    <3>1. out[i] = <<>> /\ M[i] = a
      BY <1>5, <2>3, <2>4, <2>5
    <3>2. QED
      BY <2>2, <3>1, LeadsNone
  <2>6. CASE q \notin {0, i}
    <3>1. out[i] = <<z>>
      BY <1>5, <2>4, <2>6
    <3>2. z \in Patch /\ z.op = "move" /\ z.key = n[i].key /\ z.to = i
      BY <1>2
    <3> HIDE DEF a, z, e
    <3>3. Has(a, z.key) /\ IndexOf(a, z.key) = q
      BY <2>2, <2>6, <3>2, IndexFound DEF q
    <3>4. M[i] = ApplyToRows(a, z)
      BY <2>3, <2>6, <3>2, <3>3, RowsByOp DEF Moved
    <3>5. Fits(a, z)
      BY <3>2, <3>3 DEF Fits
    <3>6. Leads(a, <<z>>, M[i])
      BY <2>2, <3>2, <3>4, <3>5, LeadsOne
    <3>7. QED
      BY <3>1, <3>6 DEF a
  <2>7. QED
    BY <2>5, <2>6
<1>9. QED
  <2>1. M[0] = l
    BY DEF Moving
  <2>2. Leads(M[0], FlattenSeq(out), M[N])
    BY <1>1, <1>6, <1>8, <2>1, LeadsLoop
  <2>3. QED
    BY <1>3, <2>1, <2>2 DEF N

\* A list that is in order is left as it is.
LEMMA NothingMoves ==
  ASSUME NEW n, IsList(n), NEW l, IsList(l), Len(n) <= Len(l),
         \A x \in 1..Len(n) : l[x].key = n[x].key, NEW M, Moving(M, l, n)
  PROVE  \A i \in 1..Len(n) : IndexOf(M[i - 1], n[i].key) = i
<1> DEFINE S == {i \in 0..Len(n) : M[i] = l}
<1>1. n \in Seq(Row) /\ Len(n) \in Nat /\ l \in Seq(Row) /\ Len(l) \in Nat
  BY DEF IsList
<1>2. \A i \in 1..Len(n) : IndexOf(l, n[i].key) = i
  <2>1. TAKE i \in 1..Len(n)
  <2>2. i \in 1..Len(l) /\ l[i].key = n[i].key
    BY <1>1
  <2>3. IndexOf(l, l[i].key) = i
    BY <2>2, IndexIn
  <2>4. QED
    BY <2>2, <2>3
<1>3. 0 \in S
  BY <1>1 DEF Moving
<1>4. ASSUME NEW i \in 1..Len(n), i - 1 \in S
      PROVE  i \in S
  <2>1. M[i - 1] = l /\ M[i] = MovedTo(M[i - 1], n, i)
    BY <1>4 DEF Moving
  <2>2. M[i] = l
    BY <1>2, <2>1 DEF MovedTo
  <2>3. QED
    BY <1>1, <2>2
<1>5. Climbs(S, Len(n))
  BY <1>3, <1>4 DEF Climbs
<1> HIDE DEF S
<1>6. 0..Len(n) \subseteq S
  BY <1>1, <1>5, UpTo
<1>7. \A i \in 0..Len(n) : M[i] = l
  BY <1>6 DEF S
<1>8. QED
  BY <1>1, <1>2, <1>7

-----------------------------------------------------------------------------
(* The replacements.                                                       *)

\* l has the rows of n, each as n has it or as p had it.
Pending(l, p, n) ==
  /\ IsList(l)
  /\ Len(l) = Len(n)
  /\ \A x \in 1..Len(n) : l[x].key = n[x].key /\ (l[x] = n[x] \/ l[x] \in Range(p))

\* Once the rows are in order only their contents are pending.
LEMMA SortedPends ==
  ASSUME NEW p, IsList(p), NEW n, IsList(n), NEW l, Mixed(l, p, n, Len(n)),
         NEW m, Sorted(m, l, n, Len(n))
  PROVE  Pending(m, p, n)
<1> DEFINE N == Len(n)
<1>1. n \in Seq(Row) /\ N \in Nat /\ m \in Seq(Row) /\ Len(m) \in Nat /\ IsList(m)
  BY DEF Sorted, IsList
<1>2. \A x, y \in 1..Len(m) : m[x].key = m[y].key => x = y
  BY <1>1, ListForm
<1>3. N <= Len(m) /\ \A x \in 1..N : m[x].key = n[x].key
  BY DEF Sorted
<1>4. ASSUME NEW x \in 1..Len(m)
      PROVE  (m[x] \in Range(p) /\ Has(n, m[x].key)) \/ \E j \in 1..N : m[x] = n[j]
  <2>1. m[x] \in Range(m)
    BY <1>1 DEF Range
  <2>2. m[x] \in Range(l)
    BY <2>1 DEF Sorted
  <2>3. QED
    BY <2>2 DEF Mixed
<1>5. \A x \in 1..Len(m) : \E j \in 1..N : m[x].key = n[j].key
  <2>1. TAKE x \in 1..Len(m)
  <2>2. CASE Has(n, m[x].key)
    BY <1>1, <2>2, HasAt
  <2>3. CASE \E j \in 1..N : m[x] = n[j]
    BY <2>3
  <2>4. QED
    BY <1>4, <2>2, <2>3
<1>6. Len(m) = N
  <2>1. SUFFICES ASSUME N < Len(m) PROVE FALSE
    BY <1>1, <1>3
  <2>2. N + 1 \in 1..Len(m)
    BY <1>1, <2>1
  <2>3. PICK j \in 1..N : m[N + 1].key = n[j].key
    BY <1>5, <2>2
  <2>4. j \in 1..Len(m) /\ m[j].key = m[N + 1].key /\ j # N + 1
    BY <1>1, <1>3, <2>3
  <2>5. QED
    BY <1>2, <2>2, <2>4
<1>7. ASSUME NEW x \in 1..N
      PROVE  m[x] = n[x] \/ m[x] \in Range(p)
  <2>1. SUFFICES ASSUME NEW j \in 1..N, m[x] = n[j]
                 PROVE  m[x] = n[x]
    BY <1>4, <1>6
  <2>2. n[x].key = n[j].key
    BY <1>3, <2>1
  <2>3. x = j
    BY <1>1, <2>2, ListForm
  <2>4. QED
    BY <2>1, <2>3
<1>8. QED
  BY <1>1, <1>3, <1>6, <1>7 DEF Pending

\* A row that is not sent again is as it was.
LEMMA NotPending ==
  ASSUME NEW p, IsList(p), NEW n, IsList(n), NEW l, Pending(l, p, n), NEW i \in 1..Len(n),
         ~Has(p, n[i].key) \/ RowOf(p, n[i].key) = n[i]
  PROVE  l[i] = n[i]
<1>1. p \in Seq(Row)
  BY DEF IsList
<1>2. l[i].key = n[i].key /\ (l[i] = n[i] \/ l[i] \in Range(p))
  BY DEF Pending
<1>3. CASE l[i] \in Range(p)
  <2>1. PICK y \in 1..Len(p) : p[y] = l[i]
    BY <1>1, <1>3 DEF Range
  <2>2. Has(p, p[y].key) /\ RowOf(p, p[y].key) = p[y]
    BY IndexIn
  <2>3. QED
    BY <1>2, <2>1, <2>2
<1>4. QED
  BY <1>2, <1>3

\* The replacements give the rows their new contents.
LEMMA ReplacementsLead ==
  ASSUME NEW p, IsList(p), NEW n, IsList(n), NEW l, Pending(l, p, n)
  PROVE  Leads(l, Replacements(p, n), n)
<1> DEFINE N == Len(n)
           To(i) == [x \in 1..N |-> IF x <= i THEN n[x] ELSE l[x]]
           R == [i \in 0..N |-> To(i)]
           e(i) == [op |-> "replace", key |-> n[i].key, row |-> n[i]]
           None == <<>>
           Some(i) == <<e(i)>>
           Same(i) == ~Has(p, n[i].key) \/ Unchanged(RowOf(p, n[i].key), n[i])
           out == [i \in DOMAIN n |-> IF Same(i) THEN None ELSE Some(i)]
<1>1. n \in Seq(Row) /\ DOMAIN n = 1..N /\ N \in Nat
  BY DEF IsList
<1>2. l \in Seq(Row) /\ Len(l) = N /\ \A x \in 1..N : l[x].key = n[x].key
  BY DEF Pending, IsList
<1>3. \A i \in 1..N : e(i) \in Patch
  <2>1. ASSUME NEW i \in 1..N
        PROVE  e(i) \in Patch
    <3>1. n[i] \in Row
      BY <1>1
    <3>2. n[i].key \in Keys
      BY <3>1 DEF Row
    <3>3. QED
      BY <3>1, <3>2 DEF Patch
  <2>2. QED
    BY <2>1
<1>4. Replacements(p, n) = FlattenSeq(out)
  BY DEF Replacements
<1> HIDE DEF N
<1>5. DOMAIN out = 1..N /\ out = [i \in DOMAIN out |-> out[i]]
  BY <1>1
<1>6. \A i \in 1..N : out[i] = IF Same(i) THEN None ELSE Some(i)
  BY <1>1
<1> HIDE DEF out
<1>7. out \in Seq(Seq(Patch)) /\ Len(out) = N
  <2>1. \A i \in 1..N : out[i] = <<>> \/ \E z \in Patch : out[i] = <<z>>
    BY <1>3, <1>6
  <2>2. QED
    BY <1>1, <1>5, <2>1, Emitted
<1>8. ASSUME NEW i \in 0..N
      PROVE  /\ R[i] \in Seq(Row) /\ Len(R[i]) = N
             /\ \A x \in 1..N : R[i][x] = IF x <= i THEN n[x] ELSE l[x]
  <2>1. \A x \in 1..N : n[x] \in Row /\ l[x] \in Row
    BY <1>1, <1>2 DEF N
  <2>2. To(i) \in [1..N -> Row]
    BY <2>1
  <2>3. To(i) \in Seq(Row) /\ Len(To(i)) = N
    <3> HIDE DEF To
    <3>1. QED
      BY <1>1, <2>2, SeqDef, LenProperties
  <2>4. \A x \in 1..N : To(i)[x] = IF x <= i THEN n[x] ELSE l[x]
    OBVIOUS
  <2>5. R[i] = To(i)
    <3> HIDE DEF To
    <3>1. QED
      OBVIOUS
  <2> HIDE DEF To, R
  <2>6. QED
    BY <2>3, <2>4, <2>5
<1> HIDE DEF R, To
<1>9. ASSUME NEW i \in 0..N
      PROVE  IsList(R[i]) /\ \A x \in 1..N : R[i][x].key = n[x].key
  <2>1. \A x \in 1..N : R[i][x].key = n[x].key
    BY <1>2, <1>8
  <2>2. \A x, y \in 1..N : n[x].key = n[y].key => x = y
    BY <1>1, ListForm DEF N
  <2>3. QED
    BY <1>8, <2>1, <2>2, ListForm
<1>10. R[0] = l
  <2>1. 0 \in 0..N /\ \A x \in 1..N : ~(x <= 0)
    BY <1>1
  <2>2. R[0] \in Seq(Row) /\ Len(R[0]) = N /\ \A x \in 1..N : R[0][x] = l[x]
    BY <1>8, <2>1
  <2>3. QED
    BY <1>2, <2>2, SameSeq
<1>11. R[N] = n
  <2>1. N \in 0..N
    BY <1>1
  <2>2. R[N] \in Seq(Row) /\ Len(R[N]) = N /\ \A x \in 1..N : R[N][x] = n[x]
    BY <1>1, <1>8, <2>1
  <2>3. QED
    BY <1>1, <2>2, SameSeq DEF N
<1>12. ASSUME NEW i \in 1..N
       PROVE  Leads(R[i - 1], out[i], R[i])
  <2> DEFINE a == R[i - 1]
             b == R[i]
             z == e(i)
  <2>1. i - 1 \in 0..N /\ i \in 0..N
    BY <1>1
  <2>2. /\ a \in Seq(Row) /\ Len(a) = N /\ IsList(a)
        /\ \A x \in 1..N : a[x] = IF x <= i - 1 THEN n[x] ELSE l[x]
        /\ \A x \in 1..N : a[x].key = n[x].key
    BY <1>8, <1>9, <2>1
  <2>3. /\ b \in Seq(Row) /\ Len(b) = N
        /\ \A x \in 1..N : b[x] = IF x <= i THEN n[x] ELSE l[x]
    BY <1>8, <2>1
  <2> HIDE DEF a, b
  <2>4. /\ \A x \in 1..N : x # i => b[x] = a[x]
        /\ b[i] = n[i] /\ a[i] = l[i]
    BY <1>1, <2>2, <2>3
  <2>5. CASE Same(i)
    <3>1. l[i] = n[i]
      BY <2>5, NotPending DEF N, Unchanged
    <3>2. \A x \in 1..N : b[x] = a[x]
      BY <2>4, <3>1
    <3>3. b = a
      BY <2>2, <2>3, <3>2, SameSeq
    <3>4. out[i] = <<>>
      BY <1>6, <2>5
    <3>5. QED
      BY <2>2, <3>3, <3>4, LeadsNone DEF a, b
  <2>6. CASE ~Same(i)
    <3>1. out[i] = <<z>>
      BY <1>6, <2>6
    <3>2. z \in Patch /\ z.op = "replace" /\ z.key = n[i].key /\ z.row = n[i]
      BY <1>3
    <3> HIDE DEF z, e, Same
    <3>3. i \in 1..Len(a) /\ a[i].key = z.key
      BY <2>2, <3>2
    <3>4. Has(a, z.key) /\ IndexOf(a, z.key) = i
      BY <2>2, <3>3, IndexIn
    <3>5. b = ReplaceAt(a, i, n[i])
      <4> DEFINE c == ReplaceAt(a, i, n[i])
      <4>1. n[i] \in Row
        BY <1>1 DEF N
      <4>2. c \in Seq(Row) /\ Len(c) = N /\ \A x \in 1..N : c[x] = IF x = i THEN n[i] ELSE a[x]
        BY <2>2, <3>3, <4>1 DEF ReplaceAt
      <4> HIDE DEF c
      <4>3. \A x \in 1..N : b[x] = c[x]
        BY <2>4, <4>2
      <4>4. b = c
        BY <2>3, <4>2, <4>3, SameSeq
      <4>5. QED
        BY <4>4 DEF c
    <3>6. b = ApplyToRows(a, z)
      BY <2>2, <3>2, <3>4, <3>5, RowsByOp, ReplacedIs
    <3>7. Fits(a, z)
      BY <3>2, <3>4 DEF Fits
    <3>8. Leads(a, <<z>>, b)
      BY <2>2, <3>2, <3>6, <3>7, LeadsOne
    <3>9. QED
      BY <3>1, <3>8 DEF a, b
  <2>7. QED
    BY <2>5, <2>6
<1>13. QED
  <2>1. IsList(R[0])
    BY <1>1, <1>9
  <2>2. Leads(R[0], FlattenSeq(out), R[N])
    BY <1>1, <1>7, <1>12, <2>1, LeadsLoop
  <2>3. QED
    BY <1>4, <1>10, <1>11, <2>2

-----------------------------------------------------------------------------
(* reconcileListRows.                                                      *)

\* What reconcileListRows returns leads from the old list to the new one.
THEOREM ReconcileLeads ==
  ASSUME NEW p, IsList(p), NEW n, IsList(n)
  PROVE  Leads(p, Reconcile(p, n), n)
<1>1. PICK V : Inserting(V, p, n)
  BY InsertingIs
<1> DEFINE k == Kept(p, n)
           l == V[Len(n)]
<1>2. Leads(p, Removals(p, n), k)
  BY RemovalsLead
<1>3. Leads(k, Insertions(p, n), l)
  BY <1>1, InsertionsLead
<1>4. Mixed(l, p, n, Len(n)) /\ n \in Seq(Row) /\ p \in Seq(Row)
  BY <1>1, InsertingMixes DEF IsList
<1>5. KeysOf(l) = VirtualOrder(p, n)
  BY <1>1, InsertingOrders
<1> HIDE DEF k, l
<1>6. IsList(l) /\ l \in Seq(Row)
  BY <1>4 DEF Mixed, IsList
<1>7. ASSUME NEW i \in 1..Len(n)
      PROVE  Has(l, n[i].key)
  <2>1. CASE Has(p, n[i].key)
    <3>1. PICK r \in Range(p) : r.key = n[i].key
      BY <1>4, <2>1, HasRow
    <3>2. Has(n, r.key)
      BY <1>4, <3>1, HasAt
    <3>3. r \in Range(l)
      BY <1>4, <3>2 DEF Mixed
    <3>4. QED
      BY <1>6, <3>1, <3>3, HasRow
  <2>2. CASE ~Has(p, n[i].key)
    <3>1. n[i] \in Range(l)
      BY <1>4, <2>2 DEF Mixed
    <3>2. QED
      BY <1>6, <3>1, HasRow
  <2>3. QED
    BY <2>1, <2>2
<1>8. PICK M : Moving(M, l, n)
  BY <1>6, MovingIs
<1>9. Leads(l, Moves(p, n), M[Len(n)])
  BY <1>5, <1>6, <1>7, <1>8, MovesLead
<1>10. Sorted(M[Len(n)], l, n, Len(n))
  BY <1>4, <1>6, <1>7, <1>8, MovingSorts
<1>11. Leads(M[Len(n)], Replacements(p, n), n)
  BY <1>4, <1>10, SortedPends, ReplacementsLead
<1>12. QED
  BY <1>2, <1>3, <1>9, <1>11, LeadsOn DEF Reconcile

-----------------------------------------------------------------------------
(* What a diff says.                                                       *)

\* What a patch of a diff says.
Sent(p, n) ==
  {e \in Patch :
     /\ e.op = "remove" => ~Has(n, e.key)
     /\ e.op = "insert" => Has(n, e.key)
     /\ e.op = "move" => e.to \in 1..Len(n) /\ n[e.to].key = e.key /\ Inverted(p, n)
     /\ e.op = "replace" => e.row \in Range(n) /\ ~Unchanged(RowOf(p, e.key), e.row)}

\* What a loop emits.
LEMMA LoopSends ==
  ASSUME NEW T, NEW N \in Nat, NEW out, DOMAIN out = 1..N, out = [i \in DOMAIN out |-> out[i]],
         \A i \in 1..N : out[i] = <<>> \/ \E e \in T : out[i] = <<e>>
  PROVE  FlattenSeq(out) \in Seq(T)
<1>1. out \in Seq(Seq(T)) /\ Len(out) = N
  BY Emitted
<1>2. PICK f : Gathers(f, out, T)
  BY <1>1, Flattened
<1>3. f \in [0..N -> Seq(T)] /\ FlattenSeq(out) = f[N] /\ N \in 0..N
  BY <1>1, <1>2 DEF Gathers
<1>4. QED
  BY <1>3

\* What the loop of the removals emits.
LEMMA RemovalsSent ==
  ASSUME NEW p, IsList(p), NEW n, IsList(n)
  PROVE  Removals(p, n) \in Seq(Sent(p, n))
<1> DEFINE N == Len(p)
           e(i) == [op |-> "remove", key |-> p[i].key]
           None == <<>>
           Some(i) == <<e(i)>>
           out == [i \in DOMAIN p |-> IF Has(n, p[i].key) THEN None ELSE Some(i)]
<1>1. p \in Seq(Row) /\ DOMAIN p = 1..N /\ N \in Nat
  BY DEF IsList
<1>2. ASSUME NEW i \in 1..N, ~Has(n, p[i].key)
      PROVE  e(i) \in Sent(p, n)
  <2>1. p[i] \in Row
    BY <1>1
  <2>2. p[i].key \in Keys
    BY <2>1 DEF Row
  <2>3. e(i) \in Patch
    BY <2>2 DEF Patch
  <2>4. QED
    BY <1>2, <2>3 DEF Sent
<1>3. Removals(p, n) = FlattenSeq(out)
  BY DEF Removals
<1> HIDE DEF N
<1>4. DOMAIN out = 1..N /\ out = [i \in DOMAIN out |-> out[i]]
  BY <1>1
<1>5. \A i \in 1..N : out[i] = IF Has(n, p[i].key) THEN None ELSE Some(i)
  BY <1>1
<1> HIDE DEF out, e
<1>6. \A i \in 1..N : out[i] = <<>> \/ \E z \in Sent(p, n) : out[i] = <<z>>
  BY <1>2, <1>5
<1>7. QED
  BY <1>1, <1>3, <1>4, <1>6, LoopSends

\* What the loop of the insertions emits.
LEMMA InsertionsSent ==
  ASSUME NEW p, IsList(p), NEW n, IsList(n)
  PROVE  Insertions(p, n) \in Seq(Sent(p, n))
<1> DEFINE N == Len(n)
           e(i) == [op |-> "insert", key |-> n[i].key, to |-> i, row |-> n[i]]
           None == <<>>
           Some(i) == <<e(i)>>
           out == [i \in DOMAIN n |-> IF Has(p, n[i].key) THEN None ELSE Some(i)]
<1>1. n \in Seq(Row) /\ DOMAIN n = 1..N /\ N \in Nat
  BY DEF IsList
<1>2. ASSUME NEW i \in 1..N
      PROVE  e(i) \in Sent(p, n)
  <2>1. n[i] \in Row /\ i \in Nat \ {0}
    BY <1>1
  <2>2. n[i].key \in Keys
    BY <2>1 DEF Row
  <2>3. e(i) \in Patch
    BY <2>1, <2>2 DEF Patch
  <2>4. Has(n, n[i].key)
    BY <1>1, HasAt
  <2>5. QED
    BY <2>3, <2>4 DEF Sent
<1>3. Insertions(p, n) = FlattenSeq(out)
  BY DEF Insertions
<1> HIDE DEF N
<1>4. DOMAIN out = 1..N /\ out = [i \in DOMAIN out |-> out[i]]
  BY <1>1
<1>5. \A i \in 1..N : out[i] = IF Has(p, n[i].key) THEN None ELSE Some(i)
  BY <1>1
<1> HIDE DEF out, e
<1>6. \A i \in 1..N : out[i] = <<>> \/ \E z \in Sent(p, n) : out[i] = <<z>>
  BY <1>2, <1>5
<1>7. QED
  BY <1>1, <1>3, <1>4, <1>6, LoopSends

\* What the loop of the moves emits.
LEMMA MovesSent ==
  ASSUME NEW p, IsList(p), NEW n, IsList(n)
  PROVE  Moves(p, n) \in Seq(Sent(p, n))
<1> DEFINE N == Len(n)
           e(i) == [op |-> "move", key |-> n[i].key, to |-> i]
           None == <<>>
           Some(i) == <<e(i)>>
           Stays(i) == Found(Orders(p, n)[i - 1], n, i) \in {0, i}
           out == [i \in DOMAIN n |-> IF Stays(i) THEN None ELSE Some(i)]
<1>1. n \in Seq(Row) /\ DOMAIN n = 1..N /\ N \in Nat
  BY DEF IsList
<1>2. ASSUME NEW i \in 1..N, ~Inverted(p, n)
      PROVE  Stays(i)
  <2>1. PICK V : Inserting(V, p, n)
    BY InsertingIs
  <2> DEFINE l == V[N]
  <2>2. Mixed(l, p, n, N) /\ KeysOf(l) = VirtualOrder(p, n)
    BY <1>1, <2>1, InsertingMixes, InsertingOrders
  <2>3. N <= Len(l) /\ \A x \in 1..N : l[x].key = n[x].key
    BY <1>1, <1>2, <2>1, InsertingInOrder
  <2> HIDE DEF l
  <2>4. IsList(l)
    BY <2>2 DEF Mixed
  <2>5. PICK M : Moving(M, l, n)
    BY <2>4, MovingIs
  <2>6. IndexOf(M[i - 1], n[i].key) = i
    BY <2>3, <2>4, <2>5, NothingMoves
  <2>7. Found(Orders(p, n)[i - 1], n, i) = IndexOf(M[i - 1], n[i].key)
    BY <2>2, <2>4, <2>5, FoundInOrder
  <2>8. QED
    BY <2>6, <2>7
<1>3. ASSUME NEW i \in 1..N, ~Stays(i)
      PROVE  e(i) \in Sent(p, n)
  <2>1. n[i] \in Row /\ i \in Nat \ {0}
    BY <1>1
  <2>2. n[i].key \in Keys
    BY <2>1 DEF Row
  <2>3. e(i) \in Patch
    BY <2>1, <2>2 DEF Patch
  <2>4. Inverted(p, n)
    BY <1>2, <1>3
  <2>5. QED
    BY <2>3, <2>4 DEF Sent
<1>4. Moves(p, n) = FlattenSeq(out)
  BY DEF Moves
<1> HIDE DEF N, Stays
<1>5. DOMAIN out = 1..N /\ out = [i \in DOMAIN out |-> out[i]]
  BY <1>1
<1>6. \A i \in 1..N : out[i] = IF Stays(i) THEN None ELSE Some(i)
  BY <1>1
<1> HIDE DEF out, e
<1>7. \A i \in 1..N : out[i] = <<>> \/ \E z \in Sent(p, n) : out[i] = <<z>>
  BY <1>3, <1>6
<1>8. QED
  BY <1>1, <1>4, <1>5, <1>7, LoopSends

\* What the loop of the replacements emits.
LEMMA ReplacementsSent ==
  ASSUME NEW p, IsList(p), NEW n, IsList(n)
  PROVE  Replacements(p, n) \in Seq(Sent(p, n))
<1> DEFINE N == Len(n)
           e(i) == [op |-> "replace", key |-> n[i].key, row |-> n[i]]
           None == <<>>
           Some(i) == <<e(i)>>
           Same(i) == ~Has(p, n[i].key) \/ Unchanged(RowOf(p, n[i].key), n[i])
           out == [i \in DOMAIN n |-> IF Same(i) THEN None ELSE Some(i)]
<1>1. n \in Seq(Row) /\ DOMAIN n = 1..N /\ N \in Nat
  BY DEF IsList
<1>2. ASSUME NEW i \in 1..N, ~Same(i)
      PROVE  e(i) \in Sent(p, n)
  <2>1. n[i] \in Row /\ n[i] \in Range(n)
    BY <1>1 DEF Range
  <2>2. n[i].key \in Keys
    BY <2>1 DEF Row
  <2>3. e(i) \in Patch
    BY <2>1, <2>2 DEF Patch
  <2>4. QED
    BY <1>2, <2>1, <2>3 DEF Sent
<1>3. Replacements(p, n) = FlattenSeq(out)
  BY DEF Replacements
<1> HIDE DEF N, Same
<1>4. DOMAIN out = 1..N /\ out = [i \in DOMAIN out |-> out[i]]
  BY <1>1
<1>5. \A i \in 1..N : out[i] = IF Same(i) THEN None ELSE Some(i)
  BY <1>1
<1> HIDE DEF out, e
<1>6. \A i \in 1..N : out[i] = <<>> \/ \E z \in Sent(p, n) : out[i] = <<z>>
  BY <1>2, <1>5
<1>7. QED
  BY <1>1, <1>3, <1>4, <1>6, LoopSends

\* What reconcileListRows emits.
LEMMA ReconcileSends ==
  ASSUME NEW p, IsList(p), NEW n, IsList(n)
  PROVE  Reconcile(p, n) \in Seq(Sent(p, n))
<1> DEFINE a == Removals(p, n)
           b == Insertions(p, n)
           c == Moves(p, n)
           d == Replacements(p, n)
           T == Sent(p, n)
<1>1. a \in Seq(T) /\ b \in Seq(T) /\ c \in Seq(T) /\ d \in Seq(T)
  BY RemovalsSent, InsertionsSent, MovesSent, ReplacementsSent
<1>2. Reconcile(p, n) = a \o b \o c \o d
  BY DEF Reconcile
<1> HIDE DEF a, b, c, d, T
<1>3. a \o b \o c \o d \in Seq(T)
  BY <1>1, ConcatProperties
<1>4. QED
  BY <1>2, <1>3 DEF T

\* A patch of a diff changes nothing in the new list.
LEMMA Settled ==
  ASSUME NEW p, NEW n, IsList(n), NEW e \in Sent(p, n)
  PROVE  ApplyToRows(n, e) = n
<1>1. n \in Seq(Row) /\ e \in Patch
  BY DEF IsList, Sent
<1>2. CASE e.op = "remove"
  <2>1. ~Has(n, e.key)
    BY <1>2 DEF Sent
  <2>2. QED
    BY <1>2, <2>1, RowsByOp, RemovedIs
<1>3. CASE e.op = "insert"
  <2>1. Has(n, e.key)
    BY <1>3 DEF Sent
  <2>2. QED
    BY <1>3, <2>1, RowsByOp DEF Inserted
<1>4. CASE e.op = "move"
  <2> DEFINE i == e.to
             m == Shifted(n, i, i)
  <2>1. i \in 1..Len(n) /\ n[i].key = e.key
    BY <1>4 DEF Sent
  <2> HIDE DEF i, m
  <2>2. Has(n, e.key) /\ IndexOf(n, e.key) = i
    BY <2>1, IndexIn
  <2>3. i \in Nat \ {0} /\ Clamped(i, Len(n)) = i
    BY <1>1, <2>1 DEF Clamped
  <2>4. m \in Seq(Row) /\ IsShifted(m, n, i, Clamped(i, Len(n)))
    BY <1>1, <2>1, <2>3, ShiftedAt DEF m
  <2>5. Len(m) = Len(n) /\ \A x \in 1..Len(n) : m[x] = n[x]
    BY <2>1, <2>3, <2>4 DEF IsShifted
  <2>6. m = n
    BY <1>1, <2>4, <2>5, SameSeq
  <2>7. QED
    BY <1>4, <2>2, <2>6, RowsByOp DEF Moved, i, m
<1>5. CASE e.op = "replace"
  <2>1. e.row \in Range(n) /\ e.row.key = e.key
    BY <1>1, <1>5, PatchFields DEF Sent
  <2>2. PICK q \in 1..Len(n) : n[q] = e.row
    BY <1>1, <2>1 DEF Range
  <2>3. Has(n, n[q].key) /\ IndexOf(n, n[q].key) = q
    BY IndexIn
  <2>4. ReplaceAt(n, q, n[q]) = n
    BY <1>1, <2>2 DEF ReplaceAt
  <2>5. QED
    BY <1>5, <2>1, <2>2, <2>3, <2>4, RowsByOp, ReplacedIs
<1>6. QED
  BY <1>1, <1>2, <1>3, <1>4, <1>5, PatchFields

-----------------------------------------------------------------------------
(* The delivery of a diff.                                                 *)

\* Both readers are where the patches that have been delivered lead.
OnTheWay(path) ==
  /\ Path(path, previous, patches, next)
  /\ rows = path[delivered]
  /\ dom = path[delivered]

\* The diff has been computed, and the readers are on the way it leads.
DeliveryInv ==
  /\ IsList(previous) /\ IsList(next)
  /\ patches = Reconcile(previous, next)
  /\ delivered \in 0..Len(patches)
  /\ \E path : OnTheWay(path)

\* A delivery starts on the way of its diff.
LEMMA DeliveryStarts == DeliveryInit => DeliveryInv
<1>1. SUFFICES ASSUME DeliveryInit PROVE DeliveryInv
  OBVIOUS
<1>2. IsList(previous) /\ IsList(next)
  BY <1>1 DEF DeliveryInit, Lists
<1>3. patches = Reconcile(previous, next) /\ delivered = 0 /\ rows = previous /\ dom = previous
  BY <1>1 DEF DeliveryInit
<1>4. Leads(previous, patches, next)
  BY <1>2, <1>3, ReconcileLeads
<1>5. PICK path : Path(path, previous, patches, next)
  BY <1>4 DEF Leads
<1>6. OnTheWay(path)
  BY <1>3, <1>5 DEF OnTheWay, Path
<1>7. delivered \in 0..Len(patches)
  BY <1>3, <1>4 DEF Leads
<1>8. QED
  BY <1>2, <1>3, <1>6, <1>7 DEF DeliveryInv

\* What the invariant says of the patches and of the readers.
LEMMA DeliveryFacts ==
  ASSUME DeliveryInv
  PROVE  /\ patches \in Seq(Patch) /\ patches \in Seq(Sent(previous, next))
         /\ Len(patches) \in Nat /\ delivered \in 0..Len(patches)
         /\ IsList(rows) /\ dom = rows
         /\ Complete => rows = next
         /\ ~Complete => Fits(rows, patches[delivered + 1])
<1>1. IsList(previous) /\ IsList(next) /\ patches = Reconcile(previous, next)
  BY DEF DeliveryInv
<1>2. patches \in Seq(Patch)
  BY <1>1, ReconcileLeads DEF Leads
<1>3. patches \in Seq(Sent(previous, next))
  BY <1>1, ReconcileSends
<1>4. Len(patches) \in Nat /\ delivered \in 0..Len(patches)
  BY <1>2 DEF DeliveryInv
<1>5. PICK path : OnTheWay(path)
  BY DEF DeliveryInv
<1>6. Path(path, previous, patches, next) /\ rows = path[delivered] /\ dom = path[delivered]
  BY <1>5 DEF OnTheWay
<1>7. IsList(rows)
  BY <1>1, <1>2, <1>4, <1>6, PathOfLists
<1>8. Complete => rows = next
  BY <1>6 DEF Complete, Path
<1>9. ~Complete => Fits(rows, patches[delivered + 1])
  <2>1. SUFFICES ASSUME ~Complete PROVE Fits(rows, patches[delivered + 1])
    OBVIOUS
  <2>2. delivered + 1 \in 1..Len(patches) /\ (delivered + 1) - 1 = delivered
    BY <1>4, <2>1 DEF Complete
  <2>3. Fits(path[(delivered + 1) - 1], patches[delivered + 1])
    BY <1>6, <2>2 DEF Path
  <2>4. QED
    BY <1>6, <2>2, <2>3
<1>10. QED
  BY <1>2, <1>3, <1>4, <1>6, <1>7, <1>8, <1>9

\* A patch leads on, and one that is delivered again changes nothing.
LEMMA DeliveryGoesOn ==
  DeliveryInv /\ [DeliveryNext]_deliveryVars => DeliveryInv'
<1>1. SUFFICES ASSUME DeliveryInv, [DeliveryNext]_deliveryVars
               PROVE  DeliveryInv'
  OBVIOUS
<1>2. /\ patches \in Seq(Patch) /\ patches \in Seq(Sent(previous, next))
      /\ Len(patches) \in Nat /\ delivered \in 0..Len(patches)
      /\ IsList(rows) /\ dom = rows
      /\ Complete => rows = next
      /\ ~Complete => Fits(rows, patches[delivered + 1])
  BY <1>1, DeliveryFacts
<1>3. PICK path : OnTheWay(path)
  BY <1>1 DEF DeliveryInv
<1>4. CASE Deliver
  <2> DEFINE d == delivered + 1
  <2>1. d \in 1..Len(patches) /\ d - 1 = delivered
    BY <1>2, <1>4 DEF Deliver, Complete
  <2>2. /\ delivered' = d /\ rows' = ApplyToRows(rows, patches[d])
        /\ dom' = ApplyToDom(dom, patches[d])
        /\ UNCHANGED <<previous, next, patches>>
    BY <1>4 DEF Deliver
  <2> HIDE DEF d
  <2>3. path[d] = ApplyToRows(rows, patches[d])
    BY <1>3, <2>1 DEF OnTheWay, Path
  <2>4. Fits(rows, patches[d]) /\ patches[d] \in Patch
    BY <1>2, <1>4, <2>1 DEF Deliver, d
  <2>5. ApplyToDom(rows, patches[d]) = ApplyToRows(rows, patches[d])
    BY <1>2, <2>4, SameOnLists
  <2>6. rows' = path[delivered'] /\ dom' = path[delivered']
    BY <1>2, <2>2, <2>3, <2>5
  <2>7. Path(path, previous', patches', next')
    BY <1>3, <2>2 DEF OnTheWay
  <2>8. OnTheWay(path)'
    BY <2>6, <2>7 DEF OnTheWay
  <2>9. delivered' \in 0..Len(patches)
    BY <2>1, <2>2
  <2>10. QED
    BY <1>1, <2>2, <2>8, <2>9 DEF DeliveryInv
<1>5. ASSUME NEW i \in DOMAIN patches, Redeliver(i)
      PROVE  DeliveryInv'
  <2>1. patches[i] \in Sent(previous, next)
    BY <1>2
  <2>2. IsList(next)
    BY <1>1 DEF DeliveryInv
  <2>3. rows' = ApplyToRows(next, patches[i]) /\ rows = next
    BY <1>2, <1>5 DEF Redeliver
  <2>4. rows' = rows
    BY <2>1, <2>2, <2>3, Settled
  <2>5. UNCHANGED <<previous, next, patches, delivered, dom>>
    BY <1>5 DEF Redeliver
  <2>6. OnTheWay(path)'
    BY <1>3, <2>4, <2>5 DEF OnTheWay
  <2>7. QED
    BY <1>1, <2>5, <2>6 DEF DeliveryInv
<1>6. CASE UNCHANGED deliveryVars
  <2>1. UNCHANGED <<previous, next, patches, delivered, rows, dom>>
    BY <1>6 DEF deliveryVars
  <2>2. OnTheWay(path)'
    BY <1>3, <2>1 DEF OnTheWay
  <2>3. QED
    BY <1>1, <2>1, <2>2 DEF DeliveryInv
<1>7. QED
  BY <1>1, <1>4, <1>5, <1>6 DEF DeliveryNext

\* The invariant of a delivery.
LEMMA DeliveryIsOnTheWay == DeliverySpec => []DeliveryInv
<1>1. QED
  BY DeliveryStarts, DeliveryGoesOn, PTL DEF DeliverySpec

\* Whatever the two versions of a list are, the patches of their diff lead
\* from the one to the other.
THEOREM DiffsAreSound == DeliverySpec => []DiffIsSound
<1>1. ASSUME DeliveryInv PROVE DiffIsSound
  <2>1. IsList(rows) /\ dom = rows /\ (Complete => rows = next)
    BY <1>1, DeliveryFacts
  <2>2. QED
    BY <2>1 DEF DiffIsSound
<1>2. QED
  BY <1>1, DeliveryIsOnTheWay, PTL

\* Whatever the two versions of a list are, no patch of their diff is wasted.
THEOREM NoPatchesAreWasted == DeliverySpec => []NoPatchIsWasted
<1>1. ASSUME DeliveryInv PROVE NoPatchIsWasted
  <2>1. patches \in Seq(Sent(previous, next)) /\ dom = rows
    BY <1>1, DeliveryFacts
  <2>2. ~Complete => Fits(rows, patches[delivered + 1])
    BY <1>1, DeliveryFacts
  <2>3. Hits
    BY <2>1, <2>2 DEF Hits, Fits
  <2>4. ASSUME NEW i \in DOMAIN patches
        PROVE  /\ patches[i].op = "replace" =>
                    ~Unchanged(RowOf(previous, patches[i].key), patches[i].row)
               /\ patches[i].op = "move" => Inverted(previous, next)
    <3>1. patches[i] \in Sent(previous, next)
      BY <2>1
    <3>2. QED
      BY <3>1 DEF Sent
  <2>5. Frugal
    BY <2>4 DEF Frugal, Inverted
  <2>6. QED
    BY <2>3, <2>5 DEF NoPatchIsWasted
<1>2. QED
  BY <1>1, DeliveryIsOnTheWay, PTL

-----------------------------------------------------------------------------
(* A diff applied as a whole.                                              *)

\* A set of numbers up to N has a greatest element, which Max names.
LEMMA Greatest ==
  ASSUME NEW N \in Nat, NEW t \in SUBSET (1..N), t # {}
  PROVE  Max(t) \in t /\ \A y \in t : Max(t) >= y
<1> DEFINE T == {N - x : x \in t}
<1>1. T \in SUBSET Nat
  OBVIOUS
<1>2. PICK e \in T : TRUE
  OBVIOUS
<1> HIDE DEF T
<1>3. PICK m \in T : \A k \in T : m <= k
  BY <1>1, <1>2, LeastNumber
<1>4. PICK x \in t : m = N - x
  BY <1>3 DEF T
<1>5. ASSUME NEW y \in t PROVE x >= y
  <2>1. N - y \in T
    BY DEF T
  <2>2. N - x <= N - y /\ x \in 1..N /\ y \in 1..N
    BY <1>3, <1>4, <2>1
  <2>3. QED
    BY <2>2
<1>6. QED
  BY <1>4, <1>5 DEF Max

\* g takes the elements of a set of numbers up to N from the least to the
\* greatest.
Folds(g, D, N, base, step) ==
  /\ g \in [SUBSET (1..N) -> D]
  /\ g[{}] = base
  /\ \A t \in SUBSET (1..N) : t # {} => g[t] = step[Max(t)][g[t \ {Max(t)}]]

\* There is such a function.
LEMMA Folding ==
  ASSUME NEW D, NEW base \in D, NEW N \in Nat, NEW step \in [1..N -> [D -> D]]
  PROVE  \E g : Folds(g, D, N, base, step)
<1> DEFINE S == {k \in 0..N : \E g : Folds(g, D, k, base, step)}
<1>1. 0 \in S
  <2> DEFINE g == [t \in SUBSET (1..0) |-> base]
  <2>1. SUBSET (1..0) = {{}}
    OBVIOUS
  <2>2. Folds(g, D, 0, base, step)
    BY <2>1 DEF Folds
  <2> HIDE DEF g
  <2>3. QED
    BY <2>2
<1>2. ASSUME NEW k \in 1..N, k - 1 \in S
      PROVE  k \in S
  <2>1. PICK f : Folds(f, D, k - 1, base, step)
    BY <1>2
  <2>2. /\ f \in [SUBSET (1..(k - 1)) -> D] /\ f[{}] = base
        /\ \A t \in SUBSET (1..(k - 1)) : t # {} => f[t] = step[Max(t)][f[t \ {Max(t)}]]
    BY <2>1 DEF Folds
  <2>3. \A t \in SUBSET (1..k) : /\ t \ {k} \in SUBSET (1..(k - 1))
                                 /\ k \notin t => t \in SUBSET (1..(k - 1))
    OBVIOUS
  <2>4. ASSUME NEW t \in SUBSET (1..k), t # {}
        PROVE  Max(t) \in t /\ \A y \in t : Max(t) >= y
    <3>1. k \in Nat
      OBVIOUS
    <3>2. QED
      BY <2>4, <3>1, Greatest
  <2>5. \A x \in D : step[k][x] \in D
    OBVIOUS
  <2> DEFINE g == [t \in SUBSET (1..k) |-> IF k \in t THEN step[k][f[t \ {k}]] ELSE f[t]]
  <2>6. ASSUME NEW t \in SUBSET (1..k) PROVE g[t] \in D
    BY <2>2, <2>3, <2>5
  <2>7. g \in [SUBSET (1..k) -> D]
    BY <2>6
  <2>8. g[{}] = base
    BY <2>2
  <2>9. ASSUME NEW t \in SUBSET (1..k), t # {}
        PROVE  g[t] = step[Max(t)][g[t \ {Max(t)}]]
    <3>1. CASE k \in t
      <4>1. Max(t) \in 1..k /\ Max(t) >= k
        BY <2>4, <2>9, <3>1
      <4>2. Max(t) = k
        BY <4>1
      <4>3. t \ {k} \in SUBSET (1..k) /\ k \notin t \ {k}
        OBVIOUS
      <4>4. g[t] = step[k][f[t \ {k}]] /\ g[t \ {k}] = f[t \ {k}]
        BY <3>1, <4>3
      <4>5. QED
        BY <4>2, <4>4
    <3>2. CASE k \notin t
      <4>1. t \ {Max(t)} \in SUBSET (1..k) /\ k \notin t \ {Max(t)}
        BY <3>2
      <4>2. g[t] = f[t] /\ g[t \ {Max(t)}] = f[t \ {Max(t)}]
        BY <3>2, <4>1
      <4>3. f[t] = step[Max(t)][f[t \ {Max(t)}]]
        BY <2>2, <2>3, <2>9, <3>2
      <4>4. QED
        BY <4>2, <4>3
    <3>3. QED
      BY <3>1, <3>2
  <2> HIDE DEF g
  <2>10. Folds(g, D, k, base, step)
    BY <2>7, <2>8, <2>9 DEF Folds
  <2>11. QED
    BY <2>10
<1>3. Climbs(S, N)
  BY <1>1, <1>2 DEF Climbs
<1> HIDE DEF S
<1>4. N \in S
  BY <1>3, UpTo
<1>5. QED
  BY <1>4 DEF S

\* The last of the numbers up to i, and the others.
LEMMA LastUpTo ==
  ASSUME NEW i \in Nat \ {0}
  PROVE  1..i # {} /\ Max(1..i) = i /\ (1..i) \ {i} = 1..(i - 1)
<1>1. 1..i \in SUBSET (1..i) /\ 1..i # {} /\ i \in 1..i /\ (1..i) \ {i} = 1..(i - 1)
  OBVIOUS
<1>2. Max(1..i) \in 1..i /\ \A y \in 1..i : Max(1..i) >= y
  BY <1>1, Greatest
<1>3. QED
  BY <1>1, <1>2

\* f is what the patches s make of the rows l one after the other, and what
\* they make of them as a whole.
AppliesRows(f, l, s) ==
  /\ f[0] = l /\ \A i \in 0..Len(s) : IsList(f[i])
  /\ \A i \in 1..Len(s) : f[i] = ApplyToRows(f[i - 1], s[i])
  /\ ApplyAllToRows(l, s) = f[Len(s)]

\* patches.reduce applies the patches one after the other.
LEMMA RowsApplied ==
  ASSUME NEW l, IsList(l), NEW s \in Seq(Patch)
  PROVE  \E f : AppliesRows(f, l, s)
<1> DEFINE D == {m \in Seq(Row) : IsList(m)}
<1>1. PICK N \in Nat : N = Len(s) /\ DOMAIN s = 1..N
  OBVIOUS
<1> DEFINE To(i, m) == ApplyToRows(m, s[i])
           step == [i \in 1..N |-> [m \in D |-> To(i, m)]]
           Is(h) == h = [t \in SUBSET DOMAIN s |->
                           IF t = {} THEN l ELSE To(Max(t), h[t \ {Max(t)}])]
           h == CHOOSE h : Is(h)
<1>2. ASSUME NEW i \in 1..N, NEW m \in D PROVE To(i, m) \in D
  <2>1. s[i] \in Patch /\ IsList(m)
    BY <1>1
  <2>2. IsList(ApplyToRows(m, s[i]))
    BY <2>1, StaysList
  <2>3. QED
    BY <2>2 DEF IsList
<1>3. l \in D
  BY DEF IsList
<1>4. ApplyAllToRows(l, s) = h[DOMAIN s]
  BY DEF ApplyAllToRows, FoldLeft, MapThenFoldSet
<1> HIDE DEF To, D
<1>5. step \in [1..N -> [D -> D]] /\ \A i \in 1..N, m \in D : step[i][m] = To(i, m)
  BY <1>2
<1> HIDE DEF step
<1>6. PICK g : Folds(g, D, N, l, step)
  BY <1>3, <1>5, Folding
<1>7. Is(g)
  <2>1. ASSUME NEW t \in SUBSET (1..N)
        PROVE  g[t] = IF t = {} THEN l ELSE To(Max(t), g[t \ {Max(t)}])
    <3>1. CASE t = {}
      BY <1>6, <3>1 DEF Folds
    <3>2. CASE t # {}
      <4>1. Max(t) \in 1..N /\ t \ {Max(t)} \in SUBSET (1..N)
        BY <3>2, Greatest
      <4>2. g[t] = step[Max(t)][g[t \ {Max(t)}]] /\ g[t \ {Max(t)}] \in D
        BY <1>6, <3>2, <4>1 DEF Folds
      <4>3. QED
        BY <1>5, <3>2, <4>1, <4>2
    <3>3. QED
      BY <3>1, <3>2
  <2>2. g = [t \in SUBSET (1..N) |-> g[t]]
    BY <1>6 DEF Folds
  <2>3. QED
    BY <1>1, <2>1, <2>2
<1>8. Is(h)
  <2> HIDE DEF Is
  <2>1. QED
    BY <1>7
<1> HIDE DEF h
<1>9. \A t \in SUBSET (1..N) : h[t] = IF t = {} THEN l ELSE To(Max(t), h[t \ {Max(t)}])
  BY <1>1, <1>8
<1> HIDE DEF Is
<1> DEFINE f == [i \in 0..N |-> h[1..i]]
           S == {i \in 0..N : f[i] \in D}
<1>10. f[0] = l
  <2>1. 1..0 = {} /\ {} \in SUBSET (1..N) /\ 0 \in 0..N
    OBVIOUS
  <2>2. f[0] = h[1..0]
    BY <2>1
  <2> HIDE DEF f
  <2>3. h[{}] = l
    BY <1>9, <2>1
  <2>4. QED
    BY <2>1, <2>2, <2>3
<1>11. ASSUME NEW i \in 1..N PROVE f[i] = To(i, f[i - 1])
  <2>1. 1..i # {} /\ Max(1..i) = i /\ (1..i) \ {i} = 1..(i - 1)
    <3>1. i \in Nat \ {0}
      OBVIOUS
    <3>2. QED
      BY <3>1, LastUpTo
  <2>2. 1..i \in SUBSET (1..N) /\ i \in 0..N /\ i - 1 \in 0..N
    OBVIOUS
  <2>3. h[1..i] = To(i, h[1..(i - 1)])
    BY <1>9, <2>1, <2>2
  <2>4. f[i] = h[1..i] /\ f[i - 1] = h[1..(i - 1)]
    BY <2>2
  <2>5. QED
    BY <2>3, <2>4
<1>12. f[N] = ApplyAllToRows(l, s)
  BY <1>1, <1>4
<1> HIDE DEF f
<1>13. Climbs(S, N)
  BY <1>2, <1>3, <1>10, <1>11 DEF Climbs
<1> HIDE DEF S
<1>14. \A i \in 0..N : f[i] \in D
  BY <1>13, UpTo DEF S
<1>15. AppliesRows(f, l, s)
  BY <1>1, <1>10, <1>11, <1>12, <1>14 DEF AppliesRows, D, To
<1>16. QED
  BY <1>15

\* f is what the patches s make of a page that shows l one after the other, and
\* what they make of it as a whole.
AppliesDom(f, l, s) ==
  /\ f[0] = l /\ \A i \in 0..Len(s) : f[i] \in Seq(Row)
  /\ \A i \in 1..Len(s) : f[i] = ApplyToDom(f[i - 1], s[i])
  /\ ApplyAllToDom(l, s) = f[Len(s)]

\* _patchList is called for the patches one after the other.
LEMMA DomApplied ==
  ASSUME NEW l \in Seq(Row), NEW s \in Seq(Patch)
  PROVE  \E f : AppliesDom(f, l, s)
<1> DEFINE D == Seq(Row)
<1>1. PICK N \in Nat : N = Len(s) /\ DOMAIN s = 1..N
  OBVIOUS
<1> DEFINE To(i, m) == ApplyToDom(m, s[i])
           step == [i \in 1..N |-> [m \in D |-> To(i, m)]]
           Is(h) == h = [t \in SUBSET DOMAIN s |->
                           IF t = {} THEN l ELSE To(Max(t), h[t \ {Max(t)}])]
           h == CHOOSE h : Is(h)
<1>2. ASSUME NEW i \in 1..N, NEW m \in D PROVE To(i, m) \in D
  <2>1. s[i] \in Patch
    BY <1>1
  <2>2. ApplyToDom(m, s[i]) \in Seq(Row)
    BY <2>1, StaysRows
  <2>3. QED
    BY <2>2
<1>3. l \in D
  OBVIOUS
<1>4. ApplyAllToDom(l, s) = h[DOMAIN s]
  BY DEF ApplyAllToDom, FoldLeft, MapThenFoldSet
<1> HIDE DEF To, D
<1>5. step \in [1..N -> [D -> D]] /\ \A i \in 1..N, m \in D : step[i][m] = To(i, m)
  BY <1>2
<1> HIDE DEF step
<1>6. PICK g : Folds(g, D, N, l, step)
  BY <1>3, <1>5, Folding
<1>7. Is(g)
  <2>1. ASSUME NEW t \in SUBSET (1..N)
        PROVE  g[t] = IF t = {} THEN l ELSE To(Max(t), g[t \ {Max(t)}])
    <3>1. CASE t = {}
      BY <1>6, <3>1 DEF Folds
    <3>2. CASE t # {}
      <4>1. Max(t) \in 1..N /\ t \ {Max(t)} \in SUBSET (1..N)
        BY <3>2, Greatest
      <4>2. g[t] = step[Max(t)][g[t \ {Max(t)}]] /\ g[t \ {Max(t)}] \in D
        BY <1>6, <3>2, <4>1 DEF Folds
      <4>3. QED
        BY <1>5, <3>2, <4>1, <4>2
    <3>3. QED
      BY <3>1, <3>2
  <2>2. g = [t \in SUBSET (1..N) |-> g[t]]
    BY <1>6 DEF Folds
  <2>3. QED
    BY <1>1, <2>1, <2>2
<1>8. Is(h)
  <2> HIDE DEF Is
  <2>1. QED
    BY <1>7
<1> HIDE DEF h
<1>9. \A t \in SUBSET (1..N) : h[t] = IF t = {} THEN l ELSE To(Max(t), h[t \ {Max(t)}])
  BY <1>1, <1>8
<1> HIDE DEF Is
<1> DEFINE f == [i \in 0..N |-> h[1..i]]
           S == {i \in 0..N : f[i] \in D}
<1>10. f[0] = l
  <2>1. 1..0 = {} /\ {} \in SUBSET (1..N) /\ 0 \in 0..N
    OBVIOUS
  <2>2. f[0] = h[1..0]
    BY <2>1
  <2> HIDE DEF f
  <2>3. h[{}] = l
    BY <1>9, <2>1
  <2>4. QED
    BY <2>1, <2>2, <2>3
<1>11. ASSUME NEW i \in 1..N PROVE f[i] = To(i, f[i - 1])
  <2>1. 1..i # {} /\ Max(1..i) = i /\ (1..i) \ {i} = 1..(i - 1)
    <3>1. i \in Nat \ {0}
      OBVIOUS
    <3>2. QED
      BY <3>1, LastUpTo
  <2>2. 1..i \in SUBSET (1..N) /\ i \in 0..N /\ i - 1 \in 0..N
    OBVIOUS
  <2>3. h[1..i] = To(i, h[1..(i - 1)])
    BY <1>9, <2>1, <2>2
  <2>4. f[i] = h[1..i] /\ f[i - 1] = h[1..(i - 1)]
    BY <2>2
  <2>5. QED
    BY <2>3, <2>4
<1>12. f[N] = ApplyAllToDom(l, s)
  BY <1>1, <1>4
<1> HIDE DEF f
<1>13. Climbs(S, N)
  BY <1>2, <1>3, <1>10, <1>11 DEF Climbs
<1> HIDE DEF S
<1>14. \A i \in 0..N : f[i] \in D
  BY <1>13, UpTo DEF S
<1>15. AppliesDom(f, l, s)
  BY <1>1, <1>10, <1>11, <1>12, <1>14 DEF AppliesDom, D, To
<1>16. QED
  BY <1>15

-----------------------------------------------------------------------------
(* The diff of two lists.                                                  *)

\* The patches that lead from one list to another turn it into the other, in
\* an array and in a page.
LEMMA LeadsApplied ==
  ASSUME NEW l, IsList(l), NEW s, NEW m, Leads(l, s, m)
  PROVE  ApplyAllToRows(l, s) = m /\ ApplyAllToDom(l, s) = m
<1>1. s \in Seq(Patch) /\ l \in Seq(Row)
  BY DEF Leads, IsList
<1>2. PICK path : Path(path, l, s, m)
  BY DEF Leads
<1>3. PICK N \in Nat : N = Len(s)
  BY <1>1
<1>4. \A i \in 1..N : s[i] \in Patch
  BY <1>1, <1>3
<1>5. /\ path[0] = l /\ path[N] = m
      /\ \A i \in 1..N : Fits(path[i - 1], s[i]) /\ path[i] = ApplyToRows(path[i - 1], s[i])
  BY <1>2, <1>3 DEF Path
<1>6. \A i \in 0..N : IsList(path[i])
  BY <1>1, <1>2, <1>3, PathOfLists
<1>7. PICK f : AppliesRows(f, l, s)
  BY <1>1, RowsApplied
<1>8. f[N] = path[N]
  <2> DEFINE S == {i \in 0..N : f[i] = path[i]}
  <2>1. \A i \in 1..N : f[i] = ApplyToRows(f[i - 1], s[i])
    BY <1>3, <1>7 DEF AppliesRows
  <2>2. Climbs(S, N)
    BY <1>5, <1>7, <2>1 DEF Climbs, AppliesRows
  <2> HIDE DEF S
  <2>3. QED
    BY <2>2, UpTo DEF S
<1>9. PICK g : AppliesDom(g, l, s)
  BY <1>1, DomApplied
<1>10. g[N] = path[N]
  <2> DEFINE S == {i \in 0..N : g[i] = path[i]}
  <2>1. \A i \in 1..N : g[i] = ApplyToDom(g[i - 1], s[i])
    BY <1>3, <1>9 DEF AppliesDom
  <2>2. ASSUME NEW i \in 1..N
        PROVE  ApplyToDom(path[i - 1], s[i]) = path[i]
    <3>1. IsList(path[i - 1]) /\ s[i] \in Patch /\ Fits(path[i - 1], s[i])
      BY <1>4, <1>5, <1>6
    <3>2. QED
      BY <1>5, <3>1, SameOnLists
  <2>3. Climbs(S, N)
    BY <1>5, <1>9, <2>1, <2>2 DEF Climbs, AppliesDom
  <2> HIDE DEF S
  <2>4. QED
    BY <2>3, UpTo DEF S
<1>11. QED
  BY <1>3, <1>5, <1>7, <1>8, <1>9, <1>10 DEF AppliesRows, AppliesDom

\* What reconcileListRows promises of two versions of a list: its patches turn
\* the one into the other, in an array and in a page, and there are none only
\* if nothing has changed.
LEMMA DiffApplied ==
  ASSUME NEW p, IsList(p), NEW n, IsList(n), NEW s, s = Reconcile(p, n)
  PROVE  /\ s \in Seq(Patch)
         /\ ApplyAllToRows(p, s) = n
         /\ ApplyAllToDom(p, s) = n
         /\ s = <<>> => p = n
<1>1. Leads(p, s, n)
  BY ReconcileLeads
<1>2. s \in Seq(Patch) /\ ApplyAllToRows(p, s) = n /\ ApplyAllToDom(p, s) = n
  BY <1>1, LeadsApplied DEF Leads
<1>3. s = <<>> => p = n
  <2>1. PICK path : Path(path, p, s, n)
    BY <1>1 DEF Leads
  <2>2. s = <<>> => Len(s) = 0
    OBVIOUS
  <2>3. QED
    BY <2>1, <2>2 DEF Path
<1>4. QED
  BY <1>2, <1>3

\* Any patches leave the rows of a list a list, and those of a page rows.
LEMMA StaysTyped ==
  ASSUME NEW s \in Seq(Patch), NEW l
  PROVE  /\ IsList(l) => IsList(ApplyAllToRows(l, s))
         /\ l \in Seq(Row) => ApplyAllToDom(l, s) \in Seq(Row)
<1>1. Len(s) \in 0..Len(s)
  OBVIOUS
<1>2. ASSUME IsList(l) PROVE IsList(ApplyAllToRows(l, s))
  <2>1. PICK f : AppliesRows(f, l, s)
    BY <1>2, RowsApplied
  <2>2. QED
    BY <1>1, <2>1 DEF AppliesRows
<1>3. ASSUME l \in Seq(Row) PROVE ApplyAllToDom(l, s) \in Seq(Row)
  <2>1. PICK f : AppliesDom(f, l, s)
    BY <1>3, DomApplied
  <2>2. QED
    BY <1>1, <2>1 DEF AppliesDom
<1>4. QED
  BY <1>2, <1>3

-----------------------------------------------------------------------------
(* The inductive invariant.                                                *)

\* The variables that hold records are records.  What is in a page and in a
\* file is left open: the diff may be applied to anything.
Shapes ==
  /\ row = [known |-> row.known, stale |-> row.stale, claimed |-> row.claimed,
            due |-> row.due, rows |-> row.rows]
  /\ json = [there |-> json.there, data |-> json.data, lists |-> json.lists,
             page |-> json.page]
  /\ tick = [pc |-> tick.pc, prev |-> tick.prev, next |-> tick.next,
             patches |-> tick.patches, saved |-> tick.saved]
  /\ tick.saved = [there |-> tick.saved.there, data |-> tick.saved.data,
                   lists |-> tick.saved.lists, page |-> tick.saved.page]
  /\ req = [pc |-> req.pc, val |-> req.val, patches |-> req.patches]
  /\ page = [open |-> page.open, shown |-> page.shown,
             container |-> page.container, steady |-> page.steady]

\* Rows come from the query.
RowsAreResults ==
  /\ data \in Results
  /\ row.known => row.rows \in Results
  /\ req.pc \in {"json", "html", "read", "upsert"} => req.val \in Results

\* The patches of a tick lead from the rows it claimed to those it was given.
TickHasDiff ==
  /\ tick.pc # "idle" => tick.prev \in Results
  /\ tick.pc \in {"read", "write", "mark", "emit"} =>
       /\ tick.next \in Results
       /\ tick.patches = Reconcile(tick.prev, tick.next)

\* Nobody else changes the stored rows between the claim and the UPDATE.
TickFollowsRow ==
  tick.pc # "idle" /\ ~cut =>
    /\ row.known
    /\ row.rows = IF tick.pc = "emit" THEN tick.next ELSE tick.prev

\* A steady page shows what the pending patches start from.
SteadyPage ==
  page.open /\ page.steady /\ ~cut =>
    /\ row.known /\ page.container
    /\ page.shown = IF tick.pc = "emit" THEN tick.prev ELSE row.rows

\* The file holds the stored rows, or those the tick is about to store; what
\* a failure would write back is what the tick claimed.
FileFollowsRow ==
  ~cut /\ ~rebaked =>
    /\ row.known /\ json.there =>
         LET held == IF tick.pc = "mark" THEN tick.next ELSE row.rows IN
         json.data = held /\ json.lists \in {<<>>, held}
    /\ tick.pc \in {"write", "mark"} =>
         tick.saved.data = tick.prev /\ tick.saved.lists \in {<<>>, tick.prev}

\* A render that baked before its list was stored will store what it baked.
RenderFollowsFile ==
  req.pc \in {"html", "read", "upsert"} =>
    /\ row.known => rebaked
    /\ ~row.known /\ json.there /\ ~cut /\ ~rebaked =>
         json.data = req.val /\ json.lists = <<>>

\* The inductive invariant.
IInv ==
  /\ Shapes
  /\ RowsAreResults
  /\ TickHasDiff
  /\ TickFollowsRow
  /\ SteadyPage
  /\ FileFollowsRow
  /\ RenderFollowsFile

-----------------------------------------------------------------------------
\* The table of diffs holds what reconcileListRows returns.
LEMMA DiffIs ==
  ASSUME NEW p \in Results, NEW n \in Results
  PROVE  Diff[p][n] = Reconcile(p, n)
BY DEF Diff

\* The patches of a tick turn the rows it claimed into those it was given.
LEMMA TickLeads ==
  ASSUME TickHasDiff, tick.pc \in {"read", "write", "mark", "emit"}
  PROVE  /\ ApplyAllToRows(tick.prev, tick.patches) = tick.next
         /\ ApplyAllToDom(tick.prev, tick.patches) = tick.next
         /\ tick.patches = <<>> => tick.prev = tick.next
<1>1. /\ tick.prev \in Results /\ tick.next \in Results
      /\ tick.patches = Reconcile(tick.prev, tick.next)
  BY DEF TickHasDiff
<1>2. IsList(tick.prev) /\ IsList(tick.next)
  BY <1>1, ResultsAreLists
<1>3. QED
  BY <1>1, <1>2, DiffApplied

\* The initial states satisfy the inductive invariant.
LEMMA InitIInv == Init => IInv
  BY DEF Init, IInv, Shapes, RowsAreResults, TickHasDiff, TickFollowsRow,
         SteadyPage, FileFollowsRow, RenderFollowsFile, NoRow, NoJson, NoTick,
         NoReq, NoPage

\* Requests that find a page, writes, and what goes out under a page.
LEMMA OutsideStep ==
  ASSUME IInv,
         \/ Hit \/ Close \/ Changed \/ Deleted \/ Purge
         \/ \E result \in Results : Write(result, "changes") \/ Write(result, "deletions")
  PROVE  IInv'
<1> USE DEF IInv, Shapes, RowsAreResults, TickHasDiff, TickFollowsRow, SteadyPage,
            FileFollowsRow, RenderFollowsFile, NoRow, NoJson, NoPage
<1>1. CASE Hit
  BY <1>1 DEF Hit, Opens
<1>2. CASE Close
  BY <1>2 DEF Close
<1>3. ASSUME NEW result \in Results, NEW kind \in {"changes", "deletions"},
             Write(result, kind)
      PROVE  IInv'
  BY <1>3 DEF Write
<1>4. CASE Changed
  BY <1>4 DEF Changed
<1>5. CASE Deleted
  BY <1>5 DEF Deleted, RemoveRow
<1>6. CASE Purge
  BY <1>6 DEF Purge, RemoveRow
<1>7. QED
  BY <1>1, <1>2, <1>3, <1>4, <1>5, <1>6

\* What a page of the browser shows when patches arrive.
LEMMA ReceiveChanges ==
  ASSUME Shapes, NEW s, NEW steady, Receive(s, steady)
  PROVE  \/ /\ page.open /\ page.container /\ s # <<>>
            /\ page' = [open |-> page.open,
                        shown |-> ApplyAllToDom(page.shown, s),
                        container |-> page.container, steady |-> steady]
         \/ page' = NoPage
         \/ page' = page /\ (page.open /\ page.container => s = <<>>)
  BY DEF Receive, Shapes

\* What is known of a page that has just opened.
OpensWith(shown, r) ==
  /\ page'.shown = shown
  /\ page'.steady => r.known /\ r.rows = shown /\ tick.pc # "emit" /\ page'.container

\* It is known of a page that opens.
LEMMA OpenedPage ==
  ASSUME NEW shown, NEW r, Opens(shown, r)
  PROVE  OpensWith(shown, r)
<1> DEFINE some == shown # <<>>
           steady == r.known /\ r.rows = shown /\ some /\ tick.pc # "emit"
<1>1. page' = [open |-> TRUE, shown |-> shown, container |-> some, steady |-> steady]
  BY DEF Opens
<1>2. steady => r.known /\ r.rows = shown /\ tick.pc # "emit" /\ some
  OBVIOUS
<1> HIDE DEF some, steady
<1>3. page'.shown = shown /\ page'.container = some /\ page'.steady = steady
  BY <1>1
<1>4. QED
  BY <1>2, <1>3 DEF OpensWith

\* A render.
LEMMA RenderStep ==
  ASSUME IInv,
         Miss \/ Reject \/ Load \/ BakeJson \/ BakeHtml \/ ReadSnapshot \/ Register
  PROVE  IInv'
<1> USE DEF IInv, RowsAreResults, TickHasDiff, TickFollowsRow, SteadyPage,
            FileFollowsRow, RenderFollowsFile, NoRow, NoJson, NoReq, NoPage
<1>1. CASE Miss
  BY <1>1 DEF Miss, StartRender, Shapes
<1>2. CASE Reject
  BY <1>2 DEF Reject, StartRender, Shapes
<1>3. CASE Load
  BY <1>3 DEF Load, Shapes
<1>4. CASE BakeJson
  BY <1>4 DEF BakeJson, Shapes
<1>5. CASE BakeHtml
  BY <1>5 DEF BakeHtml, Shapes
<1>6. CASE ReadSnapshot
  BY <1>6 DEF ReadSnapshot, Shapes
<1>7. CASE Register
  <2>1. /\ req.pc = "upsert" /\ req' = NoReq
        /\ UNCHANGED <<data, json, tick, cut, rebaked>>
    BY <1>7 DEF Register
  <2>2. \/ row.known /\ row' = row
        \/ /\ ~row.known
           /\ row' = [known |-> TRUE, stale |-> FALSE, claimed |-> FALSE,
                      due |-> FALSE, rows |-> req.val]
    BY <1>7 DEF Register, Shapes
  <2>3. \/ /\ page.open
           /\ Receive(req.patches, page.steady /\ req.patches = <<>>)
        \/ /\ ~page.open
           /\ Opens(req.val, row')
    BY <1>7 DEF Register
  <2>4. Shapes'
    <3>1. page' = [open |-> page'.open, shown |-> page'.shown,
                   container |-> page'.container, steady |-> page'.steady]
      BY <2>3, ReceiveChanges DEF Opens, Shapes
    <3>2. QED
      BY <2>1, <2>2, <3>1 DEF Shapes
  <2>5. RowsAreResults' /\ TickHasDiff' /\ TickFollowsRow'
    BY <2>1, <2>2 DEF Shapes
  <2>6. SteadyPage'
    <3>1. CASE ~page.open
      <4>1. OpensWith(req.val, row')
        BY <2>3, <3>1, OpenedPage
      <4>2. QED
        BY <2>1, <4>1 DEF OpensWith
    <3>2. CASE page.open
      <4> DEFINE steady == page.steady /\ req.patches = <<>>
      <4>1. Receive(req.patches, steady)
        BY <2>3, <3>2
      <4>2. req.patches # <<>> => steady = FALSE
        OBVIOUS
      <4> HIDE DEF steady
      <4>3. page' = page \/ ~page'.steady
        BY <4>1, <4>2, ReceiveChanges
      <4>4. QED
        BY <2>1, <2>2, <4>3
    <3>3. QED
      BY <3>1, <3>2
  <2>7. FileFollowsRow' /\ RenderFollowsFile'
    BY <2>1, <2>2 DEF Shapes
  <2>8. QED
    BY <2>4, <2>5, <2>6, <2>7
<1>8. QED
  BY <1>1, <1>2, <1>3, <1>4, <1>5, <1>6, <1>7

\* The clock, the tick and what stops it.
LEMMA WatcherStep ==
  ASSUME IInv, TimerElapses \/ ClaimExpires \/ Claim \/ TickStep \/ Fail \/ Restart
  PROVE  IInv'
<1> USE DEF IInv, RowsAreResults, TickHasDiff, TickFollowsRow, SteadyPage,
            FileFollowsRow, RenderFollowsFile, NoRow, NoJson, NoTick, NoReq, NoPage
<1>1. CASE TimerElapses
  BY <1>1 DEF TimerElapses, Shapes
<1>2. CASE ClaimExpires
  BY <1>2 DEF ClaimExpires, Shapes
<1>3. CASE Claim
  BY <1>3 DEF Claim, Shapes
<1>4. CASE Query
  BY <1>4, DiffIs DEF Query, Shapes
<1>5. CASE ReadJson
  BY <1>5 DEF ReadJson, Shapes
<1>6. CASE WriteJson
  <2>1. /\ tick.pc = "write"
        /\ tick' = [pc |-> "mark", prev |-> tick.prev, next |-> tick.next,
                    patches |-> tick.patches, saved |-> tick.saved]
        /\ json' = [there |-> tick.saved.there,
                    data |-> ApplyAllToRows(tick.saved.data, tick.patches),
                    lists |-> tick.next, page |-> tick.saved.page]
        /\ UNCHANGED <<data, row, req, page, cut, rebaked>>
    BY <1>6 DEF WriteJson, Shapes
  <2>2. Shapes' /\ RowsAreResults' /\ TickHasDiff' /\ TickFollowsRow' /\ SteadyPage'
    BY <2>1 DEF Shapes
  <2>3. ~cut /\ ~rebaked => json'.data = tick.next
    BY <2>1, TickLeads
  <2>4. FileFollowsRow'
    BY <2>1, <2>3
  <2>5. RenderFollowsFile'
    BY <2>1
  <2>6. QED
    BY <2>2, <2>4, <2>5
<1>7. CASE MarkFresh
  BY <1>7 DEF MarkFresh, Shapes
<1>8. CASE Emit
  <2>1. /\ tick.pc = "emit" /\ tick' = NoTick
        /\ Receive(tick.patches, page.steady)
        /\ UNCHANGED <<data, row, json, req, cut, rebaked>>
    BY <1>8 DEF Emit
  <2>2. \/ /\ page.open /\ page.container /\ tick.patches # <<>>
           /\ page' = [open |-> page.open,
                       shown |-> ApplyAllToDom(page.shown, tick.patches),
                       container |-> page.container, steady |-> page.steady]
        \/ page' = NoPage
        \/ page' = page /\ (page.open /\ page.container => tick.patches = <<>>)
    BY <2>1, ReceiveChanges
  <2>3. Shapes'
    BY <2>1, <2>2 DEF Shapes
  <2>4. RowsAreResults' /\ TickHasDiff' /\ TickFollowsRow' /\ FileFollowsRow'
          /\ RenderFollowsFile'
    BY <2>1
  <2>5. SteadyPage'
    <3>1. page.open /\ page.steady /\ ~cut =>
            /\ page.shown = tick.prev /\ row.rows = tick.next
            /\ ApplyAllToDom(page.shown, tick.patches) = row.rows
            /\ tick.patches = <<>> => page.shown = row.rows
      BY <2>1, TickLeads
    <3>2. QED
      BY <2>1, <2>2, <3>1
  <2>6. QED
    BY <2>3, <2>4, <2>5
<1>9. CASE Fail
  BY <1>9 DEF Fail, Shapes
<1>10. CASE Restart
  BY <1>10 DEF Restart, Shapes
<1>11. QED
  BY <1>1, <1>2, <1>3, <1>4, <1>5, <1>6, <1>7, <1>8, <1>9, <1>10 DEF TickStep

\* The invariant is inductive.
LEMMA Invariant == Spec => []IInv
<1>1. IInv /\ [Next]_vars => IInv'
  <2> SUFFICES ASSUME IInv, [Next]_vars PROVE IInv'
    OBVIOUS
  <2>1. CASE UNCHANGED vars
    BY <2>1 DEF vars, IInv, Shapes, RowsAreResults, TickHasDiff, TickFollowsRow,
                SteadyPage, FileFollowsRow, RenderFollowsFile
  <2>2. CASE Next
    BY <2>2, OutsideStep, RenderStep, WatcherStep DEF Next
  <2>3. QED
    BY <2>1, <2>2
<1>2. QED
  BY InitIInv, <1>1, PTL DEF Spec

-----------------------------------------------------------------------------
\* A page that opened with the stored rows keeps showing them: for every set of
\* results, whatever writes, notices, ticks and failures interleave
\* (watcher.ts, revalidateLiveList; live-client-script.ts, _patchList).
THEOREM PageStaysInStep == Spec => []PageInStep
<1>1. IInv => PageInStep
  BY DEF IInv, SteadyPage, PageInStep
<1>2. QED
  BY Invariant, <1>1, PTL

\* The JSON of the artifact holds the stored rows outside the two writes of a
\* tick, whichever step fails: the rollback of revalidateLiveList restores
\* what the row still says (watcher.ts).
THEOREM ArtifactStaysInStep == Spec => []ArtifactInStep
<1>1. IInv => ArtifactInStep
  BY DEF IInv, FileFollowsRow, ArtifactInStep
<1>2. QED
  BY Invariant, <1>1, PTL

-----------------------------------------------------------------------------
(* Types.                                                                  *)

\* What is stored of a result, or nothing.
Stored == Results \union {<<>>}

\* The list's row of kiln_fsr_lists.
RowTyped ==
  /\ {row.known, row.stale, row.claimed, row.due} \subseteq BOOLEAN
  /\ row.rows \in Stored
  /\ ~row.known => row = NoRow

\* The HTML of the artifact.
ShellTyped ==
  /\ shell = [there |-> shell.there, rows |-> shell.rows]
  /\ shell.there \in BOOLEAN /\ shell.rows \in Stored

\* The JSON of the artifact, on disk or in the hands of a tick.
FileTyped(file) ==
  /\ IsList(file.data) /\ file.lists \in Stored /\ file.page \in Stored
  /\ ~file.there => file = NoJson

\* The tick.
TickTyped ==
  /\ tick.pc \in {"idle", "query", "read", "write", "mark", "emit"}
  /\ tick.prev \in Stored /\ tick.next \in Stored
  /\ tick.patches \in Seq(Patch)
  /\ tick.pc \in {"write", "mark"} => tick.saved.there

\* The render.
ReqTyped ==
  /\ req.pc \in {"idle", "load", "json", "html", "read", "upsert"}
  /\ req.val \in Stored
  /\ req.patches \in Seq(Patch)

\* The page in a browser.
PageTyped ==
  /\ page.shown \in Seq(Row)
  /\ {page.open, page.container, page.steady} \subseteq BOOLEAN

\* A notice is owed for a write.
CountsTyped ==
  /\ used \in [writes : 0..MaxWrites, renders : 0..MaxRenders, upsets : 0..MaxUpsets]
  /\ owed \in [changes : Nat, deletions : Nat]
  /\ owed.changes + owed.deletions <= used.writes

\* The flags.
FlagsTyped == {registered, reloaded, cut, rebaked} \subseteq BOOLEAN

\* All types, and what they rest on.
TInv ==
  /\ RowTyped
  /\ ShellTyped
  /\ FileTyped(json) /\ FileTyped(tick.saved)
  /\ TickTyped
  /\ ReqTyped
  /\ PageTyped
  /\ CountsTyped
  /\ FlagsTyped

\* The invariant has all the types.
LEMMA TInvTypes ==
  ASSUME IInv, TInv
  PROVE  TypeOK
<1>1. Shapes /\ data \in Results
  BY DEF IInv, RowsAreResults
<1>2. owed \in [changes : 0..MaxWrites, deletions : 0..MaxWrites]
  <2>1. owed = [changes |-> owed.changes, deletions |-> owed.deletions]
    BY DEF TInv, CountsTyped
  <2>2. owed.changes \in 0..MaxWrites /\ owed.deletions \in 0..MaxWrites
    BY BoundsAreNat DEF TInv, CountsTyped
  <2>3. QED
    BY <2>1, <2>2
<1>3. row \in [known : BOOLEAN, stale : BOOLEAN, claimed : BOOLEAN,
               due : BOOLEAN, rows : Stored]
  BY <1>1 DEF Shapes, TInv, RowTyped
<1>4. shell \in [there : BOOLEAN, rows : Stored]
  BY DEF TInv, ShellTyped
<1>5. \A file \in {json, tick.saved} : FileTyped(file)
  BY DEF TInv
<1>6. QED
  BY <1>1, <1>2, <1>3, <1>4, <1>5 DEF TypeOK, TInv, RowTyped, FileTyped, TickTyped,
     ReqTyped, PageTyped, FlagsTyped, Stored

\* Results and nothing are lists.
LEMMA StoredAreLists ==
  /\ <<>> \in Stored /\ Results \subseteq Stored
  /\ \A r \in Stored : IsList(r) /\ r \in Seq(Row)
<1>1. IsList(<<>>)
  BY DEF IsList, KeysOf, IsInjective
<1>2. QED
  BY <1>1, ResultsAreLists DEF Stored, IsList

\* The initial states have the types.
LEMMA InitTInv == Init => TInv
<1>1. SUFFICES ASSUME Init PROVE TInv
  OBVIOUS
<1> USE <1>1, StoredAreLists DEF Init
<1>2. RowTyped /\ ShellTyped
  BY DEF RowTyped, ShellTyped, NoRow, NoShell
<1>3. FileTyped(json) /\ FileTyped(tick.saved)
  BY DEF FileTyped, NoJson, NoTick
<1>4. TickTyped /\ ReqTyped
  BY DEF TickTyped, ReqTyped, NoTick, NoReq
<1>5. PageTyped
  BY DEF PageTyped, NoPage
<1>6. CountsTyped /\ FlagsTyped
  <2>1. 0 \in 0..MaxWrites /\ 0 \in 0..MaxRenders /\ 0 \in 0..MaxUpsets
    BY BoundsAreNat
  <2>2. /\ used = [writes |-> 0, renders |-> 0, upsets |-> 0]
        /\ owed = [changes |-> 0, deletions |-> 0]
    BY <1>1 DEF Init
  <2>3. used \in [writes : 0..MaxWrites, renders : 0..MaxRenders, upsets : 0..MaxUpsets]
    BY <2>1, <2>2
  <2>4. owed \in [changes : Nat, deletions : Nat]
    BY <2>2
  <2>5. owed.changes + owed.deletions <= used.writes
    BY <2>2
  <2>6. CountsTyped
    BY <2>3, <2>4, <2>5 DEF CountsTyped
  <2>7. QED
    BY <2>6 DEF FlagsTyped
<1>7. QED
  BY <1>2, <1>3, <1>4, <1>5, <1>6 DEF TInv


\* What a budget is spent on is typed as long as there is some left.
LEMMA SpendTyped ==
  ASSUME CountsTyped
  PROVE  /\ used.renders < MaxRenders /\ Spend("renders") /\ owed' = owed => CountsTyped'
         /\ used.upsets < MaxUpsets /\ Spend("upsets") /\ owed' = owed => CountsTyped'
         /\ used' = used /\ owed' = owed => CountsTyped'
<1>1. /\ used = [writes |-> used.writes, renders |-> used.renders, upsets |-> used.upsets]
      /\ used.writes \in 0..MaxWrites /\ used.renders \in 0..MaxRenders
      /\ used.upsets \in 0..MaxUpsets
      /\ owed \in [changes : Nat, deletions : Nat]
      /\ owed.changes + owed.deletions <= used.writes
  BY DEF CountsTyped
<1>2. ASSUME used.renders < MaxRenders, Spend("renders"), owed' = owed
      PROVE  CountsTyped'
  <2>1. used' = [writes |-> used.writes, renders |-> used.renders + 1, upsets |-> used.upsets]
    BY <1>1, <1>2 DEF Spend
  <2>2. used.renders + 1 \in 0..MaxRenders
    BY <1>1, <1>2, BoundsAreNat
  <2>3. used' \in [writes : 0..MaxWrites, renders : 0..MaxRenders, upsets : 0..MaxUpsets]
    BY <1>1, <2>1, <2>2
  <2>4. used'.writes = used.writes
    BY <2>1
  <2>5. QED
    BY <1>1, <1>2, <2>3, <2>4 DEF CountsTyped
<1>3. ASSUME used.upsets < MaxUpsets, Spend("upsets"), owed' = owed
      PROVE  CountsTyped'
  <2>1. used' = [writes |-> used.writes, renders |-> used.renders, upsets |-> used.upsets + 1]
    BY <1>1, <1>3 DEF Spend
  <2>2. used.upsets + 1 \in 0..MaxUpsets
    BY <1>1, <1>3, BoundsAreNat
  <2>3. used' \in [writes : 0..MaxWrites, renders : 0..MaxRenders, upsets : 0..MaxUpsets]
    BY <1>1, <2>1, <2>2
  <2>4. used'.writes = used.writes
    BY <2>1
  <2>5. QED
    BY <1>1, <1>3, <2>3, <2>4 DEF CountsTyped
<1>4. used' = used /\ owed' = owed => CountsTyped'
  BY DEF CountsTyped
<1>5. QED
  BY <1>2, <1>3, <1>4

\* A write owes a notice, and a notice is handled once.
LEMMA OwedTyped ==
  ASSUME CountsTyped
  PROVE  /\ \A result, kind : Write(result, kind) /\ kind \in {"changes", "deletions"}
                                => CountsTyped'
         /\ Changed \/ Deleted => CountsTyped'
<1>1. /\ used = [writes |-> used.writes, renders |-> used.renders, upsets |-> used.upsets]
      /\ used.writes \in 0..MaxWrites /\ used.renders \in 0..MaxRenders
      /\ used.upsets \in 0..MaxUpsets
      /\ owed = [changes |-> owed.changes, deletions |-> owed.deletions]
      /\ owed.changes \in Nat /\ owed.deletions \in Nat
      /\ owed.changes + owed.deletions <= used.writes
  BY DEF CountsTyped
<1>2. ASSUME NEW result, NEW kind \in {"changes", "deletions"}, Write(result, kind)
      PROVE  CountsTyped'
  <2>1. used' = [writes |-> used.writes + 1, renders |-> used.renders, upsets |-> used.upsets]
    BY <1>1, <1>2 DEF Write, Spend
  <2>2. used.writes + 1 \in 0..MaxWrites
    BY <1>1, <1>2, BoundsAreNat DEF Write
  <2>3. used' \in [writes : 0..MaxWrites, renders : 0..MaxRenders, upsets : 0..MaxUpsets]
        /\ used'.writes = used.writes + 1
    BY <1>1, <2>1, <2>2
  <2>4. \/ owed' = [changes |-> owed.changes + 1, deletions |-> owed.deletions]
        \/ owed' = [changes |-> owed.changes, deletions |-> owed.deletions + 1]
    BY <1>1, <1>2 DEF Write
  <2>5. /\ owed' \in [changes : Nat, deletions : Nat]
        /\ owed'.changes + owed'.deletions = owed.changes + owed.deletions + 1
    BY <1>1, <2>4
  <2>6. owed'.changes + owed'.deletions <= used'.writes
    BY <1>1, <2>3, <2>5
  <2>7. QED
    BY <2>3, <2>5, <2>6 DEF CountsTyped
<1>3. ASSUME Changed \/ Deleted
      PROVE  CountsTyped'
  <2>1. used' = used
    BY <1>3 DEF Changed, Deleted
  <2>2. \/ /\ owed' = [changes |-> owed.changes - 1, deletions |-> owed.deletions]
           /\ owed.changes > 0
        \/ /\ owed' = [changes |-> owed.changes, deletions |-> owed.deletions - 1]
           /\ owed.deletions > 0
    BY <1>1, <1>3 DEF Changed, Deleted
  <2>3. /\ owed' \in [changes : Nat, deletions : Nat]
        /\ owed'.changes + owed'.deletions = owed.changes + owed.deletions - 1
    BY <1>1, <2>2
  <2>4. owed'.changes + owed'.deletions <= used'.writes
    BY <1>1, <2>1, <2>3
  <2>5. QED
    BY <2>1, <2>3, <2>4 DEF CountsTyped
<1>4. QED
  BY <1>2, <1>3


\* The rows of a materialized shell are rows.
LEMMA MaterializedRows ==
  ASSUME ShellTyped, FileTyped(json)
  PROVE  Materialized \in Seq(Row)
<1>1. shell.rows \in Seq(Row) /\ json.lists \in Seq(Row)
  BY StoredAreLists DEF ShellTyped, FileTyped
<1>2. DOMAIN shell.rows = 1..Len(shell.rows) /\ Len(shell.rows) \in Nat
      /\ \A i \in DOMAIN shell.rows : shell.rows[i] \in Row
  BY <1>1
<1> DEFINE New(i) == IF Has(json.lists, shell.rows[i].key)
                     THEN RowOf(json.lists, shell.rows[i].key) ELSE shell.rows[i]
<1>3. ASSUME NEW i \in DOMAIN shell.rows PROVE New(i) \in Row
  <2>1. CASE Has(json.lists, shell.rows[i].key)
    <3>1. IndexOf(json.lists, shell.rows[i].key) \in 1..Len(json.lists)
      BY <1>1, <2>1, IndexFound
    <3>2. RowOf(json.lists, shell.rows[i].key) \in Row
      BY <1>1, <3>1 DEF RowOf
    <3>3. QED
      BY <2>1, <3>2
  <2>2. CASE ~Has(json.lists, shell.rows[i].key)
    BY <1>2, <2>2
  <2>3. QED
    BY <2>1, <2>2
<1>4. Materialized = [i \in 1..Len(shell.rows) |-> New(i)]
  BY <1>2 DEF Materialized
<1> HIDE DEF New
<1>5. Materialized \in [1..Len(shell.rows) -> Row]
  BY <1>2, <1>3, <1>4
<1>6. QED
  BY <1>2, <1>5, SeqDef

\* A page that opens with rows shows rows.
LEMMA OpensTyped ==
  ASSUME NEW shown \in Seq(Row), NEW r, r.known \in BOOLEAN, FlagsTyped, Opens(shown, r)
  PROVE  PageTyped' /\ reloaded' \in BOOLEAN
<1> DEFINE some == shown # <<>>
           steady == r.known /\ r.rows = shown /\ some /\ tick.pc # "emit"
<1>1. page' = [open |-> TRUE, shown |-> shown, container |-> some, steady |-> steady]
  BY DEF Opens
<1>2. some \in BOOLEAN /\ steady \in BOOLEAN
  OBVIOUS
<1>3. reloaded' \in BOOLEAN
  BY DEF Opens
<1> HIDE DEF some, steady
<1>4. QED
  BY <1>1, <1>2, <1>3 DEF PageTyped

\* A page that receives patches shows rows.
LEMMA ReceiveTyped ==
  ASSUME Shapes, PageTyped, FlagsTyped,
         NEW s \in Seq(Patch), NEW steady \in BOOLEAN, Receive(s, steady)
  PROVE  PageTyped' /\ reloaded' \in BOOLEAN
<1>1. ApplyAllToDom(page.shown, s) \in Seq(Row)
  BY StaysTyped DEF PageTyped
<1>2. NoPage.shown \in Seq(Row) /\ {NoPage.open, NoPage.container, NoPage.steady} \subseteq BOOLEAN
  BY StoredAreLists DEF NoPage
<1>3. page'.shown \in Seq(Row) /\ {page'.open, page'.container, page'.steady} \subseteq BOOLEAN
  BY <1>1, <1>2, ReceiveChanges DEF PageTyped
<1>4. reloaded' \in BOOLEAN
  BY DEF Receive, FlagsTyped
<1>5. QED
  BY <1>3, <1>4 DEF PageTyped

-----------------------------------------------------------------------------
(* The steps keep the types.                                               *)

\* Requests that find a page, writes, and what goes out under a page.
LEMMA OutsideTyped ==
  ASSUME IInv, TInv,
         \/ Hit \/ Close \/ Changed \/ Deleted \/ Purge
         \/ \E result \in Results : Write(result, "changes") \/ Write(result, "deletions")
  PROVE  TInv'
<1> USE DEF TInv
<1>1. Shapes
  BY DEF IInv
<1>2. CASE Hit
  <2>1. Opens(Materialized, row) /\ UNCHANGED <<owed, row, shell, json, registered,
                                                tick, req, cut, rebaked, used>>
    BY <1>2 DEF Hit
  <2>2. Materialized \in Seq(Row) /\ row.known \in BOOLEAN
    BY MaterializedRows DEF RowTyped
  <2>3. PageTyped' /\ reloaded' \in BOOLEAN
    BY <2>1, <2>2, OpensTyped
  <2>4. QED
    BY <2>1, <2>3 DEF RowTyped, ShellTyped, FileTyped, TickTyped, ReqTyped, CountsTyped,
       FlagsTyped
<1>3. CASE Close
  <2>1. PageTyped'
    BY <1>3, StoredAreLists DEF Close, PageTyped, NoPage
  <2>2. QED
    BY <1>3, <2>1 DEF Close, RowTyped, ShellTyped, FileTyped, TickTyped, ReqTyped,
       CountsTyped, FlagsTyped
<1>4. CASE Changed
  <2>1. CountsTyped'
    BY <1>4, OwedTyped
  <2>2. row' = [known |-> row.known, stale |-> row.known, claimed |-> row.claimed,
                due |-> row.due, rows |-> row.rows]
    BY <1>1, <1>4 DEF Changed, Shapes
  <2>3. ~row.known => /\ row.known = FALSE /\ row.claimed = FALSE /\ row.due = FALSE
                      /\ row.rows = <<>>
    BY DEF RowTyped, NoRow
  <2>4. ~row.known => row' = NoRow
    BY <2>2, <2>3 DEF NoRow
  <2>5. RowTyped'
    BY <2>2, <2>4 DEF RowTyped
  <2>6. QED
    BY <1>4, <2>1, <2>5 DEF Changed, ShellTyped, FileTyped, TickTyped, ReqTyped, PageTyped,
       FlagsTyped
<1>5. ASSUME RemoveRow PROVE RowTyped' /\ PageTyped' /\ cut' \in BOOLEAN
  <2>1. RowTyped'
    BY <1>5, StoredAreLists DEF RemoveRow, RowTyped, NoRow
  <2>2. page' = [open |-> page.open, shown |-> page.shown,
                 container |-> page.container, steady |-> FALSE]
    BY <1>1, <1>5 DEF RemoveRow, Shapes
  <2>3. cut' \in BOOLEAN
    BY <1>5 DEF RemoveRow, FlagsTyped
  <2>4. QED
    BY <2>1, <2>2, <2>3 DEF PageTyped
<1>6. CASE Deleted
  <2>1. CountsTyped'
    BY <1>6, OwedTyped
  <2>2. RowTyped' /\ PageTyped' /\ cut' \in BOOLEAN
    BY <1>5, <1>6 DEF Deleted
  <2>3. QED
    BY <1>6, <2>1, <2>2 DEF Deleted, ShellTyped, FileTyped, TickTyped, ReqTyped, FlagsTyped
<1>7. CASE Purge
  <2>1. CountsTyped'
    BY <1>7, SpendTyped DEF Purge
  <2>2. RowTyped' /\ PageTyped' /\ cut' \in BOOLEAN
    BY <1>5, <1>7 DEF Purge
  <2>3. ShellTyped' /\ FileTyped(json)'
    BY <1>7, StoredAreLists DEF Purge, ShellTyped, NoShell, FileTyped, NoJson
  <2>4. QED
    BY <1>7, <2>1, <2>2, <2>3 DEF Purge, FileTyped, TickTyped, ReqTyped, FlagsTyped
<1>8. ASSUME NEW result \in Results, NEW kind \in {"changes", "deletions"},
             Write(result, kind)
      PROVE  TInv'
  <2>1. CountsTyped'
    BY <1>8, OwedTyped
  <2>2. QED
    BY <1>8, <2>1 DEF Write, RowTyped, ShellTyped, FileTyped, TickTyped, ReqTyped,
       PageTyped, FlagsTyped
<1>9. QED
  BY <1>2, <1>3, <1>4, <1>6, <1>7, <1>8

\* A render.
LEMMA RenderTyped ==
  ASSUME IInv, TInv,
         Miss \/ Reject \/ Load \/ BakeJson \/ BakeHtml \/ ReadSnapshot \/ Register
  PROVE  TInv'
<1> USE DEF TInv
<1>1. Shapes /\ data \in Results
  BY DEF IInv, RowsAreResults
<1>2. ASSUME NEW files, StartRender(files),
             files.shell \in {shell, NoShell}, files.json \in {json, NoJson}
      PROVE  TInv'
  <2>1. CountsTyped'
    BY <1>2, SpendTyped DEF StartRender
  <2>2. shell' \in {shell, NoShell} /\ json' \in {json, NoJson}
    BY <1>2 DEF StartRender
  <2>3. ShellTyped'
    <3>1. CASE shell' = shell
      BY <3>1 DEF ShellTyped
    <3>2. CASE shell' = NoShell
      BY <3>2, StoredAreLists DEF ShellTyped, NoShell
    <3>3. QED
      BY <2>2, <3>1, <3>2
  <2>4. FileTyped(NoJson)
    BY StoredAreLists DEF NoJson, FileTyped
  <2>5. FileTyped(json)'
    BY <2>2, <2>4 DEF FileTyped
  <2>6. ReqTyped'
    BY <1>1, <1>2 DEF StartRender, ReqTyped, Shapes
  <2>7. QED
    BY <1>2, <2>1, <2>3, <2>5, <2>6 DEF StartRender, RowTyped, FileTyped, TickTyped, PageTyped,
       FlagsTyped
<1>3. CASE Miss \/ Reject
  BY <1>2, <1>3 DEF Miss, Reject
<1>4. CASE Load
  <2>1. ReqTyped'
    BY <1>1, <1>4, StoredAreLists DEF Load, ReqTyped, Shapes
  <2>2. QED
    BY <1>4, <2>1 DEF Load, RowTyped, ShellTyped, FileTyped, TickTyped, PageTyped,
       CountsTyped, FlagsTyped
<1>5. CASE BakeJson
  <2>1. ReqTyped'
    BY <1>1, <1>5 DEF BakeJson, ReqTyped, Shapes
  <2>2. FileTyped(json)'
    BY <1>5, StoredAreLists DEF BakeJson, FileTyped, ReqTyped
  <2>3. rebaked' \in BOOLEAN
    BY <1>5 DEF BakeJson, RowTyped
  <2>4. QED
    BY <1>5, <2>1, <2>2, <2>3 DEF BakeJson, RowTyped, ShellTyped, FileTyped, TickTyped,
       PageTyped, CountsTyped, FlagsTyped
<1>6. CASE BakeHtml
  <2>1. ReqTyped'
    BY <1>1, <1>6 DEF BakeHtml, ReqTyped, Shapes
  <2>2. ShellTyped'
    BY <1>6 DEF BakeHtml, ShellTyped, ReqTyped
  <2>3. QED
    BY <1>6, <2>1, <2>2 DEF BakeHtml, RowTyped, FileTyped, TickTyped, PageTyped,
       CountsTyped, FlagsTyped
<1>7. CASE ReadSnapshot
  <2>1. row.known => Diff[row.rows][req.val] \in Seq(Patch)
    <3>1. SUFFICES ASSUME row.known PROVE Diff[row.rows][req.val] \in Seq(Patch)
      OBVIOUS
    <3>2. row.rows \in Results /\ req.val \in Results
      BY <1>7, <3>1 DEF IInv, RowsAreResults, ReadSnapshot
    <3>3. QED
      BY <3>2, DiffIs, DiffApplied, ResultsAreLists
  <2>2. <<>> \in Seq(Patch)
    OBVIOUS
  <2>3. req' = [pc |-> "upsert", val |-> req.val,
                patches |-> IF row.known THEN Diff[row.rows][req.val] ELSE <<>>]
    BY <1>1, <1>7 DEF ReadSnapshot, Shapes
  <2>4. ReqTyped'
    BY <2>1, <2>2, <2>3 DEF ReqTyped
  <2>5. QED
    BY <1>7, <2>4 DEF ReadSnapshot, RowTyped, ShellTyped, FileTyped, TickTyped, PageTyped,
       CountsTyped, FlagsTyped
<1>8. CASE Register
  <2>1. RowTyped' /\ row'.known \in BOOLEAN
    BY <1>1, <1>8 DEF Register, RowTyped, ReqTyped, NoRow, Shapes
  <2>2. ReqTyped'
    BY <1>8, StoredAreLists DEF Register, ReqTyped, NoReq
  <2>3. PageTyped' /\ reloaded' \in BOOLEAN
    <3>1. CASE page.open
      <4> DEFINE steady == page.steady /\ req.patches = <<>>
      <4>1. Receive(req.patches, steady)
        BY <1>8, <3>1 DEF Register
      <4>2. steady \in BOOLEAN /\ req.patches \in Seq(Patch)
        BY DEF PageTyped, ReqTyped
      <4> HIDE DEF steady
      <4>3. QED
        BY <1>1, <4>1, <4>2, ReceiveTyped
    <3>2. CASE ~page.open
      <4>1. Opens(req.val, row')
        BY <1>8, <3>2 DEF Register
      <4>2. req.val \in Seq(Row)
        BY StoredAreLists DEF ReqTyped
      <4>3. QED
        BY <2>1, <4>1, <4>2, OpensTyped
    <3>3. QED
      BY <3>1, <3>2
  <2>4. registered' \in BOOLEAN
    BY <1>8 DEF Register
  <2>5. QED
    BY <1>8, <2>1, <2>2, <2>3, <2>4 DEF Register, ShellTyped, FileTyped, TickTyped,
       CountsTyped, FlagsTyped
<1>9. QED
  BY <1>3, <1>4, <1>5, <1>6, <1>7, <1>8

\* The clock, the tick and what stops it.
LEMMA WatcherTyped ==
  ASSUME IInv, TInv, TimerElapses \/ ClaimExpires \/ Claim \/ TickStep \/ Fail \/ Restart
  PROVE  TInv'
<1> USE DEF TInv
<1>1. Shapes /\ data \in Results
  BY DEF IInv, RowsAreResults
<1>2. NoTick.saved = NoJson /\ FileTyped(NoJson)
  BY StoredAreLists DEF NoTick, NoJson, FileTyped
<1>3. /\ NoTick.pc = "idle" /\ NoTick.prev \in Stored /\ NoTick.next \in Stored
      /\ NoTick.patches \in Seq(Patch)
  BY StoredAreLists DEF NoTick
<1>4. ASSUME tick' = NoTick PROVE TickTyped' /\ FileTyped(tick.saved)'
  <2>1. TickTyped'
    BY <1>3, <1>4 DEF TickTyped
  <2>2. QED
    BY <1>2, <1>4, <2>1 DEF FileTyped
<1>5. CASE TimerElapses \/ ClaimExpires
  <2>1. row.known
    BY <1>5 DEF TimerElapses, ClaimExpires, RowTyped, NoRow
  <2>2. row' \in {[known |-> row.known, stale |-> row.stale, claimed |-> row.claimed,
                  due |-> TRUE, rows |-> row.rows],
                 [known |-> row.known, stale |-> row.stale, claimed |-> FALSE,
                  due |-> row.due, rows |-> row.rows]}
    BY <1>1, <1>5 DEF TimerElapses, ClaimExpires, Shapes
  <2>3. PICK e \in BOOLEAN, h \in BOOLEAN :
          row' = [known |-> row.known, stale |-> row.stale, claimed |-> e,
                  due |-> h, rows |-> row.rows]
    BY <2>2 DEF RowTyped
  <2>4. RowTyped'
    BY <2>1, <2>3 DEF RowTyped
  <2>5. QED
    BY <1>5, <2>4 DEF TimerElapses, ClaimExpires, ShellTyped, FileTyped, TickTyped,
       ReqTyped, PageTyped, CountsTyped, FlagsTyped
<1>6. CASE Claim
  <2>1. RowTyped'
    BY <1>1, <1>6 DEF Claim, RowTyped, Shapes, NoRow
  <2>2. TickTyped' /\ FileTyped(tick.saved)'
    <3>1. \/ tick' = NoTick
          \/ tick' = [pc |-> "query", prev |-> row.rows, next |-> NoTick.next,
                      patches |-> NoTick.patches, saved |-> NoTick.saved]
      BY <1>6 DEF Claim, NoTick
    <3>2. QED
      BY <1>2, <1>3, <1>4, <3>1 DEF TickTyped, FileTyped, RowTyped
  <2>3. QED
    BY <1>6, <2>1, <2>2 DEF Claim, ShellTyped, FileTyped, ReqTyped, PageTyped, CountsTyped,
       FlagsTyped
<1>7. CASE Query
  <2>1. tick.prev \in Results
    BY <1>7 DEF IInv, TickHasDiff, Query
  <2>2. Diff[tick.prev][data] \in Seq(Patch)
    BY <1>1, <2>1, DiffIs, DiffApplied, ResultsAreLists
  <2>3. tick' = [pc |-> "read", prev |-> tick.prev, next |-> data,
                 patches |-> Diff[tick.prev][data], saved |-> tick.saved]
    BY <1>1, <1>7 DEF Query, Shapes
  <2>4. TickTyped' /\ FileTyped(tick.saved)'
    BY <1>1, <2>2, <2>3, StoredAreLists DEF TickTyped, FileTyped
  <2>5. QED
    BY <1>7, <2>4 DEF Query, RowTyped, ShellTyped, FileTyped, ReqTyped, PageTyped,
       CountsTyped, FlagsTyped
<1>8. CASE ReadJson
  <2>1. \/ tick' = NoTick
        \/ /\ json.there
           /\ tick' = [pc |-> "write", prev |-> tick.prev, next |-> tick.next,
                       patches |-> tick.patches, saved |-> json]
    BY <1>1, <1>8 DEF ReadJson, Shapes
  <2>2. TickTyped' /\ FileTyped(tick.saved)'
    BY <1>4, <2>1 DEF TickTyped, FileTyped
  <2>3. QED
    BY <1>8, <2>2 DEF ReadJson, RowTyped, ShellTyped, FileTyped, ReqTyped, PageTyped,
       CountsTyped, FlagsTyped
<1>9. CASE WriteJson
  <2>1. /\ tick' = [pc |-> "mark", prev |-> tick.prev, next |-> tick.next,
                    patches |-> tick.patches, saved |-> tick.saved]
        /\ json' = [there |-> tick.saved.there,
                    data |-> ApplyAllToRows(tick.saved.data, tick.patches),
                    lists |-> tick.next, page |-> tick.saved.page]
        /\ tick.saved.there
    BY <1>1, <1>9 DEF WriteJson, Shapes, TickTyped
  <2>2. IsList(ApplyAllToRows(tick.saved.data, tick.patches))
    BY StaysTyped DEF TickTyped, FileTyped
  <2>3. FileTyped(json)'
    BY <2>1, <2>2 DEF FileTyped, TickTyped
  <2>4. TickTyped' /\ FileTyped(tick.saved)'
    BY <2>1 DEF TickTyped, FileTyped
  <2>5. QED
    BY <1>9, <2>3, <2>4 DEF WriteJson, RowTyped, ShellTyped, ReqTyped, PageTyped,
       CountsTyped, FlagsTyped
<1>10. CASE MarkFresh
  <2>1. RowTyped'
    BY <1>10 DEF MarkFresh, RowTyped, TickTyped, NoRow
  <2>2. tick' = [pc |-> "emit", prev |-> tick.prev, next |-> tick.next,
                 patches |-> tick.patches, saved |-> NoJson]
    BY <1>1, <1>10 DEF MarkFresh, Shapes
  <2>3. TickTyped' /\ FileTyped(tick.saved)'
    BY <1>2, <2>2 DEF TickTyped, FileTyped
  <2>4. QED
    BY <1>10, <2>1, <2>3 DEF MarkFresh, ShellTyped, FileTyped, ReqTyped, PageTyped,
       CountsTyped, FlagsTyped
<1>11. CASE Emit
  <2>1. /\ tick' = NoTick /\ Receive(tick.patches, page.steady)
        /\ UNCHANGED <<owed, row, shell, json, registered, req, cut, rebaked, used>>
    BY <1>11 DEF Emit
  <2>2. tick.patches \in Seq(Patch) /\ page.steady \in BOOLEAN
    BY DEF TickTyped, PageTyped
  <2>3. PageTyped' /\ reloaded' \in BOOLEAN
    BY <1>1, <2>1, <2>2, ReceiveTyped
  <2>4. QED
    BY <1>4, <2>1, <2>3 DEF RowTyped, ShellTyped, FileTyped, ReqTyped, CountsTyped,
       FlagsTyped
<1>12. CASE Fail
  <2>1. CountsTyped'
    BY <1>12, SpendTyped DEF Fail
  <2>2. json' \in {json, tick.saved} /\ cut' \in BOOLEAN
    BY <1>12 DEF Fail, FlagsTyped
  <2>3. TickTyped' /\ FileTyped(tick.saved)'
    BY <1>4, <1>12 DEF Fail
  <2>4. QED
    BY <1>12, <2>1, <2>2, <2>3 DEF Fail, RowTyped, ShellTyped, FileTyped, ReqTyped,
       PageTyped, FlagsTyped
<1>13. CASE Restart
  <2>1. CountsTyped'
    BY <1>13, SpendTyped DEF Restart
  <2>2. TickTyped' /\ FileTyped(tick.saved)'
    BY <1>4, <1>13 DEF Restart
  <2>3. ReqTyped'
    BY <1>13, StoredAreLists DEF Restart, ReqTyped, NoReq
  <2>4. FlagsTyped'
    BY <1>13 DEF Restart, FlagsTyped
  <2>5. QED
    BY <1>13, <2>1, <2>2, <2>3, <2>4 DEF Restart, RowTyped, ShellTyped, FileTyped, PageTyped
<1>14. QED
  BY <1>5, <1>6, <1>7, <1>8, <1>9, <1>10, <1>11, <1>12, <1>13 DEF TickStep

\* Every step keeps the types.
LEMMA TypesGoOn == IInv /\ TInv /\ [Next]_vars => TInv'
<1>1. SUFFICES ASSUME IInv, TInv, [Next]_vars PROVE TInv'
  OBVIOUS
<1>2. CASE UNCHANGED vars
  BY <1>1, <1>2 DEF vars, TInv, RowTyped, ShellTyped, FileTyped, TickTyped, ReqTyped,
     PageTyped, CountsTyped, FlagsTyped
<1>3. CASE Next
  BY <1>1, <1>3, OutsideTyped, RenderTyped, WatcherTyped DEF Next
<1>4. QED
  BY <1>1, <1>2, <1>3

\* The list, its artifact, the tick, the render and the page have the types of
\* TypeOK in every state: the JSON of the artifact holds a list, each key once,
\* whatever patches a tick applies to it, and no more notices are owed than
\* there were writes (watcher.ts, revalidateLiveList).
THEOREM LiveListTypes == Spec => []TypeOK
<1>1. Spec => []TInv
  BY InitTInv, Invariant, TypesGoOn, PTL DEF Spec
<1>2. QED
  BY <1>1, Invariant, TInvTypes, PTL
=============================================================================
