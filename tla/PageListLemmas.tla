--------------------------- MODULE PageListLemmas ---------------------------
(***************************************************************************)
(* What the pointer operations of alloc.c and kern_free do to a list,      *)
(* seen as the set IsList says it holds.  The hypotheses name only the     *)
(* links an operation reads or writes, so a lemma applies to every set of  *)
(* descriptors the operation leaves alone as well.                         *)
(***************************************************************************)
EXTENDS PageAlloc, TLAPS, FiniteSetTheorems

Links == [Desc -> Ptr]

\* The number of elements of a set of descriptors.
LEMMA DescFinite ==
  ASSUME NEW S \in SUBSET Desc
  PROVE  /\ IsFiniteSet(S)
         /\ Cardinality(S) \in Nat
         /\ Cardinality(S) = 0 <=> S = {}
<1>1. IsFiniteSet(Desc)
      BY FS_Interval, ConstantsOK DEF Desc
<1>2. IsFiniteSet(S)
      BY <1>1, FS_Subset
<1> QED
    BY <1>2, FS_CardinalityType, FS_EmptySet

\* One descriptor more.
LEMMA DescAdd ==
  ASSUME NEW S \in SUBSET Desc, NEW d \in Desc, d \notin S
  PROVE  Cardinality(S \cup {d}) = Cardinality(S) + 1
BY DescFinite, FS_AddElement

\* One descriptor less.
LEMMA DescRemove ==
  ASSUME NEW S \in SUBSET Desc, NEW d \in S
  PROVE  Cardinality(S \ {d}) = Cardinality(S) - 1
BY DescFinite, FS_RemoveElement

\* Two disjoint sets.
LEMMA DescUnion ==
  ASSUME NEW S \in SUBSET Desc, NEW T \in SUBSET Desc, S \cap T = {}
  PROVE  Cardinality(S \cup T) = Cardinality(S) + Cardinality(T)
<1>1. IsFiniteSet(S) /\ IsFiniteSet(T) /\ Cardinality(S) \in Nat /\ Cardinality(T) \in Nat
      BY DescFinite
<1>2. Cardinality(S \cap T) = 0
      BY FS_EmptySet
<1>3. Cardinality(S \cup T) = Cardinality(S) + Cardinality(T) - Cardinality(S \cap T)
      BY <1>1, FS_Union
<1> QED
    BY <1>1, <1>2, <1>3

\* A ranking of the list that starts at h.
Ranks(n, S, h, rank) ==
  /\ rank \in [S -> 1 .. Cardinality(S)]
  /\ h # Null => h \in S /\ rank[h] = Cardinality(S)
  /\ \A d \in S :
       IF n[d] = Null THEN rank[d] = 1
                      ELSE n[d] \in S /\ rank[n[d]] = rank[d] - 1
  /\ \A d, e \in S : rank[d] = rank[e] => d = e

\* IsList, with any function as the ranking.
LEMMA ListRanks ==
  ASSUME NEW n, NEW S, NEW h
  PROVE  IsList(n, S, h) <=> (h = Null => S = {}) /\ \E rank : Ranks(n, S, h, rank)
BY DEF IsList, Ranks

-----------------------------------------------------------------------------
\* Links outside the set do not matter.
LEMMA ListFrame ==
  ASSUME NEW S \in SUBSET Desc, NEW n, NEW m, NEW h,
         IsList(n, S, h), \A e \in S : m[e] = n[e]
  PROVE  IsList(m, S, h)
BY DEF IsList

\* The empty list.
LEMMA ListEmpty ==
  ASSUME NEW n
  PROVE  IsList(n, {}, Null)
<1> DEFINE rank == [x \in {} |-> 1]
<1>1. Ranks(n, {}, Null, rank)
      BY DEF Ranks
<1> QED
    BY <1>1, ListRanks

\* A list is empty exactly when its head is NULL, else it holds its head.
LEMMA ListHead ==
  ASSUME NEW S, NEW n, NEW h, IsList(n, S, h)
  PROVE  (h = Null => S = {}) /\ (h # Null => h \in S)
BY DEF IsList

\* Every link of a list leads into it or ends it.
LEMMA ListClosed ==
  ASSUME NEW S, NEW n, NEW h, NEW d \in S, IsList(n, S, h)
  PROVE  n[d] = Null \/ n[d] \in S
BY DEF IsList

\* No two elements have the same successor, and the head has none before it.
LEMMA ListInjective ==
  ASSUME NEW S \in SUBSET Desc, NEW n, NEW h, IsList(n, S, h),
         NEW d \in S, NEW e \in S
  PROVE  /\ n[d] = n[e] => d = e
         /\ n[d] # d
         /\ h # Null => n[d] # h
<1>1. Cardinality(S) \in Nat
      BY DescFinite
<1>2. PICK rank : Ranks(n, S, h, rank)
      BY ListRanks
<1>3. rank[d] \in 1 .. Cardinality(S) /\ rank[e] \in 1 .. Cardinality(S)
      BY <1>2 DEF Ranks
<1>4. n[d] = n[e] => rank[d] = rank[e]
      BY <1>1, <1>2, <1>3 DEF Ranks
<1> QED
    BY <1>1, <1>2, <1>3, <1>4 DEF Ranks, Null, Desc

-----------------------------------------------------------------------------
\* d->next = first; first = d.
LEMMA ListPush ==
  ASSUME NEW S \in SUBSET Desc, NEW n, NEW m, NEW h,
         IsList(n, S, h), NEW d \in Desc, d \notin S,
         m[d] = h, \A e \in S : m[e] = n[e]
  PROVE  IsList(m, S \cup {d}, d)
<1> DEFINE T == S \cup {d}
<1>1. Cardinality(S) \in Nat /\ Cardinality(T) = Cardinality(S) + 1
      BY DescFinite, DescAdd
<1>2. PICK rank : Ranks(n, S, h, rank)
      BY ListRanks
<1>3. h = Null => Cardinality(S) = 0
      BY ListHead, DescFinite
<1>4. \A x \in S : rank[x] \in 1 .. Cardinality(S)
      BY <1>2 DEF Ranks
<1> DEFINE rk == [x \in T |-> IF x = d THEN Cardinality(S) + 1 ELSE rank[x]]
<1>5. rk \in [T -> 1 .. Cardinality(T)]
      BY <1>1, <1>4
<1>6. ASSUME NEW x \in T
      PROVE  IF m[x] = Null THEN rk[x] = 1 ELSE m[x] \in T /\ rk[m[x]] = rk[x] - 1
      <2>1. CASE x = d
            BY <2>1, <1>1, <1>2, <1>3 DEF Ranks
      <2>2. CASE x # d
            BY <2>2, <1>2 DEF Ranks
      <2> QED
          BY <2>1, <2>2
<1>7. \A x, y \in T : rk[x] = rk[y] => x = y
      BY <1>1, <1>2, <1>4 DEF Ranks
<1>8. Ranks(m, T, d, rk)
      BY <1>1, <1>5, <1>6, <1>7 DEF Ranks
<1> QED
    BY <1>8, ListRanks DEF Null, Desc

\* first = first->next.
LEMMA ListPop ==
  ASSUME NEW S \in SUBSET Desc, NEW n, NEW h, IsList(n, S, h), h # Null
  PROVE  IsList(n, S \ {h}, n[h])
<1> DEFINE T == S \ {h}
<1>1. h \in S
      BY ListHead
<1>2. Cardinality(S) \in Nat /\ Cardinality(T) = Cardinality(S) - 1
      BY <1>1, DescFinite, DescRemove
<1>3. PICK rank : Ranks(n, S, h, rank)
      BY ListRanks
<1>4. \A x \in S : rank[x] \in 1 .. Cardinality(S)
      BY <1>3 DEF Ranks
<1> DEFINE rk == [x \in T |-> rank[x]]
<1>5. \A x \in T : rank[x] \in 1 .. Cardinality(T)
      BY <1>1, <1>2, <1>3, <1>4 DEF Ranks
<1>6. n[h] # Null => n[h] \in T /\ rk[n[h]] = Cardinality(T)
      BY <1>1, <1>2, <1>3, <1>4 DEF Ranks
<1>7. ASSUME NEW x \in T
      PROVE  IF n[x] = Null THEN rk[x] = 1 ELSE n[x] \in T /\ rk[n[x]] = rk[x] - 1
      BY <1>1, <1>2, <1>3, <1>4, <1>5 DEF Ranks
<1>8. \A x, y \in T : rk[x] = rk[y] => x = y
      BY <1>3 DEF Ranks
<1>9. Ranks(n, T, n[h], rk)
      BY <1>5, <1>6, <1>7, <1>8 DEF Ranks
<1>10. n[h] = Null => T = {}
       BY <1>1, <1>2, <1>3, DescFinite DEF Ranks
<1> QED
    BY <1>9, <1>10, ListRanks

\* last->next = first of the other list: kern_free's chain.
LEMMA ListConcat ==
  ASSUME NEW S \in SUBSET Desc, NEW T \in SUBSET Desc, S \cap T = {},
         NEW n, NEW m, NEW h, NEW g, NEW l \in S,
         IsList(n, S, h), IsList(n, T, g), n[l] = Null,
         m[l] = g, \A e \in (S \cup T) \ {l} : m[e] = n[e]
  PROVE  IsList(m, S \cup T, h)
<1> DEFINE U == S \cup T
<1>1. /\ Cardinality(S) \in Nat
      /\ Cardinality(T) \in Nat
      /\ Cardinality(U) = Cardinality(S) + Cardinality(T)
      BY DescFinite, DescUnion
<1>2. PICK a : Ranks(n, S, h, a)
      BY ListRanks
<1>3. PICK b : Ranks(n, T, g, b)
      BY ListRanks
<1>4. /\ \A x \in S : a[x] \in 1 .. Cardinality(S)
      /\ \A x \in T : b[x] \in 1 .. Cardinality(T)
      BY <1>2, <1>3 DEF Ranks
<1>5. g = Null => Cardinality(T) = 0
      BY ListHead, DescFinite
<1>6. h # Null /\ h \in S
      BY ListHead
<1> DEFINE rk == [x \in U |-> IF x \in T THEN b[x] ELSE a[x] + Cardinality(T)]
<1>7. rk \in [U -> 1 .. Cardinality(U)]
      BY <1>1, <1>4
<1>8. rk[h] = Cardinality(U)
      BY <1>1, <1>2, <1>6 DEF Ranks
<1>9. ASSUME NEW x \in U
      PROVE  IF m[x] = Null THEN rk[x] = 1 ELSE m[x] \in U /\ rk[m[x]] = rk[x] - 1
      <2>1. CASE x = l
            BY <2>1, <1>1, <1>2, <1>3, <1>5 DEF Ranks
      <2>2. CASE x \in T
            BY <2>2, <1>3 DEF Ranks
      <2>3. CASE x \in S \ {l}
            <3>1. n[x] # Null
                  BY <2>3, ListInjective
            <3> QED
                BY <2>3, <3>1, <1>1, <1>2, <1>4 DEF Ranks
      <2> QED
          BY <2>1, <2>2, <2>3
<1>10. \A x, y \in U : rk[x] = rk[y] => x = y
       BY <1>1, <1>2, <1>3, <1>4 DEF Ranks
<1>11. Ranks(m, U, h, rk)
       BY <1>7, <1>8, <1>9, <1>10, <1>6 DEF Ranks
<1> QED
    BY <1>6, <1>11, ListRanks

-----------------------------------------------------------------------------
\* A new head gets a NULL back link, the old head one to it.
LEMMA BackPush ==
  ASSUME NEW S \in SUBSET Desc, NEW n, NEW m, NEW p, NEW q, NEW h,
         IsList(n, S, h), BackLinks(n, p, S, h),
         NEW d \in Desc, d \notin S,
         m[d] = h, \A e \in S : m[e] = n[e],
         q[d] = Null, \A e \in S : q[e] = IF e = h THEN d ELSE p[e]
  PROVE  BackLinks(m, q, S \cup {d}, d)
<1> SUFFICES ASSUME NEW x \in S, x # d
             PROVE  q[x] \in S \cup {d} /\ m[q[x]] = x
    BY DEF BackLinks
<1>1. CASE x = h
      BY <1>1
<1>2. CASE x # h
      BY <1>2 DEF BackLinks
<1> QED
    BY <1>1, <1>2

\* Links outside the set do not matter to the back links either.
LEMMA BackFrame ==
  ASSUME NEW S, NEW n, NEW m, NEW p, NEW q, NEW h, BackLinks(n, p, S, h),
         \A e \in S : m[e] = n[e] /\ q[e] = p[e]
  PROVE  BackLinks(m, q, S, h)
BY DEF BackLinks

\* kern_free_page takes d out of the middle: its neighbours are linked to each
\* other, and the head moves on when d is the head.
SkipsNext(n, m, p, S, d) ==
  \A e \in S \ {d} : m[e] = IF e = p[d] THEN n[d] ELSE n[e]

SkipsPrev(n, p, q, S, d) ==
  \A e \in S \ {d} : q[e] = IF e = n[d] THEN p[d] ELSE p[e]

HeadWithout(n, h, d) == IF h = d THEN n[d] ELSE h

\* What comes before d in its list, and that nothing else links to d.
LEMMA Neighbours ==
  ASSUME NEW S \in SUBSET Desc, NEW n, NEW p, NEW h,
         IsList(n, S, h), BackLinks(n, p, S, h), NEW d \in S
  PROVE  /\ h # Null /\ h \in S
         /\ d # h => p[d] \in S \ {d} /\ n[p[d]] = d
         /\ d = h => p[d] \notin S
         /\ \A x \in S \ {d} : n[x] = d => x = p[d]
<1>1. h # Null /\ h \in S
      BY ListHead
<1>2. d # h => p[d] \in S \ {d} /\ n[p[d]] = d
      <2>1. d # h => p[d] \in S /\ n[p[d]] = d
            BY DEF BackLinks
      <2> QED
          BY <2>1, ListInjective
<1>3. d = h => p[d] \notin S
      BY DEF BackLinks, Desc, Null
<1>4. \A x \in S \ {d} : n[x] = d => x = p[d]
      BY <1>1, <1>2, ListInjective
<1> QED
    BY <1>1, <1>2, <1>3, <1>4

\* What is left is a list: every rank above that of d moves down by one.
LEMMA ListRemove ==
  ASSUME NEW S \in SUBSET Desc, NEW n, NEW m, NEW p, NEW h,
         IsList(n, S, h), BackLinks(n, p, S, h), NEW d \in S,
         SkipsNext(n, m, p, S, d)
  PROVE  IsList(m, S \ {d}, HeadWithout(n, h, d))
<1> USE DEF SkipsNext, HeadWithout
<1> DEFINE T == S \ {d}
           g == HeadWithout(n, h, d)
<1>1. Cardinality(S) \in Nat /\ Cardinality(T) = Cardinality(S) - 1
      BY DescFinite, DescRemove
<1>2. PICK rank : Ranks(n, S, h, rank)
      BY ListRanks
<1>3. /\ \A x \in S : rank[x] \in 1 .. Cardinality(S)
      /\ \A x, y \in S : rank[x] = rank[y] => x = y
      BY <1>2 DEF Ranks
<1>4. h # Null /\ h \in S /\ rank[h] = Cardinality(S)
      BY <1>2, ListHead DEF Ranks
<1>5. \A x \in S : n[x] # Null => n[x] \in S /\ rank[n[x]] = rank[x] - 1
      BY <1>2 DEF Ranks
<1>6. \A x \in S : n[x] = Null => rank[x] = 1
      BY <1>2 DEF Ranks
<1>7. /\ d # h => p[d] \in S \ {d} /\ n[p[d]] = d
      /\ d = h => p[d] \notin S
      /\ \A x \in S \ {d} : n[x] = d => x = p[d]
      <2> HIDE DEF SkipsNext, HeadWithout, T, g
      <2> QED
          BY Neighbours
<1>8. d # h => p[d] \in T /\ n[p[d]] = d
      BY <1>7
<1>9. d = h => p[d] \notin S
      BY <1>7
<1>9a. \A x \in T : n[x] = d => x = p[d]
      BY <1>7
<1> DEFINE rk == [x \in T |-> IF rank[x] > rank[d] THEN rank[x] - 1 ELSE rank[x]]
<1>10. rk \in [T -> 1 .. Cardinality(T)]
       BY <1>1, <1>3, <1>4
<1>11. g # Null => g \in T /\ rk[g] = Cardinality(T)
       BY <1>1, <1>3, <1>4, <1>5
<1>12. g = Null => T = {}
       BY <1>1, <1>4, <1>6, DescFinite
<1>13. ASSUME NEW x \in T
       PROVE  IF m[x] = Null THEN rk[x] = 1 ELSE m[x] \in T /\ rk[m[x]] = rk[x] - 1
       <2>1. CASE x = p[d]
             <3>1. n[x] = d /\ d # Null
                   BY <2>1, <1>8, <1>9 DEF Desc, Null
             <3>2. rank[x] = rank[d] + 1
                   BY <3>1, <1>3, <1>5
             <3>3. m[x] = n[d]
                   BY <2>1
             <3> QED
                 BY <3>2, <3>3, <1>3, <1>5, <1>6
       <2>2. CASE x # p[d]
             <3>1. m[x] = n[x] /\ n[x] # d
                   BY <2>2, <1>9a
             <3> QED
                 BY <3>1, <1>3, <1>5, <1>6
       <2> QED
           BY <2>1, <2>2
<1>14. \A x, y \in T : rk[x] = rk[y] => x = y
       BY <1>3
<1>15. Ranks(m, T, g, rk)
       BY <1>10, <1>11, <1>13, <1>14 DEF Ranks
<1> QED
    BY <1>12, <1>15, ListRanks

\* And the back links of what is left still lead back.
LEMMA BackRemove ==
  ASSUME NEW S \in SUBSET Desc, NEW n, NEW m, NEW p, NEW q, NEW h,
         IsList(n, S, h), BackLinks(n, p, S, h), NEW d \in S,
         SkipsNext(n, m, p, S, d), SkipsPrev(n, p, q, S, d)
  PROVE  BackLinks(m, q, S \ {d}, HeadWithout(n, h, d))
<1> USE DEF SkipsNext, SkipsPrev, HeadWithout
<1> DEFINE T == S \ {d}
           g == HeadWithout(n, h, d)
<1>1. h # Null /\ h \in S
      BY Neighbours
<1>2. d # h => p[d] \in T /\ n[p[d]] = d
      BY Neighbours
<1>3. d = h => p[d] \notin S
      BY Neighbours
<1>4. ASSUME NEW x \in T
       PROVE  IF x = g THEN q[x] = Null ELSE q[x] \in T /\ m[q[x]] = x
       <2>1. CASE x = n[d] /\ d = h
             BY <2>1 DEF BackLinks
       <2>2. CASE x = n[d] /\ d # h
             <3>1. x # g
                   BY <2>2, <1>1, ListInjective
             <3> QED
                 BY <2>2, <3>1, <1>2
       <2>3. CASE x # n[d] /\ x = h
             BY <2>3 DEF BackLinks
       <2>4. CASE x # n[d] /\ x # h
             <3>1. x # g /\ q[x] = p[x]
                   BY <2>4
             <3>2. p[x] \in S /\ n[p[x]] = x
                   BY <2>4 DEF BackLinks
             <3>3. p[x] # d /\ p[x] # p[d]
                   BY <2>4, <3>2, <1>2, <1>3
             <3> QED
                 BY <3>1, <3>2, <3>3
       <2> QED
           BY <2>1, <2>2, <2>3, <2>4
<1> QED
    BY <1>4 DEF BackLinks
=============================================================================
