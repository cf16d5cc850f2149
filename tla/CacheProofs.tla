---------------------------- MODULE CacheProofs ----------------------------
(* Theorems about Cache, for any number of URLs, header names and values.     *)
EXTENDS Cache, DataLemmas, SequenceTheorems

----------------------------------------------------------------------------
(* List.filter.                                                               *)

\* l has, in their order, those of the first n elements of the list that do
\* not match: the i-th is at h[i].
Filters(list, r, n, l, h) ==
    /\ l \in Seq(Entries)
    /\ h \in [1 .. Len(l) -> 1 .. n]
    /\ \A i \in 1 .. Len(l) : l[i] = list[h[i]] /\ ~ Matches(list[h[i]], r)
    /\ \A i, j \in 1 .. Len(l) : i < j => h[i] < h[j]
    /\ \A m \in 1 .. n : ~ Matches(list[m], r) => \E i \in 1 .. Len(l) : h[i] = m

\* The recursive function inside Filtered, up to n.
Keeps(list, r, n, kept) ==
    kept = [m \in 0 .. n |->
              IF m = 0 THEN << >>
              ELSE IF Matches(list[m], r) THEN kept[m - 1]
                                          ELSE Append(kept[m - 1], list[m])]

\* It exists.
LEMMA KeepsExists ==
    ASSUME NEW list, NEW r, NEW n \in Nat
    PROVE  \E kept : Keeps(list, r, n, kept)
  <1> DEFINE N == {m \in Nat : \E kept : Keeps(list, r, m, kept)}
  <1>1. 0 \in N
    <2> DEFINE kept == [m \in 0 .. 0 |-> << >>]
    <2>1. Keeps(list, r, 0, kept)
      BY DEF Keeps
    <2> QED
      BY <2>1
  <1>2. ASSUME NEW m \in N PROVE m + 1 \in N
    <2>1. PICK k : Keeps(list, r, m, k)
      BY <1>2
    <2> DEFINE kept == [i \in 0 .. m + 1 |->
                          IF i <= m THEN k[i]
                          ELSE IF Matches(list[i], r) THEN k[i - 1]
                                                      ELSE Append(k[i - 1], list[i])]
    <2>2. \A i \in 0 .. m : kept[i] = k[i]
      OBVIOUS
    <2>3. ASSUME NEW i \in 0 .. m + 1
          PROVE  kept[i] = IF i = 0 THEN << >>
                           ELSE IF Matches(list[i], r) THEN kept[i - 1]
                                                       ELSE Append(kept[i - 1], list[i])
      <3>1. CASE i = 0
        BY <2>1, <2>2, <3>1 DEF Keeps
      <3>2. CASE i # 0 /\ i <= m
        <4>1. i \in 0 .. m /\ i - 1 \in 0 .. m
          BY <3>2
        <4> HIDE DEF kept
        <4> QED
          BY <2>1, <2>2, <3>2, <4>1 DEF Keeps
      <3>3. CASE i = m + 1
        <4>1. kept[i - 1] = k[i - 1]
          BY <3>3
        <4> QED
          BY <3>3, <4>1
      <3> QED
        BY <3>1, <3>2, <3>3
    <2>4. kept = [i \in 0 .. m + 1 |-> kept[i]]
      OBVIOUS
    <2> HIDE DEF kept
    <2>5. Keeps(list, r, m + 1, kept)
      BY <2>3, <2>4 DEF Keeps
    <2> QED
      BY <2>5
  <1>3. N = Nat
    <2> HIDE DEF N
    <2> QED
      BY <1>1, <1>2, NaturalSet DEF N
  <1> QED
    BY <1>3

\* One element further.
LEMMA FiltersStep ==
    ASSUME NEW list \in Seq(Entries), NEW r, NEW n \in Nat, n + 1 <= Len(list),
           NEW l, NEW h, Filters(list, r, n, l, h)
    PROVE  \E g : Filters(list, r, n + 1,
                          IF Matches(list[n + 1], r) THEN l ELSE Append(l, list[n + 1]), g)
  <1>1. CASE Matches(list[n + 1], r)
    <2>1. h \in [1 .. Len(l) -> 1 .. n + 1]
      BY DEF Filters
    <2>2. \A m \in 1 .. n + 1 :
             ~ Matches(list[m], r) => \E i \in 1 .. Len(l) : h[i] = m
      <3> SUFFICES ASSUME NEW m \in 1 .. n + 1, ~ Matches(list[m], r)
                   PROVE  \E i \in 1 .. Len(l) : h[i] = m
        OBVIOUS
      <3>1. m \in 1 .. n
        BY <1>1
      <3> QED
        BY <3>1 DEF Filters
    <2>3. Filters(list, r, n + 1, l, h)
      BY <2>1, <2>2 DEF Filters
    <2> QED
      BY <1>1, <2>3
  <1>2. CASE ~ Matches(list[n + 1], r)
    <2> DEFINE g == [i \in 1 .. Len(l) + 1 |-> IF i <= Len(l) THEN h[i] ELSE n + 1]
               k == Append(l, list[n + 1])
    <2>1. l \in Seq(Entries) /\ h \in [1 .. Len(l) -> 1 .. n]
      BY DEF Filters
    <2>2. k \in Seq(Entries) /\ Len(k) = Len(l) + 1 /\ Len(l) \in Nat
      BY <2>1
    <2>3. \A i \in 1 .. Len(l) : k[i] = l[i] /\ g[i] = h[i] /\ h[i] \in 1 .. n
      BY <2>1
    <2>4. k[Len(l) + 1] = list[n + 1] /\ g[Len(l) + 1] = n + 1
      BY <2>1
    <2>5. g \in [1 .. Len(k) -> 1 .. n + 1]
      BY <2>1, <2>2, <2>3
    <2> HIDE DEF g, k
    <2>6. \A i \in 1 .. Len(k) : k[i] = list[g[i]] /\ ~ Matches(list[g[i]], r)
      <3> TAKE i \in 1 .. Len(k)
      <3>1. CASE i \in 1 .. Len(l)
        BY <2>3, <3>1 DEF Filters
      <3>2. CASE i = Len(l) + 1
        BY <1>2, <2>4, <3>2
      <3> QED
        BY <2>2, <3>1, <3>2
    <2>7. \A i, j \in 1 .. Len(k) : i < j => g[i] < g[j]
      <3> SUFFICES ASSUME NEW i \in 1 .. Len(k), NEW j \in 1 .. Len(k), i < j
                   PROVE  g[i] < g[j]
        OBVIOUS
      <3>1. i \in 1 .. Len(l)
        BY <2>2
      <3>2. CASE j \in 1 .. Len(l)
        BY <2>3, <3>1, <3>2 DEF Filters
      <3>3. CASE j = Len(l) + 1
        BY <2>3, <2>4, <3>1, <3>3
      <3> QED
        BY <2>2, <3>2, <3>3
    <2>8. \A m \in 1 .. n + 1 :
             ~ Matches(list[m], r) => \E i \in 1 .. Len(k) : g[i] = m
      <3> SUFFICES ASSUME NEW m \in 1 .. n + 1, ~ Matches(list[m], r)
                   PROVE  \E i \in 1 .. Len(k) : g[i] = m
        OBVIOUS
      <3>1. CASE m \in 1 .. n
        <4>1. PICK i \in 1 .. Len(l) : h[i] = m
          BY <3>1 DEF Filters
        <4>2. g[i] = m
          BY <2>3, <4>1
        <4>3. i \in 1 .. Len(k)
          BY <2>2
        <4> QED
          BY <4>2, <4>3
      <3>2. CASE m = n + 1
        BY <2>2, <2>4, <3>2
      <3> QED
        BY <3>1, <3>2
    <2>9. Filters(list, r, n + 1, k, g)
      BY <2>2, <2>5, <2>6, <2>7, <2>8 DEF Filters
    <2> QED
      BY <1>2, <2>9 DEF k
  <1> QED
    BY <1>1, <1>2

\* Filtered keeps exactly the elements that do not match, in their order.
LEMMA FilteredKeeps ==
    ASSUME NEW list \in Seq(Entries), NEW r
    PROVE  \E h : Filters(list, r, Len(list), Filtered(list, r), h)
  <1> DEFINE kept == CHOOSE kept : Keeps(list, r, Len(list), kept)
  <1>1. Filtered(list, r) = kept[Len(list)]
    BY DEF Filtered, Keeps
  <1>2. Keeps(list, r, Len(list), kept)
    <2>1. Len(list) \in Nat
      OBVIOUS
    <2>2. \E k : Keeps(list, r, Len(list), k)
      BY <2>1, KeepsExists
    <2> QED
      BY <2>2
  <1> HIDE DEF kept
  <1> DEFINE N == {n \in Nat : n <= Len(list) => \E h : Filters(list, r, n, kept[n], h)}
  <1>3. 0 \in N
    <2> DEFINE h == [i \in 1 .. 0 |-> i]
    <2>1. kept[0] = << >>
      BY <1>2 DEF Keeps
    <2>2. Filters(list, r, 0, kept[0], h)
      BY <2>1 DEF Filters
    <2> QED
      BY <2>2
  <1>4. ASSUME NEW n \in N PROVE n + 1 \in N
    <2> SUFFICES ASSUME n + 1 <= Len(list)
                 PROVE  \E g : Filters(list, r, n + 1, kept[n + 1], g)
      OBVIOUS
    <2>1. PICK h : Filters(list, r, n, kept[n], h)
      BY <1>4
    <2>2. kept[n + 1] = IF Matches(list[n + 1], r) THEN kept[n]
                                                   ELSE Append(kept[n], list[n + 1])
      <3>1. n + 1 \in 0 .. Len(list) /\ n + 1 # 0 /\ (n + 1) - 1 = n
        BY <1>4
      <3> QED
        BY <1>2, <3>1 DEF Keeps
    <2> QED
      BY <2>1, <2>2, FiltersStep
  <1>5. N = Nat
    <2> HIDE DEF N
    <2> QED
      BY <1>3, <1>4, NaturalSet DEF N
  <1> QED
    BY <1>1, <1>5

----------------------------------------------------------------------------
(* store: the entry and its place.                                            *)

\* The entry stored for a request is well-formed and matches the request.
LEMMA EntryMatches ==
    ASSUME NEW r \in Requests, NEW names \in SUBSET Names
    PROVE  EntryOf(r, names) \in Entries /\ Matches(EntryOf(r, names), r)
  <1> DEFINE N == {n \in names : r.headers[n] # Absent}
             vary == Restrict(r.headers, N)
  <1>1. vary = [n \in N |-> r.headers[n]]
    BY DEF Restrict
  <1>2. r.headers \in [Names -> Values \cup {Absent}] /\ r.method \in Methods
    BY DEF Requests
  <1>3. vary \in [N -> Values]
    BY <1>1, <1>2
  <1>4. vary \in Varies
    BY <1>3 DEF Varies
  <1>5. EntryOf(r, names) = [method |-> r.method, vary |-> vary]
    BY DEF EntryOf
  <1>6. VaryMatches(vary, r.headers)
    BY <1>1 DEF VaryMatches
  <1> HIDE DEF vary
  <1> QED
    BY <1>2, <1>4, <1>5, <1>6 DEF Entries, Matches

\* A request that is entitled to a response is one the code gives it to.
LEMMA EntitledMatches ==
    ASSUME NEW r \in Requests, NEW names \in SUBSET Names, NEW q \in Requests,
           Entitled(q, r, names)
    PROVE  Matches(EntryOf(r, names), q)
  <1> DEFINE N == {n \in names : r.headers[n] # Absent}
             vary == Restrict(r.headers, N)
  <1>1. vary = [n \in N |-> r.headers[n]]
    BY DEF Restrict
  <1>2. VaryMatches(vary, q.headers)
    BY <1>1 DEF VaryMatches, Entitled
  <1> HIDE DEF vary
  <1> QED
    BY <1>2 DEF EntryOf, Matches, Entitled, vary

\* x is the first element of the list that matches the request.
First(list, r, x) ==
    \E i \in 1 .. Len(list) :
        /\ list[i] = x /\ Matches(x, r)
        /\ \A j \in 1 .. i - 1 : ~ Matches(list[j], r)

\* lookup finds it, if there is one.
LEMMA LookupIsFirst ==
    ASSUME NEW u \in Urls, NEW r, NEW x, entries[u] \in Seq(Entries)
    PROVE  /\ First(entries[u], r, x) => Lookup(u, r) = x
           /\ Lookup(u, r) = x /\ x # Absent => First(entries[u], r, x)
  <1> DEFINE list == entries[u]
             found == {i \in DOMAIN list : Matches(list[i], r)}
  <1>1. DOMAIN list = 1 .. Len(list) /\ Len(list) \in Nat
    OBVIOUS
  <1>2. Lookup(u, r) = IF found = {} THEN Absent ELSE list[Min(found)]
    BY DEF Lookup
  <1>3. ASSUME found # {}
        PROVE  Min(found) \in found /\ \A j \in found : Min(found) <= j
    <2>1. found \subseteq Nat
      BY <1>1
    <2> HIDE DEF found
    <2>2. \E n \in found : \A m \in found : n <= m
      BY <1>3, <2>1, LeastNatural
    <2> QED
      BY <2>2 DEF Min
  <1>4. ASSUME First(list, r, x)
        PROVE  Lookup(u, r) = x
    <2>1. PICK i \in 1 .. Len(list) :
             /\ list[i] = x /\ Matches(x, r)
             /\ \A j \in 1 .. i - 1 : ~ Matches(list[j], r)
      BY <1>4 DEF First
    <2>2. i \in found
      BY <1>1, <2>1
    <2>3. Min(found) \in 1 .. Len(list) /\ Matches(list[Min(found)], r) /\ Min(found) <= i
      BY <1>1, <1>3, <2>2
    <2>4. Min(found) = i
      <3>1. Min(found) \notin 1 .. i - 1
        BY <2>1, <2>3
      <3> HIDE DEF found
      <3> QED
        BY <1>1, <2>1, <2>3, <3>1
    <2> QED
      BY <1>2, <2>1, <2>2, <2>4
  <1>5. ASSUME Lookup(u, r) = x, x # Absent
        PROVE  First(list, r, x)
    <2>1. found # {} /\ list[Min(found)] = x
      BY <1>2, <1>5
    <2>2. Min(found) \in found /\ \A j \in found : Min(found) <= j
      BY <1>3, <2>1
    <2>3. Min(found) \in 1 .. Len(list) /\ Matches(x, r)
      BY <1>1, <2>1, <2>2
    <2>4. \A j \in 1 .. Min(found) - 1 : ~ Matches(list[j], r)
      <3> SUFFICES ASSUME NEW j \in 1 .. Min(found) - 1, Matches(list[j], r)
                   PROVE  FALSE
        OBVIOUS
      <3>1. j \in found
        BY <1>1, <2>3
      <3>2. Min(found) <= j
        BY <2>2, <3>1
      <3> HIDE DEF found
      <3> QED
        BY <1>1, <2>3, <3>2
    <2> HIDE DEF found
    <2> QED
      BY <2>1, <2>3, <2>4 DEF First
  <1> QED
    BY <1>4, <1>5

\* In the list that store leaves, a request that the new entry matches finds
\* it, and any other finds what it found, unless that has been replaced.
LEMMA FirstOfStored ==
    ASSUME NEW list \in Seq(Entries), NEW r, NEW l, NEW h,
           Filters(list, r, Len(list), l, h), NEW e \in Entries, NEW q
    PROVE  /\ Matches(e, q) => First(<<e>> \o l, q, e)
           /\ \A x : First(list, q, x) /\ ~ Matches(e, q) /\ ~ Matches(x, r)
                        => First(<<e>> \o l, q, x)
  <1> DEFINE new == <<e>> \o l
  <1>1. l \in Seq(Entries) /\ Len(l) \in Nat /\ h \in [1 .. Len(l) -> 1 .. Len(list)]
    BY DEF Filters
  <1>2. /\ Len(new) = Len(l) + 1 /\ new[1] = e
        /\ \A i \in 1 .. Len(l) : new[i + 1] = l[i]
    BY <1>1
  <1> HIDE DEF new
  <1>3. ASSUME Matches(e, q) PROVE First(new, q, e)
    <2>1. 1 \in 1 .. Len(new) /\ \A j \in 1 .. 1 - 1 : ~ Matches(new[j], q)
      BY <1>1, <1>2
    <2> QED
      BY <1>2, <1>3, <2>1 DEF First
  <1>4. ASSUME NEW x, First(list, q, x), ~ Matches(e, q), ~ Matches(x, r)
        PROVE  First(new, q, x)
    <2>1. PICK m \in 1 .. Len(list) :
             /\ list[m] = x /\ Matches(x, q)
             /\ \A j \in 1 .. m - 1 : ~ Matches(list[j], q)
      BY <1>4 DEF First
    <2>2. PICK i \in 1 .. Len(l) : h[i] = m
      BY <1>4, <2>1 DEF Filters
    <2>3. i + 1 \in 1 .. Len(new) /\ new[i + 1] = x
      <3>1. l[i] = list[h[i]]
        BY DEF Filters
      <3> QED
        BY <1>1, <1>2, <2>1, <2>2, <3>1
    <2>4. \A j \in 1 .. i : ~ Matches(new[j], q)
      <3> TAKE j \in 1 .. i
      <3>1. CASE j = 1
        BY <1>2, <1>4, <3>1
      <3>2. CASE j # 1
        <4>1. j - 1 \in 1 .. Len(l) /\ j - 1 < i /\ (j - 1) + 1 = j
          BY <1>1, <3>2
        <4>2. new[j] = l[j - 1]
          BY <1>2, <4>1
        <4>3. l[j - 1] = list[h[j - 1]] /\ h[j - 1] < h[i]
          BY <4>1 DEF Filters
        <4>4. h[j - 1] \in 1 .. m - 1
          BY <1>1, <2>2, <4>1, <4>3
        <4> QED
          BY <2>1, <4>2, <4>3, <4>4
      <3> QED
        BY <3>1, <3>2
    <2>5. (i + 1) - 1 = i
      BY <1>1
    <2> QED
      BY <2>1, <2>3, <2>4, <2>5 DEF First
  <1> QED
    BY <1>3, <1>4 DEF new

\* That list has no entry twice, if the entries it had differed.
LEMMA StoredOnce ==
    ASSUME NEW list \in Seq(Entries), NEW r, NEW l, NEW h,
           Filters(list, r, Len(list), l, h), NEW e \in Entries, Matches(e, r),
           IsInjective(list)
    PROVE  IsInjective(<<e>> \o l)
  <1> DEFINE new == <<e>> \o l
  <1>1. l \in Seq(Entries) /\ Len(l) \in Nat /\ h \in [1 .. Len(l) -> 1 .. Len(list)]
    BY DEF Filters
  <1>2. /\ DOMAIN new = 1 .. Len(l) + 1 /\ new[1] = e
        /\ \A i \in 1 .. Len(l) : new[i + 1] = l[i]
    BY <1>1
  <1> HIDE DEF new
  <1>3. \A i \in 1 .. Len(l) : l[i] = list[h[i]] /\ l[i] # e
    BY DEF Filters
  <1>4. \A i, j \in 1 .. Len(l) : l[i] = l[j] => i = j
    <2> SUFFICES ASSUME NEW i \in 1 .. Len(l), NEW j \in 1 .. Len(l), l[i] = l[j]
                 PROVE  i = j
      OBVIOUS
    <2>1. h[i] \in DOMAIN list /\ h[j] \in DOMAIN list /\ list[h[i]] = list[h[j]]
      <3>1. DOMAIN list = 1 .. Len(list)
        OBVIOUS
      <3>2. l[i] = list[h[i]] /\ l[j] = list[h[j]]
        BY <1>3
      <3>3. h[i] \in 1 .. Len(list) /\ h[j] \in 1 .. Len(list)
        BY <1>1
      <3> QED
        BY <3>1, <3>2, <3>3
    <2>2. h[i] = h[j] /\ h[i] \in Int
      BY <1>1, <2>1 DEF IsInjective
    <2>3. (i < j => h[i] < h[j]) /\ (j < i => h[j] < h[i])
      BY DEF Filters
    <2> QED
      BY <1>1, <2>2, <2>3
  <1>5. ASSUME NEW a \in DOMAIN new, NEW b \in DOMAIN new, new[a] = new[b]
        PROVE  a = b
    <2>1. ASSUME NEW c \in DOMAIN new, c # 1
          PROVE  c - 1 \in 1 .. Len(l) /\ new[c] = l[c - 1]
      <3>1. c - 1 \in 1 .. Len(l) /\ (c - 1) + 1 = c
        BY <1>1, <1>2, <2>1
      <3> QED
        BY <1>2, <3>1
    <2>2. CASE a = 1 \/ b = 1
      BY <1>2, <1>3, <1>5, <2>1, <2>2
    <2>3. CASE a # 1 /\ b # 1
      <3>1. a - 1 = b - 1
        BY <1>4, <1>5, <2>1, <2>3
      <3> QED
        BY <1>1, <1>2, <3>1
    <2> QED
      BY <2>2, <2>3
  <1> QED
    BY <1>5 DEF IsInjective, new

----------------------------------------------------------------------------
(* The count.                                                                 *)

Tables == [Urls -> Seq(Entries)]
Lengths(table) == [u \in Urls |-> Len(table[u])]

\* What a sum over the lengths needs.
LEMMA LengthsType ==
    ASSUME NEW table \in Tables
    PROVE  /\ \A u \in Urls : table[u] \in Seq(Entries) /\ Lengths(table)[u] = Len(table[u])
           /\ \A u \in Urls : Lengths(table)[u] \in Nat
           /\ IntegersOn(Lengths(table), Urls)
  <1>1. \A u \in Urls : table[u] \in Seq(Entries) /\ Lengths(table)[u] = Len(table[u])
    BY DEF Tables, Lengths
  <1> QED
    BY <1>1 DEF IntegersOn

\* A count is a natural number.
LEMMA CountType ==
    ASSUME NEW table \in Tables, NEW S, S \subseteq Urls
    PROVE  Count(table, S) \in Nat
  <1>1. IsFiniteSet(S)
    BY CacheAssumption, FiniteSubsets
  <1>2. \A u \in S : Lengths(table)[u] \in Nat
    BY LengthsType
  <1> QED
    BY <1>1, <1>2, SumNatural DEF Count, Lengths

\* The count after one list has changed.
LEMMA CountPut ==
    ASSUME NEW table \in Tables, NEW u \in Urls, NEW list \in Seq(Entries)
    PROVE  Count([table EXCEPT ![u] = list], Urls)
             = Count(table, Urls) - Len(table[u]) + Len(list)
  <1> DEFINE new == [table EXCEPT ![u] = list]
  <1>1. new \in Tables /\ new[u] = list /\ \A w \in Urls \ {u} : new[w] = table[w]
    BY DEF Tables
  <1> HIDE DEF new
  <1>2. /\ Lengths(new)[u] = Len(list) /\ Lengths(table)[u] = Len(table[u])
        /\ \A w \in Urls \ {u} : Lengths(new)[w] = Lengths(table)[w]
    BY <1>1, LengthsType
  <1>3. Lengths(new)[u] \in Int /\ IntegersOn(Lengths(table), Urls)
    BY <1>1, LengthsType
  <1>4. SumFunctionOnSet(Lengths(new), Urls)
          = SumFunctionOnSet(Lengths(table), Urls) - Lengths(table)[u] + Lengths(new)[u]
    BY <1>2, <1>3, CacheAssumption, SumExcept
  <1> QED
    BY <1>2, <1>4 DEF Count, Lengths, new

\* The count after the URLs of S have gone.
LEMMA CountWithout ==
    ASSUME NEW table \in Tables, NEW S, S \subseteq Urls
    PROVE  /\ Without(table, S) \in Tables
           /\ Count(Without(table, S), Urls) = Count(table, Urls) - Count(table, S)
  <1> DEFINE new == Without(table, S)
             R == Urls \ S
  <1>1. /\ new \in Tables
        /\ \A u \in S : new[u] = << >>
        /\ \A u \in R : new[u] = table[u]
    BY DEF Without, Tables
  <1> HIDE DEF new
  <1>2. IsFiniteSet(S) /\ IsFiniteSet(R) /\ R \subseteq Urls /\ Urls \ S = R
    BY CacheAssumption, FiniteSubsets
  <1> HIDE DEF R
  <1>3. \A u \in S : Lengths(new)[u] = 0
    BY <1>1, LengthsType
  <1>4. \A u \in R : Lengths(new)[u] = Lengths(table)[u]
    BY <1>1, <1>2, LengthsType
  <1>5. IntegersOn(Lengths(new), Urls) /\ IntegersOn(Lengths(table), Urls)
        /\ IntegersOn(Lengths(table), R)
    BY <1>1, <1>2, LengthsType DEF IntegersOn
  <1>6. SumFunctionOnSet(Lengths(new), S) = 0
    BY <1>2, <1>3, SumZero
  <1>7. SumFunctionOnSet(Lengths(new), R) = SumFunctionOnSet(Lengths(table), R)
    BY <1>2, <1>4, <1>5, SumSame
  <1>8. /\ SumFunctionOnSet(Lengths(new), Urls)
             = SumFunctionOnSet(Lengths(new), S) + SumFunctionOnSet(Lengths(new), R)
        /\ SumFunctionOnSet(Lengths(table), Urls)
             = SumFunctionOnSet(Lengths(table), S) + SumFunctionOnSet(Lengths(table), R)
    BY <1>2, <1>5, CacheAssumption, SumSplit
  <1>9. /\ Count(new, Urls) = SumFunctionOnSet(Lengths(new), Urls)
        /\ Count(table, Urls) = SumFunctionOnSet(Lengths(table), Urls)
        /\ Count(table, S) = SumFunctionOnSet(Lengths(table), S)
        /\ SumFunctionOnSet(Lengths(table), R) = Count(table, R)
    BY DEF Count, Lengths
  <1>10. Count(table, R) \in Nat /\ Count(table, S) \in Nat
    BY <1>2, CountType
  <1> QED
    BY <1>1, <1>6, <1>7, <1>8, <1>9, <1>10 DEF new

\* A set with a URL that has entries counts at least one.
LEMMA CountSome ==
    ASSUME NEW table \in Tables, NEW S, S \subseteq Urls, NEW u \in S, table[u] # << >>
    PROVE  Count(table, S) >= 1
  <1>1. IsFiniteSet(S) /\ IntegersOn(Lengths(table), S)
    BY CacheAssumption, FiniteSubsets, LengthsType DEF IntegersOn
  <1>2. SumFunctionOnSet(Lengths(table), S)
          = Lengths(table)[u] + SumFunctionOnSet(Lengths(table), S \ {u})
    BY <1>1, SumRemove
  <1>3. Lengths(table)[u] \in Nat /\ Lengths(table)[u] # 0
    BY LengthsType, EmptySeq
  <1>4. Count(table, S \ {u}) \in Nat
    BY CountType
  <1> QED
    BY <1>2, <1>3, <1>4 DEF Count, Lengths

----------------------------------------------------------------------------
(* The invariant.                                                             *)

Newests == [Urls -> [Requests -> Entries \cup {Absent}]]

\* LookupFindsNewest and OneEntryPerVariant, of a table and a history on the
\* way from one state to the next.
FindsNewest(table, new) ==
    \A u \in Urls, r \in Requests :
        new[u][r] # Absent => First(table[u], r, new[u][r])
Distinct(table) == \A u \in Urls : IsInjective(table[u])

CacheInv ==
    /\ entries \in Tables /\ newest \in Newests
    /\ total \in Nat
    /\ FindsNewest(entries, newest)
    /\ Distinct(entries)
    /\ Count(entries, Urls) <= total
    /\ MaxEntries >= 10 => total <= MaxEntries

\* The inductive invariant gives the properties the run checks.
LEMMA CacheInvImplies ==
    ASSUME CacheInv
    PROVE  /\ TypeOK /\ LookupFindsNewest /\ OneEntryPerVariant
           /\ MaxEntries >= 10 => EntriesWithinLimit
  <1>1. TypeOK
    BY DEF CacheInv, TypeOK, Tables, Newests
  <1>2. LookupFindsNewest
    <2> SUFFICES ASSUME NEW u \in Urls, NEW r \in Requests, newest[u][r] # Absent
                 PROVE  Lookup(u, r) = newest[u][r]
      BY DEF LookupFindsNewest
    <2>1. First(entries[u], r, newest[u][r])
      BY DEF CacheInv, FindsNewest
    <2>2. entries[u] \in Seq(Entries)
      BY DEF CacheInv, Tables
    <2> QED
      BY <2>1, <2>2, LookupIsFirst
  <1>3. OneEntryPerVariant /\ (MaxEntries >= 10 => EntriesWithinLimit)
    BY DEF CacheInv, OneEntryPerVariant, Distinct, EntriesWithinLimit
  <1> QED
    BY <1>1, <1>2, <1>3

\* Filtered never makes a list longer.
LEMMA FilteredShorter ==
    ASSUME NEW list \in Seq(Entries), NEW r, NEW l, NEW h,
           Filters(list, r, Len(list), l, h)
    PROVE  Len(l) <= Len(list)
  <1>1. /\ Len(l) \in Nat /\ Len(list) \in Nat
        /\ h \in [1 .. Len(l) -> 1 .. Len(list)]
    BY DEF Filters
  <1>2. \A i, j \in 1 .. Len(l) : i # j => h[i] # h[j]
    <2> SUFFICES ASSUME NEW i \in 1 .. Len(l), NEW j \in 1 .. Len(l), i # j
                 PROVE  h[i] # h[j]
      OBVIOUS
    <2>1. (i < j => h[i] < h[j]) /\ (j < i => h[j] < h[i])
      BY DEF Filters
    <2>2. h[i] \in Int /\ h[j] \in Int
      BY <1>1
    <2> QED
      BY <1>1, <2>1, <2>2
  <1> DEFINE I == 1 .. Len(l)
             J == 1 .. Len(list)
  <1>3. h \in Injection(I, J)
    BY <1>1, <1>2 DEF Injection, IsInjective
  <1>4. /\ IsFiniteSet(I) /\ Cardinality(I) = Len(l)
        /\ IsFiniteSet(J) /\ Cardinality(J) = Len(list)
    <2> DEFINE m == Len(l)
               n == Len(list)
    <2>1. m \in Nat /\ n \in Nat /\ 1 \in Int
      BY <1>1
    <2> HIDE DEF m, n
    <2>2. /\ IsFiniteSet(1 .. m) /\ Cardinality(1 .. m) = m
          /\ IsFiniteSet(1 .. n) /\ Cardinality(1 .. n) = n
      BY <2>1, FS_Interval
    <2> QED
      BY <2>2 DEF m, n
  <1> HIDE DEF I, J
  <1>5. Cardinality(I) <= Cardinality(J)
    BY <1>3, <1>4, FS_Injection
  <1> QED
    BY <1>4, <1>5

\* store, before anything is evicted.
LEMMA StoreTable ==
    ASSUME CacheInv, NEW u \in Urls, NEW r \in Requests, NEW names,
           NEW e \in Entries, Matches(e, r),
           \A q \in Requests : Entitled(q, r, names) => Matches(e, q)
    PROVE  LET table == Put(u, e, r) IN
           /\ table \in Tables /\ Stored(u, r, names, e) \in Newests
           /\ table[u] # << >> /\ Len(table[u]) <= Len(entries[u]) + 1
           /\ FindsNewest(table, Stored(u, r, names, e))
           /\ Distinct(table)
           /\ Count(table, Urls) = Count(entries, Urls) - Len(entries[u]) + Len(table[u])
  <1> DEFINE list == entries[u]
             l == Filtered(list, r)
             new == <<e>> \o l
             table == [entries EXCEPT ![u] = new]
             found == Stored(u, r, names, e)
  <1>1. /\ list \in Seq(Entries) /\ entries \in Tables /\ newest \in Newests
        /\ \A w \in Urls : IsInjective(entries[w])
        /\ \A w \in Urls, q \in Requests :
              newest[w][q] # Absent => First(entries[w], q, newest[w][q])
    BY DEF CacheInv, Tables, Distinct, FindsNewest
  <1>2. PICK h : Filters(list, r, Len(list), l, h)
    BY <1>1, FilteredKeeps
  <1> HIDE DEF l
  <1>3. l \in Seq(Entries) /\ Len(l) <= Len(list)
    BY <1>1, <1>2, FilteredShorter DEF Filters
  <1>4. new \in Seq(Entries) /\ new # << >> /\ Len(new) = Len(l) + 1
    BY <1>3
  <1>5. IsInjective(new)
    BY <1>1, <1>2, StoredOnce
  <1>6. ASSUME NEW q \in Requests
        PROVE  /\ Matches(e, q) => First(new, q, e)
               /\ \A x : First(list, q, x) /\ ~ Matches(e, q) /\ ~ Matches(x, r)
                            => First(new, q, x)
    BY <1>1, <1>2, FirstOfStored
  <1> HIDE DEF new
  <1>7. Count(table, Urls) = Count(entries, Urls) - Len(entries[u]) + Len(new)
    BY <1>1, <1>4, CountPut
  <1>8. table \in Tables /\ table[u] = new /\ \A w \in Urls \ {u} : table[w] = entries[w]
    BY <1>1, <1>4 DEF Tables
  <1>9. /\ found \in Newests
        /\ \A q \in Requests :
              found[u][q] =
                IF Entitled(q, r, names) THEN e
                ELSE IF Matches(e, q) \/ (newest[u][q] # Absent /\ Matches(newest[u][q], r))
                     THEN Absent ELSE newest[u][q]
        /\ \A w \in Urls \ {u} : found[w] = newest[w]
    BY <1>1 DEF Stored, Newests
  <1>10. Put(u, e, r) = table
    BY DEF Put, new, l
  <1> HIDE DEF table, found
  <1>11. Distinct(table)
    BY <1>1, <1>5, <1>8 DEF Distinct
  <1>12. FindsNewest(table, found)
    <2> SUFFICES ASSUME NEW w \in Urls, NEW q \in Requests, found[w][q] # Absent
                 PROVE  First(table[w], q, found[w][q])
      BY DEF FindsNewest
    <2>1. CASE w # u
      BY <1>1, <1>8, <1>9, <2>1
    <2>2. CASE w = u
      <3>1. CASE Entitled(q, r, names)
        BY <1>6, <1>8, <1>9, <2>2, <3>1
      <3>2. CASE ~ Entitled(q, r, names)
        <4>1. /\ found[u][q] = newest[u][q] /\ newest[u][q] # Absent
              /\ ~ Matches(e, q) /\ ~ Matches(newest[u][q], r)
          BY <1>9, <2>2, <3>2
        <4>2. First(list, q, newest[u][q])
          BY <1>1, <4>1
        <4>3. First(new, q, newest[u][q])
          BY <1>6, <4>1, <4>2
        <4> QED
          BY <1>8, <2>2, <4>1, <4>3
      <3> QED
        BY <3>1, <3>2
    <2> QED
      BY <2>1, <2>2
  <1> QED
    BY <1>3, <1>4, <1>7, <1>8, <1>9, <1>10, <1>11, <1>12 DEF found

\* URLs that are dropped, with what was remembered of them.
LEMMA Dropped ==
    ASSUME NEW table \in Tables, NEW new \in Newests, NEW S, S \subseteq Urls,
           FindsNewest(table, new), Distinct(table)
    PROVE  LET kept == [w \in Urls |-> IF w \in S THEN Nothing[w] ELSE new[w]] IN
           /\ kept \in Newests
           /\ FindsNewest(Without(table, S), kept)
           /\ Distinct(Without(table, S))
  <1> DEFINE kept == [w \in Urls |-> IF w \in S THEN Nothing[w] ELSE new[w]]
  <1>1. \A w \in Urls, r \in Requests : Nothing[w] \in [Requests -> {Absent}]
                                        /\ Nothing[w][r] = Absent
    BY DEF Nothing
  <1>2. kept \in Newests
    BY DEF Nothing, Newests
  <1>3. \A w \in S : Without(table, S)[w] = << >>
    BY DEF Without
  <1>4. \A w \in Urls \ S : Without(table, S)[w] = table[w] /\ kept[w] = new[w]
    BY DEF Without
  <1>5. FindsNewest(Without(table, S), kept)
    BY <1>1, <1>4 DEF FindsNewest
  <1>6. IsInjective(<< >>)
    BY DEF IsInjective
  <1>7. Distinct(Without(table, S))
    BY <1>3, <1>4, <1>6 DEF Distinct
  <1> QED
    BY <1>2, <1>5, <1>7

\* The empty cache satisfies the invariant.
LEMMA CacheInit ==
    ASSUME Init PROVE CacheInv
  <1>1. entries \in Tables /\ newest \in Newests /\ total \in Nat
    BY DEF Init, Tables, Newests, Nothing
  <1>2. FindsNewest(entries, newest)
    BY DEF Init, FindsNewest, Nothing
  <1>3. Distinct(entries)
    BY DEF Init, Distinct, IsInjective
  <1>4. Count(entries, Urls) = 0
    <2>1. \A u \in Urls : Lengths(entries)[u] = 0
      BY DEF Init, Lengths
    <2> QED
      BY <2>1, CacheAssumption, SumZero DEF Count, Lengths
  <1>5. Count(entries, Urls) <= total /\ (MaxEntries >= 10 => total <= MaxEntries)
    BY <1>4, CacheAssumption DEF Init
  <1> QED
    BY <1>1, <1>2, <1>3, <1>5 DEF CacheInv

\* store: the count goes up by one and the entries by at most one; of both, what
\* is evicted is taken off.
LEMMA StoreKeeps ==
    ASSUME CacheInv, NEW u \in Urls, NEW r \in Requests, NEW names \in SUBSET Names,
           Store(u, r, names)
    PROVE  CacheInv'
  <1> DEFINE e == EntryOf(r, names)
             table == Put(u, e, r)
             found == Stored(u, r, names, e)
             n == Len(table[u])
             m == Len(entries[u])
  <1>1. /\ e \in Entries /\ Matches(e, r)
        /\ \A q \in Requests : Entitled(q, r, names) => Matches(e, q)
    BY EntryMatches, EntitledMatches
  <1>2. IF total + 1 > MaxEntries
        THEN \E S \in SUBSET Urls :
                /\ Evicted(table, S)
                /\ entries' = Without(table, S)
                /\ total' = total + 1 - Count(table, S)
                /\ newest' = [w \in Urls |-> IF w \in S THEN Nothing[w] ELSE found[w]]
        ELSE entries' = table /\ total' = total + 1 /\ newest' = found
    BY DEF Store
  <1> HIDE DEF e
  <1>3. /\ table \in Tables /\ found \in Newests
        /\ table[u] # << >> /\ n <= m + 1
        /\ FindsNewest(table, found) /\ Distinct(table)
        /\ Count(table, Urls) = Count(entries, Urls) - m + n
    BY <1>1, StoreTable
  <1> HIDE DEF table, found
  <1>4. n \in Nat /\ m \in Nat
    BY <1>3 DEF CacheInv, Tables
  <1>5. /\ Count(entries, Urls) \in Nat /\ Count(table, Urls) \in Nat
        /\ total \in Nat /\ MaxEntries \in Nat
        /\ Count(entries, Urls) <= total
        /\ MaxEntries >= 10 => total <= MaxEntries
    <2>1. entries \in Tables
      BY DEF CacheInv
    <2> QED
      BY <2>1, <1>3, CountType, CacheAssumption DEF CacheInv
  <1> HIDE DEF n, m
  <1>6. Count(table, Urls) <= total + 1
    BY <1>3, <1>4, <1>5
  <1>7. CASE ~ (total + 1 > MaxEntries)
    <2>1. entries' = table /\ total' = total + 1 /\ newest' = found
      BY <1>2, <1>7
    <2>2. Count(entries, Urls)' = Count(table, Urls)
      BY <2>1 DEF Count
    <2>3. FindsNewest(entries, newest)' /\ Distinct(entries)'
      BY <1>3, <2>1 DEF FindsNewest, Distinct
    <2> QED
      BY <1>3, <1>5, <1>6, <1>7, <2>1, <2>2, <2>3 DEF CacheInv
  <1>8. CASE total + 1 > MaxEntries
    <2>1. PICK S \in SUBSET Urls :
             /\ Evicted(table, S)
             /\ entries' = Without(table, S)
             /\ total' = total + 1 - Count(table, S)
             /\ newest' = [w \in Urls |-> IF w \in S THEN Nothing[w] ELSE found[w]]
      BY <1>2, <1>8
    <2>2. /\ Without(table, S) \in Tables
          /\ Count(Without(table, S), Urls) = Count(table, Urls) - Count(table, S)
      BY <1>3, CountWithout
    <2>3. Count(table, S) \in Nat /\ Count(Without(table, S), Urls) \in Nat
      BY <1>3, <2>2, CountType
    <2>4. newest' \in Newests /\ FindsNewest(entries', newest') /\ Distinct(entries')
      BY <1>3, <2>1, Dropped
    <2>5. MaxEntries >= 10 => Count(table, S) >= 1
      <3> SUFFICES ASSUME MaxEntries >= 10 PROVE Count(table, S) >= 1
        OBVIOUS
      <3>1. MaxEntries \div 10 >= 1
        BY <1>5
      <3>2. CASE Count(table, S) >= MaxEntries \div 10
        BY <3>1, <3>2, <2>3, <1>5
      <3>3. CASE S = Bound(table)
        BY <1>3, <3>3, CountSome DEF Bound
      <3> QED
        BY <2>1, <3>2, <3>3 DEF Evicted
    <2>6. total' \in Nat /\ Count(Without(table, S), Urls) <= total'
      BY <1>5, <1>6, <2>1, <2>2, <2>3
    <2>7. MaxEntries >= 10 => total' <= MaxEntries
      BY <1>5, <2>1, <2>3, <2>5
    <2>8. Count(entries, Urls)' = Count(Without(table, S), Urls)
      BY <2>1 DEF Count
    <2>9. FindsNewest(entries, newest)' /\ Distinct(entries)'
      BY <2>4 DEF FindsNewest, Distinct
    <2> QED
      BY <2>1, <2>2, <2>4, <2>6, <2>7, <2>8, <2>9 DEF CacheInv
  <1> QED
    BY <1>7, <1>8

\* invalidate.
LEMMA InvalidateKeeps ==
    ASSUME CacheInv, NEW u \in Urls, Invalidate(u)
    PROVE  CacheInv'
  <1> DEFINE S == {u}
  <1>1. /\ entries \in Tables /\ newest \in Newests
        /\ FindsNewest(entries, newest) /\ Distinct(entries)
        /\ total \in Nat /\ Count(entries, Urls) <= total
        /\ MaxEntries >= 10 => total <= MaxEntries
    BY DEF CacheInv
  <1>2. /\ entries' = Without(entries, S) /\ total' = total - Len(entries[u])
        /\ newest' = [w \in Urls |-> IF w \in S THEN Nothing[w] ELSE newest[w]]
    BY DEF Invalidate, Forget
  <1>3. S \subseteq Urls
    OBVIOUS
  <1>4. Count(entries, S) = Len(entries[u]) /\ Len(entries[u]) \in Nat
    <2>1. IsFiniteSet(S) /\ IntegersOn(Lengths(entries), S)
      BY <1>1, <1>3, FS_Singleton, LengthsType DEF IntegersOn
    <2>2. SumFunctionOnSet(Lengths(entries), S)
            = Lengths(entries)[u] + SumFunctionOnSet(Lengths(entries), S \ {u})
      BY <2>1, SumRemove
    <2>3. SumFunctionOnSet(Lengths(entries), S \ {u}) = 0
      <3>1. S \ {u} = {} /\ IsFiniteSet({})
        BY FS_EmptySet
      <3> QED
        BY <3>1, SumUnfold
    <2>4. Lengths(entries)[u] = Len(entries[u]) /\ Lengths(entries)[u] \in Nat
      BY <1>1, LengthsType
    <2> QED
      BY <2>2, <2>3, <2>4 DEF Count, Lengths
  <1> HIDE DEF S
  <1>5. /\ Without(entries, S) \in Tables
        /\ Count(Without(entries, S), Urls) = Count(entries, Urls) - Count(entries, S)
        /\ Count(Without(entries, S), Urls) \in Nat /\ Count(entries, Urls) \in Nat
    BY <1>1, <1>3, CountWithout, CountType
  <1>6. newest' \in Newests /\ FindsNewest(entries', newest') /\ Distinct(entries')
    BY <1>1, <1>2, <1>3, Dropped
  <1>7. /\ total' \in Nat /\ Count(Without(entries, S), Urls) <= total'
        /\ MaxEntries >= 10 => total' <= MaxEntries
    <2> DEFINE kept == Count(Without(entries, S), Urls)
               gone == Len(entries[u])
    <2>1. /\ total' = total - gone /\ kept + gone <= total
          /\ kept \in Nat /\ gone \in Nat /\ MaxEntries \in Nat
      BY <1>1, <1>2, <1>4, <1>5, CacheAssumption
    <2> HIDE DEF kept, gone
    <2>2. total' \in Nat /\ kept <= total' /\ total' <= total
      BY <1>1, <2>1
    <2> QED
      BY <1>1, <2>1, <2>2 DEF kept
  <1>8. Count(entries, Urls)' = Count(Without(entries, S), Urls)
    BY <1>2 DEF Count
  <1>9. FindsNewest(entries, newest)' /\ Distinct(entries)'
    BY <1>6 DEF FindsNewest, Distinct
  <1> QED
    BY <1>2, <1>5, <1>6, <1>7, <1>8, <1>9 DEF CacheInv

\* clear leaves the cache as it was made.
LEMMA ClearKeeps ==
    ASSUME Clear PROVE CacheInv'
  <1>1. Init'
    BY DEF Clear, Init, Nothing
  <1> QED
    BY <1>1, CacheInit, PTL

\* A stutter.
LEMMA NothingHappens ==
    ASSUME CacheInv, UNCHANGED vars PROVE CacheInv'
  <1>1. entries' = entries /\ newest' = newest /\ total' = total
    BY DEF vars
  <1>2. Count(entries, Urls)' = Count(entries, Urls)
    BY <1>1 DEF Count
  <1>3. FindsNewest(entries, newest)' /\ Distinct(entries)'
    BY <1>1 DEF CacheInv, FindsNewest, Distinct
  <1> QED
    BY <1>1, <1>2, <1>3 DEF CacheInv

\* store, invalidate and clear keep the invariant.
LEMMA CacheStep ==
    ASSUME CacheInv, [Next]_vars PROVE CacheInv'
  <1>1. ASSUME NEW u \in Urls, NEW r \in Requests, NEW names \in SUBSET Names,
               Store(u, r, names)
        PROVE  CacheInv'
    BY <1>1, StoreKeeps
  <1>2. ASSUME NEW u \in Urls, Invalidate(u)
        PROVE  CacheInv'
    BY <1>2, InvalidateKeeps
  <1>3. CASE Clear
    BY <1>3, ClearKeeps
  <1>4. CASE UNCHANGED vars
    BY <1>4, NothingHappens
  <1> QED
    BY <1>1, <1>2, <1>3, <1>4 DEF Next

\* The invariant behind the four properties below.
THEOREM CacheInvariance == Spec => []CacheInv
  BY CacheInit, CacheStep, PTL DEF Spec

\* Every variable has its type: what store keeps of a request is an entry with
\* values, whatever the request lacked.
THEOREM TypeCorrect == Spec => []TypeOK
  <1>1. CacheInv => TypeOK
    BY CacheInvImplies
  <1> QED
    BY <1>1, CacheInvariance, PTL

\* A lookup finds the response stored last of those RFC 9111 lets the request
\* have, although a store replaces by one relation what a lookup finds by another,
\* and neither is the one of RFC 9111.
THEOREM NewestIsFound == Spec => []LookupFindsNewest
  <1>1. CacheInv => LookupFindsNewest
    BY CacheInvImplies
  <1> QED
    BY <1>1, CacheInvariance, PTL

\* No URL has two entries for one variant.
THEOREM VariantsOnce == Spec => []OneEntryPerVariant
  <1>1. CacheInv => OneEntryPerVariant
    BY CacheInvImplies
  <1> QED
    BY <1>1, CacheInvariance, PTL

\* If a tenth of max_entries is at least one, size is never less than the number
\* of entries and never more than max_entries, for any number of URLs.
THEOREM EntriesLimited ==
    ASSUME MaxEntries >= 10 PROVE Spec => []EntriesWithinLimit
  <1>1. CacheInv => EntriesWithinLimit
    BY CacheInvImplies
  <1> QED
    BY <1>1, CacheInvariance, PTL
============================================================================
