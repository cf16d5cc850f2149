-------------------------------- MODULE Cache --------------------------------
(* The response cache of bleeding/requests/lib/features/cache.ml (Memory):    *)
(* which stored response a request finds, and how many are counted.  Every    *)
(* operation holds the cache's mutex from its first step to its last, so it   *)
(* is one action.  Bodies, ages and freshness are left out.                   *)
EXTENDS Integers, Sequences, FiniteSets, FiniteSetsExt, Functions

CONSTANTS
    Urls,
    Methods,       \* the cacheable ones: GET, HEAD
    Names,         \* header names that Vary may list
    Values,        \* header values
    Empty,         \* the empty value
    Absent,
    MaxEntries     \* max_entries

ASSUME CacheAssumption ==
    /\ IsFiniteSet(Urls)
    /\ Empty \in Values /\ Absent \notin Values
    /\ MaxEntries \in Nat

\* A request's method and the headers that Vary may name.
Requests == [method : Methods, headers : [Names -> Values \cup {Absent}]]

\* entry: vary_headers has the listed names that the request had.
Varies == UNION {[N -> Values] : N \in SUBSET Names}
Entries == [method : Methods, vary : Varies]

VARIABLES
    entries,       \* the table: a list for each URL, empty if there is none
    total,         \* total_entries
    newest         \* history: the response stored last of those RFC 9111 lets
                   \* a request have, or Absent if that one is gone or hidden

vars == <<entries, total, newest>>

Nothing == [u \in Urls |-> [r \in Requests |-> Absent]]

Init ==
    /\ entries = [u \in Urls |-> << >>]
    /\ total = 0
    /\ newest = Nothing

----------------------------------------------------------------------------
\* vary_matches: a header the request lacks matches the empty value.
VaryMatches(vary, headers) ==
    \A n \in DOMAIN vary :
        IF headers[n] = Absent THEN vary[n] = Empty ELSE headers[n] = vary[n]

Matches(e, r) == e.method = r.method /\ VaryMatches(e.vary, r.headers)

\* lookup: the first of the list that matches.
Lookup(u, r) ==
    LET found == {i \in DOMAIN entries[u] : Matches(entries[u][i], r)} IN
    IF found = {} THEN Absent ELSE entries[u][Min(found)]

\* RFC 9111, section 4.1: q may have the response to r with these Vary names if
\* each named header is the same in both requests, or absent from both.
Entitled(q, r, names) ==
    q.method = r.method /\ \A n \in names : q.headers[n] = r.headers[n]

\* Mutant: a header the request lacks is kept as such.
EntryOfAbsent(r, names) ==
    [method |-> r.method, vary |-> Restrict(r.headers, names)]

\* The entry of a response with these Vary names to request r.
EntryOf(r, names) ==
    [method |-> r.method,
     vary |-> Restrict(r.headers, {n \in names : r.headers[n] # Absent})]

Count(table, S) == SumFunctionOnSet([u \in Urls |-> Len(table[u])], S)

Bound(table) == {u \in Urls : table[u] # << >>}

\* Mutant: eviction stops short of a tenth.
EvictedShort(table, S) ==
    /\ S \subseteq Bound(table)
    /\ Count(table, S) < MaxEntries \div 10

\* evict_if_needed: URLs go, with all their entries, in the order of the table,
\* until a tenth of max_entries has gone.
Evicted(table, S) ==
    LET toRemove == MaxEntries \div 10 IN
    /\ S \subseteq Bound(table)
    /\ Count(table, S) >= toRemove \/ S = Bound(table)
    /\ S # {} => \E u \in S : Count(table, S \ {u}) < toRemove

Without(table, S) == [u \in Urls |-> IF u \in S THEN << >> ELSE table[u]]
Forget(S) == [u \in Urls |-> IF u \in S THEN Nothing[u] ELSE newest[u]]

\* The entries of a list that do not match the request, in their order.
Filtered(list, r) ==
    LET kept[n \in 0 .. Len(list)] ==
          IF n = 0 THEN << >>
          ELSE IF Matches(list[n], r) THEN kept[n - 1]
                                      ELSE Append(kept[n - 1], list[n])
    IN  kept[Len(list)]

\* Mutant: the new entry goes to the end of the list.
PutLast(u, e, r) == [entries EXCEPT ![u] = Append(Filtered(@, r), e)]

\* Mutant: the older entries stay.
PutKeeping(u, e, r) == [entries EXCEPT ![u] = <<e>> \o @]

\* The list of u with the entries that match the request replaced by e.
Put(u, e, r) == [entries EXCEPT ![u] = <<e>> \o Filtered(@, r)]

\* The history after that: a request that may not have e but would be given it
\* is claimed nothing for, nor is one whose response e has replaced.
Stored(u, r, names, e) ==
    [newest EXCEPT ![u] = [q \in Requests |->
        IF Entitled(q, r, names) THEN e
        ELSE IF Matches(e, q) \/ (@[q] # Absent /\ Matches(@[q], r)) THEN Absent
        ELSE @[q]]]

\* store, when the response is cacheable; otherwise nothing changes.  The count
\* goes up also when an entry is replaced.
Store(u, r, names) ==
    LET e == EntryOf(r, names)
        table == Put(u, e, r)
        found == Stored(u, r, names, e) IN
    IF total + 1 > MaxEntries
    THEN \E S \in SUBSET Urls :
            /\ Evicted(table, S)
            /\ entries' = Without(table, S)
            /\ total' = total + 1 - Count(table, S)
            /\ newest' = [w \in Urls |-> IF w \in S THEN Nothing[w] ELSE found[w]]
    ELSE entries' = table /\ total' = total + 1 /\ newest' = found

\* invalidate.
Invalidate(u) ==
    /\ entries[u] # << >>
    /\ entries' = Without(entries, {u})
    /\ total' = total - Len(entries[u])
    /\ newest' = Forget({u})

\* clear.
Clear ==
    /\ entries' = [u \in Urls |-> << >>]
    /\ total' = 0
    /\ newest' = Nothing

Next ==
    \/ \E u \in Urls, r \in Requests, names \in SUBSET Names : Store(u, r, names)
    \/ \E u \in Urls : Invalidate(u)
    \/ Clear

Spec == Init /\ [][Next]_vars

----------------------------------------------------------------------------
(* Properties.                                                                *)

\* Type invariant.
TypeOK ==
    /\ entries \in [Urls -> Seq(Entries)]
    /\ total \in Nat
    /\ newest \in [Urls -> [Requests -> Entries \cup {Absent}]]

\* A request finds the response stored last of those RFC 9111 lets it have (the
\* headers Vary names are the same in both requests, or absent from both),
\* however stores for other variants, invalidations and evictions follow one
\* another, until a store replaces that response, or hides it behind one the
\* request should not be given, or its URL goes.
LookupFindsNewest ==
    \A u \in Urls, r \in Requests :
        newest[u][r] # Absent => Lookup(u, r) = newest[u][r]

\* A URL never has two entries for one variant, in whatever order the variants
\* were stored, and with and without Vary: its list cannot grow for ever.
OneEntryPerVariant ==
    \A u \in Urls : IsInjective(entries[u])

\* size never says fewer entries than there are, and eviction keeps it within
\* max_entries, so that there are never more entries than that: in whatever order
\* they are stored, replaced, and dropped by evictions of whole URLs that stop at
\* a tenth of max_entries.  (For max_entries of at least ten: a tenth of less is
\* nothing, and nothing is evicted.)
EntriesWithinLimit == Count(entries, Urls) <= total /\ total <= MaxEntries
=============================================================================
