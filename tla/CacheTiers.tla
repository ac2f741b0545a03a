------------------------------ MODULE CacheTiers ------------------------------
(***************************************************************************)
(* The tiers of the retrieval cache (server/cache.py over                  *)
(* server/cache_sqlite.py) and who made the rankings they keep             *)
(* (encode_query_with_fallback and embedder_identity of                    *)
(* server/query_encoder.py, used by handle_search_papers).                 *)
(*                                                                         *)
(* Tier 1 is a SQLite file and, in each RetrievalCache, a mirror of it;    *)
(* tier 2 a ring of recent query embeddings with a vector index that is    *)
(* rebuilt at each put.  A rebind opens a new cache over the same file and *)
(* closes the old one under the calls that still hold it.  Tier 3, the     *)
(* memo of reranks, is in RerankFlight.                                    *)
(*                                                                         *)
(* One action per stretch between two awaits.  A version stands for all    *)
(* that a key names besides text, k and embedder (filters, level).  The    *)
(* text stands for its embedding: Closest[t] are the texts within the      *)
(* cosine threshold of t, best first.                                      *)
(***************************************************************************)
EXTENDS Naturals, SequencesExt

CONSTANTS Askers,     \* concurrent search_papers calls
          Texts,      \* queries
          Questions,  \* what is asked: a text, k, and whether of the notebook
          Closest,    \* Closest[t]: the texts near t, t itself first
          Widths,     \* the values of k
          Salts,      \* corpus versions
          Notebook,   \* the version of a notebook a call may name
          NoSalt,     \* a cache that is not open
          Cap,        \* MAX_ROWS, of the file and of a mirror
          Ring,       \* TIER2_RING_CAPACITY
          TopK,       \* neighbours a search of the index returns
          TtlExact,   \* tier 1's lifetime
          TtlNear,    \* tier 2's lifetime
          MaxAsks,    \* bound: calls
          MaxGens,    \* bound: RetrievalCache objects, of all processes
          MaxClock    \* bound: time

ASSUME TiersAssumption ==
    /\ Cap \in Nat \ {0} /\ Ring \in Nat \ {0} /\ TopK \in Nat \ {0}
    /\ TtlExact \in Nat /\ TtlNear \in Nat
    /\ MaxAsks \in Nat /\ MaxGens \in Nat /\ MaxClock \in Nat
    /\ \A t \in Texts : Closest[t][1] = t
    /\ Questions \subseteq [text : Texts, k : Widths, book : BOOLEAN]
    /\ Notebook \notin Salts /\ NoSalt \notin Salts

Gens      == 1 .. MaxGens
NoGen     == 0
Providers == {"local", "voyage"}
Embedders == {"local", "hosted"}

\* a ranking: what was asked, and the embedder that was really used
Rankings == [text : Texts, k : Widths, version : {Notebook} \cup Salts,
             by : Embedders]

VARIABLES
    table,     \* the rows of tier1_cache
    mirror,    \* mirror[g]: cache g's mirror, the least recently used first
    ring,      \* ring[g]: tier 2's buffer, the oldest first
    index,     \* index[g]: the texts in the vector index
    salt,      \* salt[g]: the corpus version cache g was opened for
    shut,      \* caches whose connection has been closed
    current,   \* what get_cache() returns, NoGen while the server is down
    opening,   \* the cache a rebind has opened and not yet published
    provider,  \* query_embed_provider
    asker,     \* asker[a]: a call and its locals
    clock,     \* time.time()
    asks, gens \* calls made, caches opened so far

tierVars  == <<mirror, ring, index>>
bindingVars == <<salt, shut, current, opening, provider, gens>>
cacheVars == <<table, tierVars, bindingVars, asker, clock, asks>>

\* An entry: the key it is kept under, the ranking, when it was written (history)
\* and when it expires.
Entry(key, got, ttl) == [key |-> key, got |-> got, since |-> clock, exp |-> clock + ttl]
Unkept == [exp |-> 0]
Alive(e) == e.exp >= clock
\* the places of a key in a mirror and of an embedding in a ring, at most one each
Places(s, k) == {i \in DOMAIN s : s[i].key = k}
SlotsOf(s, t) == {i \in DOMAIN s : s[i].key.text = t}
\* pop: s without what is at a place, if there is one
Without(s, here) == IF here = {} THEN s ELSE RemoveAt(s, CHOOSE i \in here : TRUE)
\* what is left of s at some of its places, in the same order
Left(s, places) ==
    {[i \in DOMAIN f |-> s[f[i]]] :
        f \in {g \in [1 .. Cardinality(places) -> places] :
                  \A i, j \in DOMAIN g : i < j => g[i] < g[j]}}
Newest(s, n) == SubSeq(s, IF Len(s) > n THEN Len(s) - n + 1 ELSE 1, Len(s))

\* derive_tier1_key: what a call asks for, as it knows its embedder so far
KeyOf(l) == [text |-> l.text, k |-> l.k, version |-> l.version, by |-> l.by]

\* embedder_identity
Identity(p, fellBack) == IF p = "local" \/ fellBack THEN "local" ELSE "hosted"

\* a call: where it is, the cache it holds, what it asks, whether it has encoded,
\* and the entry it has in hand; its reply is seen until something else happens
Resting == [pc |-> "idle"]
Seen(a) == IF asker[a].pc = "reply" THEN Resting ELSE asker[a]
AllSeen == asker' = [a \in Askers |-> Seen(a)]
Goes(a, l) == asker' = [b \in Askers |-> IF b = a THEN l ELSE Seen(b)]

Steps == {"probe", "row", "fill", "near", "rank", "keep", "reflect", "recall", "reply"}

\* Types; a key has one row and one place in a mirror, and what is in a ring can be
\* found by its index.
TiersTypeOK ==
    /\ \A r \in table : r.key \in Rankings /\ r.got \in Rankings
    /\ \A r, s \in table : r.key = s.key => r = s
    /\ Cardinality(table) <= Cap
    /\ \A g \in Gens :
         /\ \A i, j \in DOMAIN mirror[g] : mirror[g][i].key = mirror[g][j].key => i = j
         /\ Len(ring[g]) <= Ring
         /\ {ring[g][i].key.text : i \in DOMAIN ring[g]} \subseteq index[g]
    /\ salt \in [Gens -> {NoSalt} \cup Salts]
    /\ shut \subseteq Gens
    /\ current \in {NoGen} \cup Gens
    /\ opening \in {NoGen} \cup Gens
    /\ provider \in Providers
    /\ \A a \in Askers : asker[a] = Resting \/ asker[a].pc \in Steps
    /\ clock \in 0 .. MaxClock
    /\ asks \in 0 .. MaxAsks
    /\ gens \in 0 .. MaxGens

NoTiers == [g \in Gens |-> <<>>]
TiersInit ==
    /\ table = {}
    /\ mirror = NoTiers /\ ring = NoTiers /\ index = [g \in Gens |-> {}]
    /\ salt = [g \in Gens |-> NoSalt]
    /\ shut = {}
    /\ current = NoGen /\ opening = NoGen
    /\ provider = "local"
    /\ asker = [a \in Askers |-> Resting]
    /\ clock = 0 /\ asks = 0 /\ gens = 0
-------------------------------------------------------------------------------
(***************************************************************************)
(* Caches come and go.  CorpusBinding has what a rebind does besides.      *)
(***************************************************************************)
\* _rehydrate_tier1_from_sqlite: the rows of version v that have not expired;
\* sorted by expiry, the freshest goes in first and is the first to be evicted
Rehydrated(v) ==
    LET rows == {r \in table : r.key.version = v /\ Alive(r)} IN
    {s \in [1 .. Cardinality(rows) -> rows] :
        \A i, j \in DOMAIN s : i < j => s[i] # s[j] /\ s[i].exp >= s[j].exp}

\* RetrievalCache.open for version v, over the rows that are left of the file
Opened(v) ==
    /\ gens < MaxGens
    /\ gens' = gens + 1
    /\ salt' = [salt EXCEPT ![gens + 1] = v]

\* Resources.startup: no row is purged
StartTiers(p, v) ==
    /\ current = NoGen
    /\ Opened(v)
    /\ provider' = p
    /\ current' = gens + 1
    /\ \E s \in Rehydrated(v) : mirror' = [mirror EXCEPT ![gens + 1] = s]
    /\ UNCHANGED <<table, ring, index, shut, opening, clock, asks>>
    /\ AllSeen

\* the process ends, with everything but the file
Die ==
    /\ current # NoGen
    /\ mirror' = NoTiers /\ ring' = NoTiers /\ index' = [g \in Gens |-> {}]
    /\ salt' = [g \in Gens |-> NoSalt]
    /\ shut' = {}
    /\ current' = NoGen /\ opening' = NoGen
    /\ asker' = [a \in Askers |-> Resting]
    /\ UNCHANGED <<table, provider, gens, clock, asks>>

\* a rebind, purge_other_versions=True: rows of notebooks go as well
OpenTiers(v) ==
    /\ current # NoGen /\ opening = NoGen
    /\ v # salt[current]
    /\ Opened(v)
    /\ opening' = gens + 1
    /\ table' = {r \in table : r.key.version = v}
    /\ \E s \in Rehydrated(v) : mirror' = [mirror EXCEPT ![gens + 1] = s]
    /\ UNCHANGED <<ring, index, shut, current, provider, clock, asks>>
    /\ AllSeen

\* the end of the bind
Publish ==
    /\ opening # NoGen
    /\ current' = opening
    /\ opening' = NoGen
    /\ UNCHANGED <<table, tierVars, salt, shut, provider, gens, clock, asks>>
    /\ AllSeen

\* _close_quietly, under the calls that hold the old cache
CloseTiers(g) ==
    /\ opening = NoGen
    /\ salt[g] # NoSalt /\ g \notin shut \cup {current}
    /\ shut' = shut \cup {g}
    /\ UNCHANGED <<table, tierVars, salt, current, opening, provider, gens,
                   clock, asks>>
    /\ AllSeen

\* invalidate_corpus_version: a notebook's table was dropped or found stale
ClearNear ==
    /\ current # NoGen
    /\ index[current] # {}
    /\ ring' = [ring EXCEPT ![current] = <<>>]
    /\ index' = [index EXCEPT ![current] = {}]
    /\ UNCHANGED <<table, mirror, bindingVars, clock, asks>>
    /\ AllSeen
-------------------------------------------------------------------------------
(***************************************************************************)
(* A call of search_papers.                                                *)
(***************************************************************************)
Now(a, pc) == asker[a].pc = pc

\* the cache is taken once; the pre-encode probe asks for the intended embedder
Query(a, q) ==
    /\ Now(a, "idle") \/ Now(a, "reply")
    /\ current # NoGen
    /\ asks < MaxAsks
    /\ asks' = asks + 1
    /\ Goes(a, [pc |-> "probe", gen |-> current, text |-> q.text, k |-> q.k,
                version |-> IF q.book THEN Notebook ELSE salt[current],
                by |-> Identity(provider, FALSE), encoded |-> FALSE,
                entry |-> Unkept, age |-> 0])
    /\ UNCHANGED <<table, tierVars, bindingVars, clock>>

\* After a miss of tier 1: look for a neighbour, or encode and probe again.
\* encode_query_with_fallback: the hosted provider is a stub that always raises.
Onward(l) ==
    IF l.encoded THEN [l EXCEPT !.pc = "near"]
    ELSE [l EXCEPT !.pc = "probe", !.encoded = TRUE,
                   !.by = Identity(provider, provider # "local")]

\* the reply: the rows, the tier they come from, their age when they were read
Served(l, tier, e, age) ==
    [pc |-> "reply", ask |-> KeyOf(l), tier |-> tier, got |-> e.got, age |-> age]

\* _tier1_get, the mirror: a hit is moved to the end, an expired entry dropped
ProbeMirror(a) ==
    LET l == asker[a] s == mirror[l.gen] here == Places(s, KeyOf(l)) IN
    /\ Now(a, "probe")
    /\ \/ \E i \in here :
             /\ Alive(s[i])
             /\ mirror' = [mirror EXCEPT ![l.gen] = Append(Without(s, here), s[i])]
             /\ Goes(a, Served(l, "exact", s[i], clock - s[i].since))
       \/ /\ \A i \in here : ~Alive(s[i])
          /\ mirror' = [mirror EXCEPT ![l.gen] = Without(s, here)]
          /\ Goes(a, [l EXCEPT !.pc = "row"])
    /\ UNCHANGED <<table, ring, index, bindingVars, clock, asks>>

\* get_with_expiry: an expired row is deleted; a closed connection raises, which
\* lookup_search takes for a miss
ReadRow(a) ==
    LET l == asker[a] mine == {r \in table : r.key = KeyOf(l)} IN
    /\ Now(a, "row")
    /\ \/ /\ l.gen \notin shut
          /\ \E r \in mine : Alive(r) /\
                 Goes(a, [l EXCEPT !.pc = "fill", !.entry = r, !.age = clock - r.since])
          /\ UNCHANGED table
       \/ /\ l.gen \notin shut
          /\ \A r \in mine : ~Alive(r)
          /\ table' = table \ mine
          /\ Goes(a, Onward(l))
       \/ /\ l.gen \in shut
          /\ Goes(a, Onward(l))
          /\ UNCHANGED table
    /\ UNCHANGED <<tierVars, bindingVars, clock, asks>>

\* Mutant: the mirror counts the row's lifetime from the read.
FillMirrorAnew(a) ==
    LET l == asker[a]
        e == [l.entry EXCEPT !.exp = clock + TtlExact] IN
    /\ Now(a, "fill")
    /\ mirror' = [mirror EXCEPT ![l.gen] = Append(Without(@, Places(@, KeyOf(l))), e)]
    /\ Goes(a, Served(l, "exact", e, l.age))
    /\ UNCHANGED <<table, ring, index, bindingVars, clock, asks>>

\* the row goes into the mirror under its own expiry, whatever the mirror holds
\* by now, and whatever its size
FillMirror(a) ==
    LET l == asker[a] IN
    /\ Now(a, "fill")
    /\ mirror' = [mirror EXCEPT ![l.gen] =
                     Append(Without(@, Places(@, KeyOf(l))), l.entry)]
    /\ Goes(a, Served(l, "exact", l.entry, l.age))
    /\ UNCHANGED <<table, ring, index, bindingVars, clock, asks>>

\* _tier2_lookup: of the neighbours the index returns, the first that is still in
\* the buffer, fits and lives; those before it that fit and have expired are
\* dropped from the buffer, but not from the index
Fits(e, l) ==
    /\ e.key.version = l.version /\ e.key.by = l.by
    /\ e.key.k >= l.k
Neighbours(l) ==  \* their places in Closest[l.text]
    LET near == {n \in DOMAIN Closest[l.text] : Closest[l.text][n] \in index[l.gen]}
    IN {n \in near : Cardinality({m \in near : m < n}) < TopK}

SearchNear(a) ==
    LET l == asker[a]
        s == ring[l.gen]
        near == Neighbours(l)
        fit == [n \in near |-> {i \in SlotsOf(s, Closest[l.text][n]) : Fits(s[i], l)}]
        hits == {n \in near : \E i \in fit[n] : Alive(s[i])}
        Passed(n) == \A m \in hits : n < m
        dead == {i \in UNION {fit[n] : n \in {m \in near : Passed(m)}} : ~Alive(s[i])}
    IN
    /\ Now(a, "near")
    /\ \E left \in Left(s, DOMAIN s \ dead) : ring' = [ring EXCEPT ![l.gen] = left]
    /\ \/ hits = {} /\ Goes(a, [l EXCEPT !.pc = "rank"])
       \/ \E n \in hits :
             /\ \A m \in hits : n <= m
             /\ \E i \in fit[n] : /\ Alive(s[i])
                               /\ Goes(a, Served(l, "near", s[i], clock - s[i].since))
    /\ UNCHANGED <<table, mirror, index, bindingVars, clock, asks>>

\* Mutant: the ranking is kept under the embedder that is configured.
RankAsConfigured(a) ==
    LET l == asker[a]
        key == [KeyOf(l) EXCEPT !.by = Identity(provider, FALSE)] IN
    /\ Now(a, "rank")
    /\ Goes(a, [l EXCEPT !.pc = "keep",
                         !.entry = Entry(key, [key EXCEPT !.by = "local"], TtlExact)])
    /\ UNCHANGED <<table, tierVars, bindingVars, clock, asks>>

\* the pipeline ranks by the vector it has, which only the local model makes; the
\* store begins by reading the time, once for the row and the mirror
RankLocal(a) ==
    LET l == asker[a] key == KeyOf(l) IN
    /\ Now(a, "rank")
    /\ Goes(a, [l EXCEPT !.pc = "keep",
                         !.entry = Entry(key, [key EXCEPT !.by = "local"], TtlExact)])
    /\ UNCHANGED <<table, tierVars, bindingVars, clock, asks>>

\* Tier1Store.put: beyond the cap the rows that expire first go, which may be the
\* new one; a closed connection raises before the mirror is written
KeepRow(a) ==
    LET l == asker[a]
        put == {r \in table : r.key # l.entry.key} \cup {l.entry}
        over == IF Cardinality(put) > Cap THEN Cardinality(put) - Cap ELSE 0
    IN
    /\ Now(a, "keep")
    /\ IF l.gen \in shut
       THEN /\ Goes(a, [l EXCEPT !.pc = "recall"])
            /\ UNCHANGED table
       ELSE /\ Goes(a, [l EXCEPT !.pc = "reflect"])
            /\ \E gone \in SUBSET put :
                 /\ Cardinality(gone) = over
                 /\ \A r \in gone, s \in put \ gone : r.exp <= s.exp
                 /\ table' = put \ gone
    /\ UNCHANGED <<tierVars, bindingVars, clock, asks>>

\* _tier1_put, the mirror: written whether or not the row is still there
ReflectRow(a) ==
    LET l == asker[a] IN
    /\ Now(a, "reflect")
    /\ mirror' = [mirror EXCEPT ![l.gen] =
                     Newest(Append(Without(@, Places(@, l.entry.key)), l.entry), Cap)]
    /\ Goes(a, [l EXCEPT !.pc = "recall"])
    /\ UNCHANGED <<table, ring, index, bindingVars, clock, asks>>

\* _tier2_put: one slot per embedding, the last store wins; the index is rebuilt
\* from the buffer
Recall(a) ==
    LET l == asker[a]
        e == Entry(l.entry.key, l.entry.got, TtlNear)
        others == Without(ring[l.gen], SlotsOf(ring[l.gen], l.text))
        kept == Newest(Append(others, e), Ring)
    IN
    /\ Now(a, "recall")
    /\ ring' = [ring EXCEPT ![l.gen] = kept]
    /\ index' = [index EXCEPT ![l.gen] = {kept[i].key.text : i \in DOMAIN kept}]
    /\ Goes(a, Served(l, "none", l.entry, 0))
    /\ UNCHANGED <<table, mirror, bindingVars, clock, asks>>

TimePasses ==
    /\ clock < MaxClock
    /\ clock' = clock + 1
    /\ UNCHANGED <<table, tierVars, bindingVars, asks>>
    /\ AllSeen

SearchCall(a) ==
    \/ \E q \in Questions : Query(a, q)
    \/ ProbeMirror(a) \/ ReadRow(a) \/ FillMirror(a)
    \/ SearchNear(a)
    \/ RankLocal(a) \/ KeepRow(a) \/ ReflectRow(a) \/ Recall(a)

TiersNext ==
    \/ \E p \in Providers, v \in Salts : StartTiers(p, v)
    \/ Die
    \/ \E v \in Salts : OpenTiers(v)
    \/ Publish
    \/ \E g \in Gens : CloseTiers(g)
    \/ ClearNear
    \/ \E a \in Askers : SearchCall(a)
    \/ TimePasses

TiersSpec == TiersInit /\ [][TiersNext]_cacheVars
-------------------------------------------------------------------------------
\* What the cache serves answers the call: the call's own text, or on the second
\* tier one within the threshold; its version; at least as many rows; and no older
\* than its tier allows.  It is by the embedder the call names, so that "a ranking
\* produced by the local fallback while a hosted provider was down" is not
\* re-served as the hosted one's (_tier2_scope_fingerprint).  What a mirror may
\* yet serve has its row's lifetime, whichever way it has come: by the store, by a
\* read of the row or by a restart.
HitAnswers ==
    /\ \A a \in Askers : LET l == asker[a] IN
         Now(a, "reply") /\ l.tier # "none" =>
           /\ l.got.version = l.ask.version /\ l.got.by = l.ask.by
           /\ l.tier = "exact" =>
                l.got.text = l.ask.text /\ l.got.k = l.ask.k /\ l.age <= TtlExact
           /\ l.tier = "near" =>
                /\ \E i \in DOMAIN Closest[l.ask.text] :
                      l.got.text = Closest[l.ask.text][i]
                /\ l.got.k >= l.ask.k /\ l.age <= TtlNear
    /\ \A g \in Gens : \A i \in DOMAIN mirror[g] :
         mirror[g][i].exp <= mirror[g][i].since + TtlExact
===============================================================================
