--------------------------- MODULE BoundedReadCache ---------------------------
(***************************************************************************)
(* The cache of verified reads (apps/server/src/bounded-read-cache.ts): the *)
(* entries are a Map, which keeps the order of insertion; loads are in      *)
(* flight while others hit, refresh, expire, evict and clear.               *)
(***************************************************************************)
EXTENDS Naturals, FiniteSets, SequencesExt

CONSTANTS
    Key,         \* keys
    Load,        \* loads that are started, 1 .. n
    Size,        \* what measure() may say
    MaxBytes, MaxEntries, MaxAge,   \* maxBytes, maxEntries, maxAgeMs
    MaxTime,     \* bound of the clock
    MaxClears    \* bound of clear()

ASSUME CacheLimitAssumption ==
    /\ {MaxBytes, MaxEntries, MaxAge, MaxTime, MaxClears} \subseteq Nat
    /\ Load \subseteq Nat \ {0} /\ Size \subseteq Nat

VARIABLES
    entries,      \* the Map: [key, bytes, touchedAt, load] in order of insertion
    inFlight,     \* the Map pending: the load of a key, or 0
    loads,        \* per load: [key, generation, step], in the order they were started
    generation, bytes,
    clock

cacheVars == <<entries, inFlight, loads, generation, bytes, clock>>

NoLoad == 0
Cached(k) == \E i \in 1 .. Len(entries) : entries[i].key = k
PlaceOf(k) == CHOOSE i \in 1 .. Len(entries) : entries[i].key = k
EntryOf(k) == entries[PlaceOf(k)]
\* Map.delete()
Others(k) == IF Cached(k) THEN RemoveAt(entries, PlaceOf(k)) ELSE entries
\* Each byte of each entry counts once.
BytesOf(es) == Cardinality(UNION {{es[i].key} \X (1 .. es[i].bytes) : i \in 1 .. Len(es)})
IsFresh(k) == Cached(k) /\ clock - EntryOf(k).touchedAt < MaxAge

CacheInit ==
    /\ entries = <<>> /\ loads = <<>> /\ generation = 0 /\ bytes = 0 /\ clock = 0
    /\ inFlight = [k \in Key |-> NoLoad]

\* remove(): a key that has no entry costs nothing.
RemoveEntry(k) ==
    /\ entries' = Others(k)
    /\ bytes' = IF Cached(k) THEN bytes - EntryOf(k).bytes ELSE bytes

\* A hit moves the entry to the end of the Map.
Hit(k) ==
    /\ IsFresh(k)
    /\ entries' = Append(Others(k), [EntryOf(k) EXCEPT !.touchedAt = clock])
    /\ UNCHANGED <<inFlight, loads, generation, bytes, clock>>

\* load() without a hit: it joins the load in flight, or starts one.
Miss(k) ==
    /\ \E refresh \in BOOLEAN : refresh \/ ~ IsFresh(k)
    /\ RemoveEntry(k)
    /\ IF inFlight[k] # NoLoad
       THEN UNCHANGED <<inFlight, loads>>
       ELSE /\ Len(loads) + 1 \in Load
            /\ inFlight' = [inFlight EXCEPT ![k] = Len(loads) + 1]
            /\ loads' = Append(loads, [key |-> k, generation |-> generation, step |-> "loading"])
    /\ UNCHANGED <<generation, clock>>

\* get() of an entry that is too old.
Expire(k) ==
    /\ Cached(k) /\ ~ IsFresh(k)
    /\ RemoveEntry(k)
    /\ UNCHANGED <<inFlight, loads, generation, clock>>

\* The entries that are left when the oldest are removed until both limits hold.
Evicted(es) ==
    LET n == CHOOSE i \in 0 .. Len(es) :
                LET rest == SubSeq(es, i + 1, Len(es))
                    Fits(r) == BytesOf(r) <= MaxBytes /\ Len(r) <= MaxEntries
                IN Fits(rest) /\ \A h \in 0 .. i - 1 : ~ Fits(SubSeq(es, h + 1, Len(es)))
    IN SubSeq(es, n + 1, Len(es))

MayKeep(l, size) == loads[l].generation = generation /\ size <= MaxBytes

\* Map.set(): the place of a key that is there is kept.
Set(es, e) ==
    IF \E i \in 1 .. Len(es) : es[i].key = e.key
    THEN [i \in 1 .. Len(es) |-> IF es[i].key = e.key THEN e ELSE es[i]]
    ELSE Append(es, e)

\* The value of a load, and its size, which invalid values do not have.
Loaded(l) ==
    /\ l <= Len(loads) /\ loads[l].step = "loading"
    /\ loads' = [loads EXCEPT ![l].step = "settling"]
    /\ \E size \in Size :
          IF MayKeep(l, size)
          THEN LET all == Set(entries, [key |-> loads[l].key, bytes |-> size,
                                        touchedAt |-> clock, load |-> l])
                   kept == Evicted(all)
               IN /\ entries' = kept
                  \* this.bytes is counted up and down, not measured
                  /\ bytes' = bytes + size - (BytesOf(all) - BytesOf(kept))
          ELSE UNCHANGED <<entries, bytes>>
    /\ UNCHANGED <<inFlight, generation, clock>>

LoadFails(l) ==
    /\ l <= Len(loads) /\ loads[l].step = "loading"
    /\ loads' = [loads EXCEPT ![l].step = "settling"]
    /\ UNCHANGED <<entries, inFlight, generation, bytes, clock>>

\* The finally() of a load, in a later turn: it is no longer pending, unless
\* another load has taken its place.
Settles(l) ==
    /\ l <= Len(loads) /\ loads[l].step = "settling"
    /\ loads' = [loads EXCEPT ![l].step = "settled"]
    /\ inFlight' = IF inFlight[loads[l].key] = l
                   THEN [inFlight EXCEPT ![loads[l].key] = NoLoad] ELSE inFlight
    /\ UNCHANGED <<entries, generation, bytes, clock>>

Clear ==
    /\ generation < MaxClears
    /\ generation' = generation + 1
    /\ entries' = <<>> /\ bytes' = 0
    /\ inFlight' = [k \in Key |-> NoLoad]
    /\ UNCHANGED <<loads, clock>>

Tick == clock < MaxTime /\ clock' = clock + 1 /\ UNCHANGED <<entries, inFlight, loads, generation, bytes>>

CacheNext ==
    \/ Clear \/ Tick
    \/ \E k \in Key : Hit(k) \/ Miss(k) \/ Expire(k)
    \/ \E l \in Load : Loaded(l) \/ LoadFails(l) \/ Settles(l)

CacheSpec == CacheInit /\ [][CacheNext]_cacheVars

-----------------------------------------------------------------------------
\* The count of bytes is the bytes of the entries, both limits hold, the oldest
\* is evicted first, a key has one load per generation, and nothing whose load
\* began before clear() is kept after it.
CacheIsBounded ==
    /\ bytes = BytesOf(entries) /\ bytes <= MaxBytes /\ Len(entries) <= MaxEntries
    /\ \A i, k \in 1 .. Len(entries) :
          /\ entries[i].key = entries[k].key => i = k
          /\ i < k => entries[i].touchedAt <= entries[k].touchedAt
    /\ \A i \in 1 .. Len(entries) : loads[entries[i].load].generation = generation
    /\ \A l, m \in 1 .. Len(loads) :
          /\ loads[l].key = loads[m].key /\ loads[l].generation = loads[m].generation
          /\ loads[l].step = "loading" /\ loads[m].step = "loading"
          => l = m

=============================================================================
