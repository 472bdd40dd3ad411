---------------------------- MODULE Collections ----------------------------
(***************************************************************************)
(* The kernel's maps (kernel/src/collections/map/): the open-addressing    *)
(* table with tombstones, the chained table and the fixed array, each      *)
(* shown to implement MapSpec.  HashSet (set.rs) is the first of them with *)
(* no values.                                                              *)
(*                                                                         *)
(* Hashes is a choice of hash per key: a bucket is the hash modulo the     *)
(* number of buckets.  A bucket is "Empty", "Tombstone" or <<key, value>>. *)
(***************************************************************************)
EXTENDS Integers, Sequences, SequencesExt, FiniteSets, FiniteSetsExt

CONSTANTS Keys, Values, None,
          Kinds,                \* out of "open", "chained", "static"
          Hashes,               \* functions from Keys to Nat
          INITIAL_CAPACITY,     \* buckets of a new table
          CAPACITY,             \* of the fixed array
          MAX_LOAD_FACTOR_PERCENT,
          MaxCapacity           \* bound on the open table

VARIABLES
    kind, hash,     \* which map, and its hasher
    buckets,        \* 0 .. n-1 -> bucket, or chain of <<key, value>>
    len, occupied_count,
    result          \* what the last call returned

vars == <<kind, hash, buckets, len, occupied_count, result>>

Empty(n) == [i \in 0 .. n - 1 |-> <<>>]
Tombstone == <<"Tombstone">>
Occupied(b) == Len(b) = 2
Size(t) == Cardinality(DOMAIN t)

---------------------------------------------------------------------------
(* open_address.rs *)

\* The buckets from the key's own on, cyclically.
Probe(t, k) == [i \in 1 .. Size(t) |-> (hash[k] + i - 1) % Size(t)]

\* How far a lookup goes: to the key or to the first empty bucket.  0: for ever.
Stop(t, k) ==
    LET p == Probe(t, k)
        ends == {i \in DOMAIN p : t[p[i]] = <<>> \/ (Occupied(t[p[i]]) /\ t[p[i]][1] = k)}
    IN IF ends = {} THEN 0 ELSE Min(ends)

\* Seeded fault: a lookup ends at a tombstone.
Find_EndsAtTombstone(t, k) ==
    LET b == t[Probe(t, k)[Stop(t, k)]]
    IN IF b = <<>> \/ \E i \in 1 .. Stop(t, k) : t[Probe(t, k)[i]] = Tombstone THEN None ELSE b[2]

\* get
Find(t, k) == LET b == t[Probe(t, k)[Stop(t, k)]] IN IF b = <<>> THEN None ELSE b[2]

\* resize: everything into a table twice the size, tombstones left behind.
Resize(t) ==
    LET n == IF 2 * Size(t) > INITIAL_CAPACITY THEN 2 * Size(t) ELSE INITIAL_CAPACITY
        Put(new, i) ==
            IF ~Occupied(t[i]) THEN new
            ELSE LET p == Probe(new, t[i][1])
                     at == p[Min({j \in DOMAIN p : ~Occupied(new[p[j]])})]
                 IN [new EXCEPT ![at] = t[i]]
    IN FoldLeft(Put, Empty(n), [i \in 1 .. Size(t) |-> i - 1])

\* Seeded fault: tombstones do not count towards the load.
TooFull_LiveOnly == ((len + 1) * 100) \div Size(buckets) >= MAX_LOAD_FACTOR_PERCENT

TooFull == ((occupied_count + 1) * 100) \div Size(buckets) >= MAX_LOAD_FACTOR_PERCENT

OpenInsert(k, v) ==
    LET t == IF TooFull THEN Resize(buckets) ELSE buckets
        count == IF TooFull THEN len ELSE occupied_count
        p == Probe(t, k)
        stop == Stop(t, k)
        graves == {i \in 1 .. stop - 1 : t[p[i]] = Tombstone}
    IN /\ kind = "open" /\ Size(t) <= MaxCapacity
       /\ result' = Find(t, k)
       /\ IF t[p[stop]] # <<>>
          THEN /\ buckets' = [t EXCEPT ![p[stop]] = <<k, v>>]
               /\ occupied_count' = count /\ UNCHANGED len
          ELSE /\ buckets' = [t EXCEPT ![p[IF graves = {} THEN stop ELSE Min(graves)]] = <<k, v>>]
               /\ occupied_count' = count + (IF graves = {} THEN 1 ELSE 0)
               /\ len' = len + 1
       /\ UNCHANGED <<kind, hash>>

\* Seeded fault: the bucket is emptied.
OpenRemove_Empties(k) ==
    LET at == Probe(buckets, k)[Stop(buckets, k)]
    IN /\ kind = "open" /\ result' = Find(buckets, k)
       /\ IF buckets[at] = <<>> THEN UNCHANGED <<buckets, len, occupied_count>>
          ELSE /\ buckets' = [buckets EXCEPT ![at] = <<>>] /\ len' = len - 1
               /\ occupied_count' = occupied_count - 1
       /\ UNCHANGED <<kind, hash>>

OpenRemove(k) ==
    LET at == Probe(buckets, k)[Stop(buckets, k)]
    IN /\ kind = "open" /\ result' = Find(buckets, k)
       /\ IF buckets[at] = <<>> THEN UNCHANGED <<buckets, len>>
          ELSE buckets' = [buckets EXCEPT ![at] = Tombstone] /\ len' = len - 1
       /\ UNCHANGED <<kind, hash, occupied_count>>

OpenGet(k) ==
    /\ kind = "open" /\ result' = Find(buckets, k)
    /\ UNCHANGED <<kind, hash, buckets, len, occupied_count>>

---------------------------------------------------------------------------
(* chained.rs and static_map.rs: a chain per bucket, newest first; an array
   of slots.  places: where the key may be. *)

Hits(k) == {i \in DOMAIN buckets : buckets[i] # <<>> /\ buckets[i][1] = k}

StaticInsert(k, v) ==
    LET free == {i \in DOMAIN buckets : buckets[i] = <<>>}
    IN /\ kind = "static"
       /\ IF Hits(k) # {}
          THEN /\ result' = buckets[Min(Hits(k))][2]
               /\ buckets' = [buckets EXCEPT ![Min(Hits(k))] = <<k, v>>] /\ UNCHANGED len
          ELSE /\ result' = None
               /\ IF free = {} THEN UNCHANGED <<buckets, len>>
                  ELSE buckets' = [buckets EXCEPT ![Min(free)] = <<k, v>>] /\ len' = len + 1
       /\ UNCHANGED <<kind, hash, occupied_count>>

StaticGet(k) ==
    /\ kind = "static"
    /\ result' = IF Hits(k) = {} THEN None ELSE buckets[Min(Hits(k))][2]
    /\ UNCHANGED <<kind, hash, buckets, len, occupied_count>>

StaticRemove(k) ==
    /\ kind = "static"
    /\ IF Hits(k) = {} THEN result' = None /\ UNCHANGED <<buckets, len>>
       ELSE /\ result' = buckets[Min(Hits(k))][2]
            /\ buckets' = [buckets EXCEPT ![Min(Hits(k))] = <<>>] /\ len' = len - 1
    /\ UNCHANGED <<kind, hash, occupied_count>>

Bucket(k) == hash[k] % Size(buckets)
Chain(k) == buckets[Bucket(k)]
Links(k) == {i \in DOMAIN Chain(k) : Chain(k)[i][1] = k}
Chained(k) == IF Links(k) = {} THEN None ELSE Chain(k)[Min(Links(k))][2]

ChainedInsert(k, v) ==
    /\ kind = "chained" /\ result' = Chained(k)
    /\ IF Links(k) # {}
       THEN buckets' = [buckets EXCEPT ![Bucket(k)][Min(Links(k))] = <<k, v>>] /\ UNCHANGED len
       ELSE buckets' = [buckets EXCEPT ![Bucket(k)] = << <<k, v>> >> \o @] /\ len' = len + 1
    /\ UNCHANGED <<kind, hash, occupied_count>>

ChainedGet(k) ==
    /\ kind = "chained" /\ result' = Chained(k)
    /\ UNCHANGED <<kind, hash, buckets, len, occupied_count>>

ChainedRemove(k) ==
    /\ kind = "chained" /\ result' = Chained(k)
    /\ IF Links(k) = {} THEN UNCHANGED <<buckets, len>>
       ELSE buckets' = [buckets EXCEPT ![Bucket(k)] = RemoveAt(@, Min(Links(k)))] /\ len' = len - 1
    /\ UNCHANGED <<kind, hash, occupied_count>>

Clear ==
    /\ buckets' = Empty(Size(buckets)) /\ len' = 0 /\ occupied_count' = 0 /\ result' = None
    /\ UNCHANGED <<kind, hash>>

---------------------------------------------------------------------------
Init ==
    /\ kind \in Kinds /\ hash \in Hashes
    /\ buckets = Empty(IF kind = "static" THEN CAPACITY ELSE INITIAL_CAPACITY) /\ len = 0 /\ occupied_count = 0 /\ result = None

Next ==
    \/ \E k \in Keys :
        \/ OpenGet(k) \/ OpenRemove(k) \/ StaticGet(k) \/ StaticRemove(k)
        \/ ChainedGet(k) \/ ChainedRemove(k)
        \/ \E v \in Values : OpenInsert(k, v) \/ StaticInsert(k, v) \/ ChainedInsert(k, v)
    \/ Clear

Spec == Init /\ [][Next]_vars

---------------------------------------------------------------------------
\* The pairs in the buckets.
Pairs ==
    LET of(b) == IF kind = "chained" THEN ToSet(b) ELSE IF Occupied(b) THEN {b} ELSE {}
    IN UNION {of(buckets[i]) : i \in DOMAIN buckets}

Contents == [k \in {p[1] : p \in Pairs} |-> (CHOOSE p \in Pairs : p[1] = k)[2]]

Contract == INSTANCE MapSpec
    WITH map <- Contents, capacity <- IF kind = "static" THEN CAPACITY ELSE Cardinality(Keys)

\* Each of the three maps behaves as the trait Map says: through collisions,
\* tombstones that are reused, a resize in the middle and removals from the
\* middle of a chain, every call returns what a plain function would.
MapContract == Contract!Spec

\* A lookup in the open table always meets an empty bucket, so it ends (the load
\* factor counts tombstones for that); no key is in two places, and the counts
\* are those of the buckets.
TableSound ==
    /\ len = Cardinality(Pairs)
    /\ \A p, q \in Pairs : p[1] = q[1] => p = q
    /\ kind = "open" =>
        /\ \E i \in DOMAIN buckets : buckets[i] = <<>>
        /\ occupied_count = Cardinality({i \in DOMAIN buckets : buckets[i] # <<>>})

=============================================================================
