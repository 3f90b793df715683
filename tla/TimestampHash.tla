--------------------------- MODULE TimestampHash ----------------------------
(***************************************************************************)
(* The hash table with open addressing whose entries carry the stamp of    *)
(* the time they were written (open_addr_hash_timestamp of                 *)
(* basics/util/c_src/open_addressing_hash_timestamp.h): clear passes to    *)
(* the next stamp instead of going through the buckets.                    *)
(***************************************************************************)
EXTENDS Integers, FiniteSetsExt

CONSTANTS
    Key,
    Datum,
    NoKey,                  \* the key of a bucket that was never written
    DefaultDatum,           \* dt(), the datum of a key seen for the first time
    Hash(_),                \* hash_function: 32 bits
    MaxStamp,               \* max_stamp: 2^30 in the code
    LoadNum, LoadDen,       \* max_load_factor, a fraction
    MaxBuckets, MaxCalls    \* bounds

(* What a program takes for its parameters.                                 *)
HashAssumption ==
    /\ MaxStamp \in Nat \ {0} /\ DefaultDatum \in Datum /\ NoKey \notin Key
    /\ \A k \in Key : Hash(k) \in Nat
    /\ LoadNum \in Nat \ {0} /\ LoadDen \in Nat /\ 10 * LoadNum <= 9 * LoadDen

VARIABLES
    buckets,                \* buckets[i]: key, datum and stamp
    theSize,                \* the_size
    currentStamp,           \* current_stamp
    calls,                  \* calls so far
    dict                    \* history: the datum of each key in the table

hashVars == <<buckets, theSize, currentStamp, calls, dict>>

Buckets(n) == [i \in 0..(n - 1) |-> [key |-> NoKey, datum |-> DefaultDatum, stamp |-> 0]]

NumBuckets(b) == Cardinality(DOMAIN b)

\* 4, 8, 16, ...
PowersOf2(n) ==
    LET power[i \in 0..n] == IF i = 0 THEN 4 ELSE 2 * power[i - 1]
    IN {power[i] : i \in 0..n}

FirstPowerOf2(n) == Min(PowersOf2(n) \ 0..(n - 1))

\* The ceiling of max_load_factor * num_buckets.
RehashThreshold(n) == (LoadNum * n + LoadDen - 1) \div LoadDen

HashInit ==
    /\ \E n \in {1, 8} : buckets = Buckets(FirstPowerOf2(n))
    /\ theSize = 0
    /\ currentStamp = 1
    /\ calls = 0
    /\ dict = [k \in {} |-> DefaultDatum]
-----------------------------------------------------------------------------
\* (hfval >> 15) | 1: a step that is odd goes through every bucket.
Step(k) == LET s == Hash(k) \div 32768 IN s + 1 - (s % 2)

Place(b, k, turn) == (Hash(k) + turn * Step(k)) % NumBuckets(b)

\* Where a search for k stops: at its entry or at the first bucket that is not
\* of the time.
Stops(b, stamp, k) ==
    Place(b, k, Min({turn \in 0..(NumBuckets(b) - 1) :
                        LET e == b[Place(b, k, turn)] IN e.stamp # stamp \/ e.key = k}))

\* What a walk with iterators stops at.
Walked(b, stamp) == {i \in DOMAIN b : b[i].stamp = stamp}

Find(k) ==
    LET e == buckets[Stops(buckets, currentStamp, k)] IN
    IF e.stamp = currentStamp THEN {e.datum} ELSE {}

\* An entry put in the first bucket that its search finds free.
MovedTo(b, e) == [b EXCEPT ![Stops(b, 1, e.key)] = [e EXCEPT !.stamp = 1]]

\* The entries of a time moved to n buckets, in the order of the old ones.
Rehashed(old, stamp, n) ==
    LET moved[i \in 0..NumBuckets(old)] ==
            IF i = 0 THEN Buckets(n)
            ELSE IF old[i - 1].stamp # stamp THEN moved[i - 1]
            ELSE MovedTo(moved[i - 1], old[i - 1])
    IN moved[NumBuckets(old)]

Grows == theSize + 1 >= RehashThreshold(NumBuckets(buckets))

Extended(dic, k, d) == [x \in DOMAIN dic \cup {k} |-> IF x = k THEN d ELSE dic[x]]

\* t[k] = d.  The first use of k writes dt() before d.
Assign(k, d) ==
    LET at == Stops(buckets, currentStamp, k)
        table == IF Grows THEN Rehashed(buckets, currentStamp, 2 * NumBuckets(buckets))
                          ELSE buckets
        stamp == IF Grows THEN 1 ELSE currentStamp
    IN
    /\ IF buckets[at].stamp = currentStamp
       THEN /\ buckets' = [buckets EXCEPT ![at].datum = d]
            /\ UNCHANGED <<theSize, currentStamp>>
       ELSE /\ Grows => 2 * NumBuckets(buckets) <= MaxBuckets
            /\ buckets' = [table EXCEPT ![Stops(table, stamp, k)] =
                              [key |-> k, datum |-> d, stamp |-> stamp]]
            /\ theSize' = theSize + 1
            /\ currentStamp' = stamp
    /\ dict' = Extended(dict, k, d)

\* Mutant: the stamps start again over the old entries.
KeptAtLimit(b) == b

ResetStamps(b) == [i \in DOMAIN b |-> [b[i] EXCEPT !.stamp = 0]]

Clear ==
    /\ IF currentStamp >= MaxStamp
       THEN buckets' = ResetStamps(buckets) /\ currentStamp' = 1
       ELSE currentStamp' = currentStamp + 1 /\ UNCHANGED buckets
    /\ theSize' = 0
    /\ dict' = [k \in {} |-> DefaultDatum]

\* A resize to no more buckets than entries never finds a free bucket: callers
\* have to leave room for one.
Resize(n) ==
    LET size == FirstPowerOf2(n) IN
    /\ size > theSize /\ size # NumBuckets(buckets)
    /\ buckets' = Rehashed(buckets, currentStamp, size)
    /\ currentStamp' = 1
    /\ UNCHANGED <<theSize, dict>>

HashNext ==
    /\ calls < MaxCalls
    /\ calls' = calls + 1
    /\ \/ \E k \in Key : \E d \in Datum : Assign(k, d)
       \/ Clear
       \/ \E n \in {4, 5} : Resize(n)

HashSpec == HashInit /\ [][HashNext]_hashVars
-----------------------------------------------------------------------------
(***************************************************************************)
(* The table is the dictionary of what was assigned since the last clear:  *)
(* a search finds the datum of each key in it and nothing of another time, *)
(* a walk over the buckets meets each key once, size counts them, and a    *)
(* bucket is left where a search can stop.  It holds over collisions,      *)
(* growth, and clears that reach the largest stamp.                        *)
(***************************************************************************)
IsDictionary ==
    LET walked == Walked(buckets, currentStamp) IN
    /\ theSize = Cardinality(DOMAIN dict) /\ Cardinality(walked) = theSize
    /\ theSize < NumBuckets(buckets)
    /\ {<<buckets[i].key, buckets[i].datum>> : i \in walked} = {<<k, dict[k]>> : k \in DOMAIN dict}
    /\ \A k \in Key : Find(k) = IF k \in DOMAIN dict THEN {dict[k]} ELSE {}

(***************************************************************************)
(* The inductive invariant of IsDictionary.  The buckets are a power of 2, *)
(* none is of a later time, and one is free; every key of the dictionary   *)
(* has one entry of the time, and a search for it meets on its way to this *)
(* only entries of the time of other keys.                                 *)
(***************************************************************************)
Entry == [key : Key \cup {NoKey}, datum : Datum, stamp : 0..MaxStamp]

Reached(b, stamp, k, d, turn) ==
    /\ b[Place(b, k, turn)] = [key |-> k, datum |-> d, stamp |-> stamp]
    /\ \A t \in 0..(turn - 1) :
          b[Place(b, k, t)].stamp = stamp /\ b[Place(b, k, t)].key # k

IsTable(b) ==
    /\ NumBuckets(b) \in Nat /\ NumBuckets(b) \in PowersOf2(NumBuckets(b))
    /\ b \in [0..(NumBuckets(b) - 1) -> Entry]

IsDict(d) ==
    d \in [DOMAIN d -> Datum] /\ DOMAIN d \subseteq Key /\ IsFiniteSet(DOMAIN d)

IsTableOf(b, stamp, d) ==
    /\ IsTable(b) /\ IsDict(d) /\ Cardinality(DOMAIN d) < NumBuckets(b)
    /\ stamp \in 1..MaxStamp /\ \A i \in DOMAIN b : b[i].stamp <= stamp
    /\ \A i \in Walked(b, stamp) :
          /\ b[i].key \in DOMAIN d
          /\ \A j \in Walked(b, stamp) : b[i].key = b[j].key => i = j
    /\ \A k \in DOMAIN d : \E turn \in 0..(NumBuckets(b) - 1) : Reached(b, stamp, k, d[k], turn)

TableInv ==
    /\ IsTableOf(buckets, currentStamp, dict)
    /\ theSize = Cardinality(DOMAIN dict)
=============================================================================
