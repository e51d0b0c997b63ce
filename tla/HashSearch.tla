----------------------------- MODULE HashSearch -----------------------------
(***************************************************************************)
(* week5/workshop5/hashtables/hashtable_search.c: a chained hash table,    *)
(* filled by main and then searched for a value by several threads, each   *)
(* in its share of the buckets.                                            *)
(***************************************************************************)
EXTENDS Naturals, Sequences, SequencesExt

CONSTANTS
    Keys, HashValues,
    Hash,             \* [Keys -> Nat], djb_hash
    TableBuckets,     \* the size of the table
    SearchThreads,    \* NUM_THREADS
    Searched            \* the value searched for

ASSUME HashSearchAssumption ==
    /\ Hash \in [Keys -> Nat]
    /\ TableBuckets \in Nat \ {0} /\ SearchThreads \in Nat \ {0}

VARIABLES
    phase,            \* "off", "filling", "searching", "done" or "over"
    buckets,          \* the chain of every bucket
    cursors,          \* per thread, where it is: a bucket and a place in its chain
    printed,          \* the keys on the screen
    entered           \* history: the keys that were added and not deleted, with their values

hashVars == <<phase, buckets, cursors, printed, entered>>

Offsets == 0 .. TableBuckets - 1
Pool    == 0 .. SearchThreads - 1

HashInit ==
    /\ phase = "off"
    /\ buckets = [b \in Offsets |-> <<>>]
    /\ cursors = [i \in Pool |-> <<0, 1>>]
    /\ printed = <<>> /\ entered = {}

-----------------------------------------------------------------------------
(* The table.                                                              *)

htab_index(key) == Hash[key] % TableBuckets

Places(key) == {p \in DOMAIN buckets[htab_index(key)] : buckets[htab_index(key)][p].key = key}

\* htab_find: the values that can be found, none or one.
htab_find(key) == {buckets[htab_index(key)][p].value : p \in Places(key)}

htab_init == phase = "off" /\ phase' = "filling" /\ UNCHANGED <<buckets, cursors, printed, entered>>

\* Called for keys that are not in the table.
htab_add(key, value) ==
    /\ phase = "filling" /\ htab_find(key) = {}
    /\ buckets' = [buckets EXCEPT ![htab_index(key)] = <<[key |-> key, value |-> value]>> \o @]
    /\ entered' = entered \cup {<<key, value>>}
    /\ UNCHANGED <<phase, cursors, printed>>

htab_delete_Rest(key) ==
    /\ phase = "filling" /\ htab_find(key) # {}
    /\ \E p \in Places(key) :
        buckets' = [buckets EXCEPT ![htab_index(key)] = SubSeq(@, 1, p - 1)]
    /\ entered' = {e \in entered : e[1] # key}
    /\ UNCHANGED <<phase, cursors, printed>>

\* Called for keys that are in the table.
htab_delete(key) ==
    /\ phase = "filling" /\ htab_find(key) # {}
    /\ \E p \in Places(key) : buckets' = [buckets EXCEPT ![htab_index(key)] = RemoveAt(@, p)]
    /\ entered' = {e \in entered : e[1] # key}
    /\ UNCHANGED <<phase, cursors, printed>>

-----------------------------------------------------------------------------
(* htab_search_value and its threads.                                      *)

PerThread == TableBuckets \div SearchThreads

ShareStart(i) == i * PerThread

ShareEnd_Even(i) == (i + 1) * PerThread

\* The last thread takes what the division leaves.
ShareEnd(i) == IF i = SearchThreads - 1 THEN TableBuckets ELSE (i + 1) * PerThread

StartSearch ==
    /\ phase = "filling" /\ phase' = "searching"
    /\ cursors' = [i \in Pool |-> <<ShareStart(i), 1>>]
    /\ UNCHANGED <<buckets, printed, entered>>

\* One item of a chain, or the step to the next bucket.
SearchOn(i) ==
    LET bucket == cursors[i][1]
        place  == cursors[i][2]
        chain  == buckets[bucket]
    IN  /\ phase = "searching" /\ bucket < ShareEnd(i)
        /\ IF place \in DOMAIN chain
           THEN /\ cursors' = [cursors EXCEPT ![i] = <<bucket, place + 1>>]
                /\ printed' = IF chain[place].value = Searched THEN Append(printed, chain[place].key)
                              ELSE printed
           ELSE /\ cursors' = [cursors EXCEPT ![i] = <<bucket + 1, 1>>]
                /\ UNCHANGED printed
        /\ UNCHANGED <<phase, buckets, entered>>

JoinSearch ==
    /\ phase = "searching" /\ \A i \in Pool : cursors[i][1] >= ShareEnd(i)
    /\ phase' = "done"
    /\ UNCHANGED <<buckets, cursors, printed, entered>>

htab_destroy ==
    /\ phase = "done" /\ phase' = "over"
    /\ buckets' = [b \in Offsets |-> <<>>]
    /\ UNCHANGED <<cursors, printed, entered>>

HashNext ==
    \/ htab_init \/ StartSearch \/ JoinSearch \/ htab_destroy
    \/ \E key \in Keys : htab_delete(key) \/ \E value \in HashValues : htab_add(key, value)
    \/ \E i \in Pool : SearchOn(i)

HashSpec == HashInit /\ [][HashNext]_hashVars

-----------------------------------------------------------------------------
\* hashtable_search.c:221, "each key with value 'search' has been printed": each key
\* that was added with this value and not deleted, once, by whichever thread, also when
\* keys collide, the buckets do not divide evenly among the threads, or there are fewer
\* of them than threads (hashtable_search.c:111, 162, 226-236).
SearchComplete ==
    phase = "done" =>
        \A key \in Keys :
            Cardinality({p \in DOMAIN printed : printed[p] = key})
                = IF <<key, Searched>> \in entered THEN 1 ELSE 0
=============================================================================
