---------------------------- MODULE DoubleVector ----------------------------
(***************************************************************************)
(* assignment1/vector: a growing array of doubles.  `vec' is worked on and *)
(* copied to `dest'.  The memory behind the last item keeps what it held,  *)
(* and new memory holds Junk.  The first allocation is taken to succeed:   *)
(* dv_init does not look.                                                  *)
(***************************************************************************)
EXTENDS Naturals, Sequences, SequencesExt

CONSTANTS
    Doubles,                     \* the items
    InitialCapacity,             \* DV_INITIAL_CAPACITY
    GrowthNumber, GrowthOver,    \* DV_GROWTH_FACTOR as a fraction
    MaxSize,                     \* bound: items in a vector
    Junk

ASSUME DoubleVectorAssumption ==
    /\ InitialCapacity \in Nat /\ MaxSize \in Nat
    /\ GrowthNumber \in Nat /\ GrowthOver \in Nat \ {0}
    /\ Junk \notin Doubles

VARIABLES
    vectors,       \* "off", "live" or "over": the program has ended or crashed
    vec, dest

vectorVars == <<vectors, vec, dest>>

Memory(n) == [i \in 1 .. n |-> Junk]

Destroyed == [size |-> 0, capacity |-> 0, data |-> <<>>]
Fresh     == [size |-> 0, capacity |-> InitialCapacity, data |-> Memory(InitialCapacity)]

VectorsInit == vectors = "off" /\ vec = Destroyed /\ dest = Destroyed

\* dv_init, of both.
Initialise == vectors = "off" /\ vectors' = "live" /\ vec' = Fresh /\ dest' = Fresh

-----------------------------------------------------------------------------
(* dv_ensure_capacity: the vector it leaves, if the memory is there.       *)

Grown(capacity, size) ==
    LET grown == (capacity * GrowthNumber) \div GrowthOver
    IN  IF grown < size THEN size ELSE grown

Ensured_Never(v, size) == v

Ensured(v, size) ==
    IF size <= v.capacity THEN v
    ELSE LET new == Grown(v.capacity, size)
         IN  [v EXCEPT !.capacity = new, !.data = @ \o Memory(new - v.capacity)]

\* The first n items one place to the right, or the left, from place on.
ShiftedRight(data, place, n) == [i \in DOMAIN data |-> IF i \in place + 1 .. n + 1 THEN data[i - 1] ELSE data[i]]
ShiftedLeft(data, place, n)  == [i \in DOMAIN data |-> IF i \in place .. n - 1 THEN data[i + 1] ELSE data[i]]

\* A write outside the memory crashes.
WithItem(v, place, x) == IF place \in DOMAIN v.data THEN [v EXCEPT !.data[place] = x] ELSE v

-----------------------------------------------------------------------------
(* The operations.                                                         *)

Works == vectors = "live" /\ UNCHANGED vectors

dv_push(x) ==
    /\ Works /\ vec.size < MaxSize
    /\ vec' = WithItem([Ensured(vec, vec.size + 1) EXCEPT !.size = vec.size + 1], vec.size + 1, x)
    /\ UNCHANGED dest

dv_pop ==
    /\ Works
    /\ vec' = IF vec.size > 0 THEN [vec EXCEPT !.size = @ - 1] ELSE vec
    /\ UNCHANGED dest

dv_clear == Works /\ vec' = [vec EXCEPT !.size = 0] /\ UNCHANGED dest

\* A position behind the end is the end.
dv_insert_at(pos, x) ==
    LET loc  == IF pos > vec.size THEN vec.size ELSE pos
        room == Ensured(vec, vec.size + 1)
    IN  /\ Works /\ vec.size < MaxSize
        /\ vec' = WithItem([room EXCEPT !.data = ShiftedRight(@, loc + 1, vec.size), !.size = @ + 1],
                         loc + 1, x)
        /\ UNCHANGED dest

dv_remove_at(pos) ==
    /\ Works
    /\ vec' = IF pos >= vec.size THEN vec
              ELSE [vec EXCEPT !.data = ShiftedLeft(@, pos + 1, vec.size), !.size = @ - 1]
    /\ UNCHANGED dest

dv_copy_Appends ==
    /\ Works /\ dest.size + vec.size <= MaxSize
    /\ dest' = [Ensured(dest, vec.size) EXCEPT !.size = vec.size,
                    !.data = [i \in DOMAIN @ |-> IF i <= vec.size - 1 THEN vec.data[i] ELSE @[i]]]
    /\ UNCHANGED vec

dv_copy ==
    /\ Works
    /\ dest' = [Ensured(dest, vec.size) EXCEPT !.size = vec.size,
                    !.data = [i \in DOMAIN @ |-> IF i <= vec.size THEN vec.data[i] ELSE @[i]]]
    /\ UNCHANGED vec

dv_ensure_capacity(new_size) == Works /\ vec' = Ensured(vec, new_size) /\ UNCHANGED dest

\* The last call: the vector is not used afterwards.
dv_destroy == vectors = "live" /\ vectors' = "over" /\ vec' = Destroyed /\ UNCHANGED dest

\* realloc fails: the program exits.
OutOfMemory ==
    /\ vectors = "live" /\ vectors' = "over"
    /\ UNCHANGED <<vec, dest>>

VectorsNext ==
    \/ Initialise \/ dv_pop \/ dv_clear \/ dv_copy \/ dv_destroy \/ OutOfMemory
    \/ \E x \in Doubles : dv_push(x) \/ \E pos \in 0 .. MaxSize : dv_insert_at(pos, x)
    \/ \E pos \in 0 .. MaxSize : dv_remove_at(pos) \/ dv_ensure_capacity(pos)

VectorsSpec == VectorsInit /\ [][VectorsNext]_vectorVars

-----------------------------------------------------------------------------
\* What a vector holds.  One that claims an item it has no memory for is no sequence.
Items(v) == IF v.size <= v.capacity /\ v.capacity = Len(v.data)
            THEN SubSeq(v.data, 1, v.size) ELSE <<Junk>>

TwoSequences == INSTANCE DoubleSequence WITH one <- Items(vec), other <- Items(dest)

\* A vector is a sequence: no operation shows what an earlier one left behind the end,
\* what is shifted is shifted whole, and there is memory for every item, although the
\* size is set before there is room (dbl_vector.c:38, 51, 78, 89).
IsSequence == TwoSequences!Spec
=============================================================================
