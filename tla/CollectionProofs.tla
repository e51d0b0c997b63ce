-------------------------- MODULE CollectionProofs --------------------------
(***************************************************************************)
(* Why the vector and the hash table hold what was put in them and the     *)
(* scheduler's job queue is a queue, for any capacity, keys, buckets,      *)
(* threads, jobs and times.                                                *)
(***************************************************************************)
EXTENDS DoubleVector, HashSearch, RoundRobin, FiniteSetTheorems, DataLemmas

-----------------------------------------------------------------------------
(* DoubleVector: what a vector holds below its size is the sequence, and    *)
(* whatever the memory behind it holds never shows.                        *)

Cells == Doubles \cup {Junk}

VecOK(v) ==
    /\ v \in [size : Nat, capacity : Nat, data : Seq(Cells)]
    /\ Len(v.data) = v.capacity /\ v.size <= v.capacity

VectorsInv == VecOK(vec) /\ VecOK(dest) /\ (vectors = "off" => vec.size = 0 /\ dest.size = 0)

\* The items are the cells up to the size.
LEMMA ItemsAre ==
    ASSUME NEW v, VecOK(v)
    PROVE  /\ Items(v) \in Seq(Cells) /\ Len(Items(v)) = v.size
           /\ \A i \in 1 .. v.size : Items(v)[i] = v.data[i]
<1>1. /\ v.size \in Nat /\ v.size <= v.capacity /\ v.capacity = Len(v.data)
      /\ v.data \in Seq(Cells)
  BY DEF VecOK
<1>2. Items(v) = SubSeq(v.data, 1, v.size)
  BY <1>1 DEF Items
<1>3. \A i \in 1 .. v.size : v.data[i] \in Cells
  BY <1>1, ElementOfSeq
<1> QED BY <1>1, <1>2, <1>3, SubSeqProperties

\* The item at place i of a sequence that x was put into at a place.
PutIn(s, place, x, i) == IF i < place THEN s[i] ELSE IF i = place THEN x ELSE s[i - 1]

LEMMA InsertedAt ==
    ASSUME NEW S, NEW s \in Seq(S), NEW place \in 1 .. Len(s) + 1, NEW x \in S
    PROVE  /\ InsertAt(s, place, x) \in Seq(S) /\ Len(InsertAt(s, place, x)) = Len(s) + 1
           /\ \A i \in 1 .. Len(s) + 1 : InsertAt(s, place, x)[i] =
                  PutIn(s, place, x, i)
<1> DEFINE front == SubSeq(s, 1, place - 1)
           mid   == <<x>>
           back  == SubSeq(s, place, Len(s))
           n     == Len(s)
<1>1. n \in Nat /\ \A i \in 1 .. n : s[i] \in S
  BY ElementOfSeq
<1>2. /\ front \in Seq(S) /\ Len(front) = place - 1
      /\ \A i \in 1 .. place - 1 : front[i] = s[i]
  BY <1>1, SubSeqProperties
<1>3. /\ back \in Seq(S) /\ Len(back) = n - place + 1
      /\ \A i \in 1 .. n - place + 1 : back[i] = s[place + i - 1]
  BY <1>1, SubSeqProperties
<1>4. mid \in Seq(S) /\ Len(mid) = 1 /\ mid[1] = x
  OBVIOUS
<1> HIDE DEF front, mid, back
<1>5. /\ front \o mid \in Seq(S) /\ Len(front \o mid) = place
      /\ \A i \in 1 .. place : (front \o mid)[i] = IF i < place THEN s[i] ELSE x
  <2>1. /\ front \o mid \in Seq(S) /\ Len(front \o mid) = Len(front) + Len(mid)
        /\ \A i \in 1 .. Len(front) + Len(mid) :
              (front \o mid)[i] = IF i <= Len(front) THEN front[i] ELSE mid[i - Len(front)]
    BY <1>2, <1>4, ConcatProperties
  <2>2. Len(front) + Len(mid) = place
    BY <1>2, <1>4
  <2>3. ASSUME NEW i \in 1 .. place PROVE (front \o mid)[i] = IF i < place THEN s[i] ELSE x
    <3>1. CASE i < place
      BY <1>2, <2>1, <2>2, <3>1
    <3>2. CASE i = place
      <4>1. i - Len(front) = 1 /\ ~(i <= Len(front)) /\ i \in 1 .. Len(front) + Len(mid)
        BY <1>2, <1>4, <3>2
      <4>2. (front \o mid)[i] = mid[i - Len(front)]
        BY <2>1, <4>1
      <4>3. (front \o mid)[i] = x
        BY <1>4, <4>1, <4>2, Zenon
      <4> QED BY <3>2, <4>3
    <3>3. i < place \/ i = place
      BY <1>1
    <3> QED BY <3>1, <3>2, <3>3
  <2> QED BY <2>1, <2>2, <2>3
<1> DEFINE fm == front \o mid
           all == fm \o back
<1> HIDE DEF fm
<1>6. fm \in Seq(S) /\ Len(fm) = place /\ \A i \in 1 .. place : fm[i] = IF i < place THEN s[i] ELSE x
  BY <1>5 DEF fm
<1>7. /\ all \in Seq(S) /\ Len(all) = n + 1
      /\ \A i \in 1 .. n + 1 : all[i] = IF i <= place THEN fm[i] ELSE back[i - place]
  <2>1. /\ all \in Seq(S) /\ Len(all) = Len(fm) + Len(back)
        /\ \A i \in 1 .. Len(fm) + Len(back) :
              all[i] = IF i <= Len(fm) THEN fm[i] ELSE back[i - Len(fm)]
    BY <1>3, <1>6, ConcatProperties
  <2>2. Len(fm) + Len(back) = n + 1
    BY <1>1, <1>3, <1>6
  <2> QED BY <1>6, <2>1, <2>2
<1>8. all = InsertAt(s, place, x)
  BY DEF fm, front, mid, back, InsertAt
<1> HIDE DEF all
<1>9. ASSUME NEW i \in 1 .. n + 1
      PROVE  all[i] = PutIn(s, place, x, i)
  <2>1. CASE i <= place
    BY <1>6, <1>7, <2>1 DEF PutIn
  <2>2. CASE ~(i <= place)
    <3>1. i - place \in 1 .. n - place + 1 /\ place + (i - place) - 1 = i - 1
      BY <1>1, <2>2
    <3>2. back[i - place] = s[i - 1]
      BY <1>3, <3>1
    <3> QED BY <1>7, <2>2, <3>2 DEF PutIn
  <2> QED BY <2>1, <2>2
<1> QED BY <1>7, <1>8, <1>9

TakenOut(s, place, i) == IF i < place THEN s[i] ELSE s[i + 1]

LEMMA RemovedAt ==
    ASSUME NEW S, NEW s \in Seq(S), NEW place \in 1 .. Len(s)
    PROVE  /\ RemoveAt(s, place) \in Seq(S) /\ Len(RemoveAt(s, place)) = Len(s) - 1
           /\ \A i \in 1 .. Len(s) - 1 : RemoveAt(s, place)[i] =
                  TakenOut(s, place, i)
<1> DEFINE front == SubSeq(s, 1, place - 1)
           back  == SubSeq(s, place + 1, Len(s))
           n     == Len(s)
           all   == front \o back
<1>1. n \in Nat /\ \A i \in 1 .. n : s[i] \in S
  BY ElementOfSeq
<1>2. /\ front \in Seq(S) /\ Len(front) = place - 1
      /\ \A i \in 1 .. place - 1 : front[i] = s[i]
  BY <1>1, SubSeqProperties
<1>3. /\ back \in Seq(S) /\ Len(back) = n - place
      /\ \A i \in 1 .. n - place : back[i] = s[place + 1 + i - 1]
  <2>1. /\ back \in Seq(S) /\ Len(back) = IF place + 1 <= n THEN n - (place + 1) + 1 ELSE 0
        /\ \A i \in 1 .. n - (place + 1) + 1 : back[i] = s[place + 1 + i - 1]
    BY <1>1, SubSeqProperties
  <2> HIDE DEF back
  <2> QED BY <1>1, <2>1
<1>4. all = RemoveAt(s, place)
  BY DEF RemoveAt
<1> HIDE DEF front, back
<1>5. /\ all \in Seq(S) /\ Len(all) = n - 1
      /\ \A i \in 1 .. n - 1 : all[i] = IF i <= place - 1 THEN front[i] ELSE back[i - (place - 1)]
  <2>1. /\ all \in Seq(S) /\ Len(all) = Len(front) + Len(back)
        /\ \A i \in 1 .. Len(front) + Len(back) :
              all[i] = IF i <= Len(front) THEN front[i] ELSE back[i - Len(front)]
    BY <1>2, <1>3, ConcatProperties
  <2>2. Len(front) + Len(back) = n - 1
    BY <1>1, <1>2, <1>3
  <2> QED BY <1>2, <2>1, <2>2
<1> HIDE DEF all
<1>6. ASSUME NEW i \in 1 .. n - 1 PROVE all[i] = TakenOut(s, place, i)
  <2>1. CASE i < place
    BY <1>2, <1>5, <2>1 DEF TakenOut
  <2>2. CASE ~(i < place)
    <3>1. /\ i - (place - 1) \in 1 .. n - place /\ ~(i <= place - 1)
          /\ place + 1 + (i - (place - 1)) - 1 = i + 1
      BY <1>1, <2>2
    <3>2. back[i - (place - 1)] = s[i + 1]
      BY <1>3, <3>1
    <3> QED BY <1>5, <2>2, <3>1, <3>2 DEF TakenOut
  <2> QED BY <2>1, <2>2
<1> QED BY <1>4, <1>5, <1>6

\* A vector whose cells are another's with an item put in, or taken out, is that sequence.
LEMMA ItemPutIn ==
    ASSUME NEW v, VecOK(v), NEW u, VecOK(u), NEW x \in Doubles,
           NEW place \in 1 .. v.size + 1, u.size = v.size + 1,
           \A i \in 1 .. u.size :
               u.data[i] = PutIn(v.data, place, x, i)
    PROVE  Items(u) = InsertAt(Items(v), place, x)
<1> DEFINE s == Items(v)
           t == Items(u)
           r == InsertAt(s, place, x)
<1>1. /\ s \in Seq(Cells) /\ Len(s) = v.size /\ \A i \in 1 .. v.size : s[i] = v.data[i]
      /\ t \in Seq(Cells) /\ Len(t) = u.size /\ \A i \in 1 .. u.size : t[i] = u.data[i]
  BY ItemsAre
<1>2. x \in Cells /\ v.size \in Nat
  BY DEF Cells, VecOK
<1> HIDE DEF s, t
<1>3. /\ r \in Seq(Cells) /\ Len(r) = v.size + 1
      /\ \A i \in 1 .. v.size + 1 :
             r[i] = PutIn(s, place, x, i)
  <2>1. place \in 1 .. Len(s) + 1
    BY <1>1
  <2>2. /\ r \in Seq(Cells) /\ Len(r) = Len(s) + 1
        /\ \A i \in 1 .. Len(s) + 1 :
               r[i] = PutIn(s, place, x, i)
    BY <1>1, <1>2, <2>1, InsertedAt
  <2> HIDE DEF r
  <2> QED BY <1>1, <2>2
<1> HIDE DEF r
<1>4. \A i \in 1 .. v.size + 1 : r[i] = t[i]
  BY <1>1, <1>2, <1>3 DEF PutIn
<1>5. r = t
  BY <1>1, <1>2, <1>3, <1>4, SeqEqual
<1> QED BY <1>5 DEF r, s, t

LEMMA ItemTakenOut ==
    ASSUME NEW v, VecOK(v), NEW u, VecOK(u),
           NEW place \in 1 .. v.size, u.size = v.size - 1,
           \A i \in 1 .. u.size : u.data[i] = TakenOut(v.data, place, i)
    PROVE  Items(u) = RemoveAt(Items(v), place)
<1> DEFINE s == Items(v)
           t == Items(u)
           r == RemoveAt(s, place)
<1>1. /\ s \in Seq(Cells) /\ Len(s) = v.size /\ \A i \in 1 .. v.size : s[i] = v.data[i]
      /\ t \in Seq(Cells) /\ Len(t) = u.size /\ \A i \in 1 .. u.size : t[i] = u.data[i]
  BY ItemsAre
<1>2. v.size \in Nat
  BY DEF VecOK
<1> HIDE DEF s, t
<1>3. /\ r \in Seq(Cells) /\ Len(r) = v.size - 1
      /\ \A i \in 1 .. v.size - 1 : r[i] = TakenOut(s, place, i)
  <2>1. place \in 1 .. Len(s)
    BY <1>1
  <2>2. /\ r \in Seq(Cells) /\ Len(r) = Len(s) - 1
        /\ \A i \in 1 .. Len(s) - 1 : r[i] = TakenOut(s, place, i)
    BY <1>1, <2>1, RemovedAt
  <2> HIDE DEF r
  <2> QED BY <1>1, <2>2
<1> HIDE DEF r
<1>4. ASSUME NEW i \in 1 .. v.size - 1 PROVE r[i] = t[i]
  <2>1. i \in 1 .. v.size /\ i + 1 \in 1 .. v.size /\ i \in 1 .. u.size
    BY <1>2
  <2>2. t[i] = u.data[i] /\ s[i] = v.data[i] /\ s[i + 1] = v.data[i + 1]
    BY <1>1, <2>1
  <2>3. r[i] = TakenOut(s, place, i)
    BY <1>3
  <2> QED BY <2>1, <2>2, <2>3 DEF TakenOut
<1>5. r = t
  BY <1>1, <1>2, <1>3, <1>4, SeqEqual
<1> QED BY <1>5 DEF r, s, t

\* Vectors with the same cells up to the same size hold the same.
LEMMA SameItems ==
    ASSUME NEW v, VecOK(v), NEW u, VecOK(u), u.size = v.size,
           \A i \in 1 .. v.size : u.data[i] = v.data[i]
    PROVE  Items(u) = Items(v)
<1> DEFINE s == Items(v)
           t == Items(u)
<1>1. /\ s \in Seq(Cells) /\ Len(s) = v.size /\ \A i \in 1 .. v.size : s[i] = v.data[i]
      /\ t \in Seq(Cells) /\ Len(t) = u.size /\ \A i \in 1 .. u.size : t[i] = u.data[i]
  BY ItemsAre
<1> HIDE DEF s, t
<1>2. \A i \in 1 .. v.size : s[i] = t[i]
  BY <1>1
<1>3. s = t
  BY <1>1, <1>2, SeqEqual
<1> QED BY <1>3 DEF s, t

LEMMA NoItems ==
    ASSUME NEW v, VecOK(v), v.size = 0
    PROVE  Items(v) = <<>>
BY ItemsAre, EmptySeq

\* dv_ensure_capacity makes the room and leaves the cells that were there.
LEMMA EnsuredOK ==
    ASSUME NEW v, VecOK(v), NEW n \in Nat
    PROVE  /\ VecOK(Ensured(v, n)) /\ Ensured(v, n).size = v.size
           /\ n <= Ensured(v, n).capacity /\ v.capacity <= Ensured(v, n).capacity
           /\ \A i \in 1 .. v.capacity : Ensured(v, n).data[i] = v.data[i]
<1> DEFINE cap == v.capacity
           new == Grown(cap, n)
           more == Memory(new - cap)
           data == v.data \o more
<1>1. /\ cap \in Nat /\ v.size \in Nat /\ v.size <= cap /\ v.data \in Seq(Cells) /\ Len(v.data) = cap
      /\ v \in [size : Nat, capacity : Nat, data : Seq(Cells)]
  BY DEF VecOK
<1>2. CASE n <= cap
  BY <1>1, <1>2 DEF Ensured
<1>3. CASE ~(n <= cap)
  <2>1. new \in Nat /\ n <= new
    <3> DEFINE grown == (cap * GrowthNumber) \div GrowthOver
    <3>1. cap * GrowthNumber \in Nat
      BY <1>1, DoubleVectorAssumption
    <3>2. grown \in Nat
      BY <3>1, DoubleVectorAssumption
    <3>3. new = IF grown < n THEN n ELSE grown
      BY DEF Grown
    <3> HIDE DEF grown, new
    <3> QED BY <3>2, <3>3
  <2>2. new - cap \in Nat
    BY <1>1, <1>3, <2>1
  <2> HIDE DEF new
  <2>3. more \in Seq(Cells) /\ Len(more) = new - cap
    <3>1. more \in [1 .. new - cap -> Cells]
      BY DEF Memory, Cells
    <3> QED BY <2>2, <3>1, Written
  <2> HIDE DEF more
  <2>4. /\ data \in Seq(Cells) /\ Len(data) = new
        /\ \A i \in 1 .. cap : data[i] = v.data[i]
    <3>1. /\ data \in Seq(Cells) /\ Len(data) = Len(v.data) + Len(more)
          /\ \A i \in 1 .. Len(v.data) + Len(more) :
                data[i] = IF i <= Len(v.data) THEN v.data[i] ELSE more[i - Len(v.data)]
      BY <1>1, <2>3, ConcatProperties
    <3> HIDE DEF data
    <3> QED BY <1>1, <2>1, <2>2, <2>3, <3>1
  <2>5. Ensured(v, n) = [v EXCEPT !.capacity = new, !.data = data]
    BY <1>3 DEF Ensured, new, more, data
  <2> HIDE DEF data
  <2> DEFINE u == Ensured(v, n)
  <2>6. u.capacity = new /\ u.data = data /\ u.size = v.size
        /\ u \in [size : Nat, capacity : Nat, data : Seq(Cells)]
    BY <1>1, <2>1, <2>4, <2>5
  <2> HIDE DEF u
  <2>7. cap <= new /\ v.size <= new
    BY <1>1, <1>3, <2>1
  <2>8. VecOK(u)
    BY <2>4, <2>6, <2>7 DEF VecOK
  <2> QED BY <2>1, <2>4, <2>6, <2>7, <2>8 DEF u
<1> QED BY <1>2, <1>3

VecType == [size : Nat, capacity : Nat, data : Seq(Cells)]

\* A vector with other cells and another size.
WithCells(w, k, f) == [w EXCEPT !.size = k, !.data = f]

LEMMA Refilled ==
    ASSUME NEW w, VecOK(w), NEW k \in Nat, k <= w.capacity, NEW f \in [1 .. w.capacity -> Cells]
    PROVE  /\ VecOK(WithCells(w, k, f)) /\ WithCells(w, k, f).size = k
           /\ WithCells(w, k, f).capacity = w.capacity /\ WithCells(w, k, f).data = f
<1> DEFINE u == WithCells(w, k, f)
<1>1. w \in [size : Nat, capacity : Nat, data : Seq(Cells)]
  BY DEF VecOK
<1>2. f \in Seq(Cells) /\ Len(f) = w.capacity
  BY <1>1, Written
<1>3. /\ u \in [size : Nat, capacity : Nat, data : Seq(Cells)]
      /\ u.size = k /\ u.capacity = w.capacity /\ u.data = f
  BY <1>1, <1>2 DEF WithCells
<1> HIDE DEF u
<1>4. VecOK(u)
  BY <1>2, <1>3 DEF VecOK
<1> QED BY <1>3, <1>4 DEF u

LEMMA CellsOf ==
    ASSUME NEW v, VecOK(v)
    PROVE  /\ v.data \in [1 .. v.capacity -> Cells] /\ DOMAIN v.data = 1 .. v.capacity
           /\ v.size \in Nat /\ v.capacity \in Nat /\ v.size <= v.capacity
           /\ v \in VecType
<1>1. /\ v.size \in Nat /\ v.capacity \in Nat /\ v.size <= v.capacity
      /\ v.data \in Seq(Cells) /\ Len(v.data) = v.capacity
  BY DEF VecOK
<1>2. v.data \in [1 .. Len(v.data) -> Cells]
  BY <1>1, LenProperties
<1> QED BY <1>1, <1>2 DEF VecOK, VecType

\* The vector w, which has the room, after dv_insert_at.
ItemInserted(w, loc, n, x) ==
    WithItem([w EXCEPT !.data = ShiftedRight(@, loc + 1, n), !.size = @ + 1], loc + 1, x)

\* dv_insert_at puts the item in, at the end when the position is behind it.
LEMMA Inserts ==
    ASSUME NEW v, VecOK(v), NEW x \in Doubles, NEW loc \in 0 .. v.size,
           NEW w, VecOK(w), w.size = v.size, v.size + 1 <= w.capacity,
           \A i \in 1 .. v.capacity : w.data[i] = v.data[i]
    PROVE  /\ VecOK(ItemInserted(w, loc, v.size, x))
           /\ Items(ItemInserted(w, loc, v.size, x)) = InsertAt(Items(v), loc + 1, x)
<1> DEFINE u == ItemInserted(w, loc, v.size, x)
           n == v.size
           cap == w.capacity
           shifted == ShiftedRight(w.data, loc + 1, n)
           filled == [shifted EXCEPT ![loc + 1] = x]
<1>1. /\ n \in Nat /\ cap \in Nat /\ n + 1 <= cap /\ n <= v.capacity /\ v.capacity \in Nat
      /\ w.data \in [1 .. cap -> Cells] /\ DOMAIN w.data = 1 .. cap /\ w \in VecType
  BY CellsOf
<1>2. /\ shifted \in [1 .. cap -> Cells]
      /\ \A i \in 1 .. cap : shifted[i] = IF i \in loc + 2 .. n + 1 THEN w.data[i - 1] ELSE w.data[i]
  <2>1. shifted = [i \in 1 .. cap |-> IF i \in loc + 2 .. n + 1 THEN w.data[i - 1] ELSE w.data[i]]
    BY <1>1 DEF ShiftedRight
  <2>2. ASSUME NEW i \in 1 .. cap
        PROVE  (IF i \in loc + 2 .. n + 1 THEN w.data[i - 1] ELSE w.data[i]) \in Cells
    <3>1. i \in loc + 2 .. n + 1 => i - 1 \in 1 .. cap
      BY <1>1
    <3> QED BY <1>1, <3>1
  <2> HIDE DEF shifted
  <2> QED BY <2>1, <2>2
<1>3. u = WithCells(w, n + 1, filled)
  <2> DEFINE m == [w EXCEPT !.data = ShiftedRight(@, loc + 1, n), !.size = @ + 1]
  <2>1. m = [w EXCEPT !.size = n + 1, !.data = shifted]
    BY <1>1 DEF VecType
  <2>2. m.data = shifted /\ loc + 1 \in DOMAIN shifted
    BY <1>1, <1>2, <2>1 DEF VecType
  <2>3. u = [m EXCEPT !.data[loc + 1] = x]
    BY <2>2 DEF WithItem, ItemInserted
  <2> HIDE DEF m, shifted, u
  <2> QED BY <1>1, <2>1, <2>2, <2>3 DEF VecType, WithCells
<1> HIDE DEF shifted, u
<1>4. x \in Cells
  BY DEF Cells
<1>5. /\ filled \in [1 .. cap -> Cells]
      /\ \A i \in 1 .. cap : filled[i] = IF i = loc + 1 THEN x ELSE shifted[i]
  BY <1>1, <1>2, <1>4
<1> HIDE DEF filled
<1>6. VecOK(u) /\ u.size = n + 1 /\ u.data = filled
  BY <1>1, <1>3, <1>5, Refilled
<1>7. ASSUME NEW i \in 1 .. u.size PROVE u.data[i] = PutIn(v.data, loc + 1, x, i)
  <2>1. i \in 1 .. cap /\ i \in 1 .. n + 1
    BY <1>1, <1>6
  <2>2. CASE i < loc + 1
    <3>1. i \in 1 .. v.capacity /\ i # loc + 1 /\ i \notin loc + 2 .. n + 1
      BY <1>1, <2>1, <2>2
    <3>2. u.data[i] = v.data[i]
      BY <1>2, <1>5, <1>6, <2>1, <3>1
    <3> QED BY <2>2, <3>2 DEF PutIn
  <2>3. CASE i = loc + 1
    <3>1. u.data[i] = x
      BY <1>5, <1>6, <2>1, <2>3
    <3> QED BY <2>3, <3>1 DEF PutIn
  <2>4. CASE loc + 1 < i
    <3>1. i \in loc + 2 .. n + 1 /\ i - 1 \in 1 .. v.capacity
      BY <1>1, <2>1, <2>4
    <3>2. i # loc + 1
      BY <2>4
    <3>3. u.data[i] = w.data[i - 1]
      BY <1>2, <1>5, <1>6, <2>1, <3>1, <3>2
    <3> QED BY <2>4, <3>1, <3>3 DEF PutIn
  <2> QED BY <1>1, <2>1, <2>2, <2>3, <2>4
<1> QED BY <1>1, <1>6, <1>7, ItemPutIn DEF u

Pushed(w, n, x) == WithItem([w EXCEPT !.size = n + 1], n + 1, x)

\* dv_push puts the item in at the end: nothing is shifted.
LEMMA Pushes ==
    ASSUME NEW v, VecOK(v), NEW x \in Doubles,
           NEW w, VecOK(w), w.size = v.size, v.size + 1 <= w.capacity,
           \A i \in 1 .. v.capacity : w.data[i] = v.data[i]
    PROVE  /\ VecOK(Pushed(w, v.size, x))
           /\ Items(Pushed(w, v.size, x)) = InsertAt(Items(v), v.size + 1, x)
<1> DEFINE u == Pushed(w, v.size, x)
           n == v.size
           shifted == ShiftedRight(w.data, n + 1, n)
           m == [w EXCEPT !.data = ShiftedRight(@, n + 1, n), !.size = @ + 1]
<1>1. n \in 0 .. v.size /\ w \in VecType /\ w.data \in [1 .. w.capacity -> Cells]
  BY CellsOf
<1>2. shifted = w.data
  BY <1>1 DEF ShiftedRight
<1>3. m = [w EXCEPT !.data = shifted, !.size = n + 1]
  BY <1>1 DEF VecType
<1> HIDE DEF shifted
<1>4. m = [w EXCEPT !.size = n + 1]
  <2> HIDE DEF m
  <2> QED BY <1>1, <1>2, <1>3 DEF VecType
<1>5. u = WithItem(m, n + 1, x)
  BY <1>4 DEF Pushed
<1> HIDE DEF u, m
<1>6. u = ItemInserted(w, n, v.size, x)
  BY <1>5 DEF ItemInserted, m
<1> QED BY <1>1, <1>6, Inserts DEF u

\* dv_remove_at takes the item out.
LEMMA Removes ==
    ASSUME NEW v, VecOK(v), NEW place \in 1 .. v.size,
           NEW u, u = [v EXCEPT !.data = ShiftedLeft(@, place, v.size), !.size = @ - 1]
    PROVE  VecOK(u) /\ Items(u) = RemoveAt(Items(v), place)
<1> DEFINE n == v.size
           cap == v.capacity
           shifted == ShiftedLeft(v.data, place, n)
<1>1. /\ n \in Nat /\ cap \in Nat /\ n <= cap /\ n - 1 \in Nat /\ n - 1 <= cap
      /\ v.data \in [1 .. cap -> Cells] /\ DOMAIN v.data = 1 .. cap /\ v \in VecType
  BY CellsOf
<1>2. /\ shifted \in [1 .. cap -> Cells]
      /\ \A i \in 1 .. cap : shifted[i] = IF i \in place .. n - 1 THEN v.data[i + 1] ELSE v.data[i]
  <2>1. shifted = [i \in 1 .. cap |-> IF i \in place .. n - 1 THEN v.data[i + 1] ELSE v.data[i]]
    BY <1>1 DEF ShiftedLeft
  <2>2. ASSUME NEW i \in 1 .. cap
        PROVE  (IF i \in place .. n - 1 THEN v.data[i + 1] ELSE v.data[i]) \in Cells
    BY <1>1
  <2> HIDE DEF shifted
  <2> QED BY <2>1, <2>2
<1>3. u = WithCells(v, n - 1, shifted)
  <2>1. u = [v EXCEPT !.data = shifted, !.size = n - 1]
    BY <1>1 DEF VecType
  <2> HIDE DEF shifted
  <2> QED BY <1>1, <2>1 DEF VecType, WithCells
<1> DEFINE c == WithCells(v, n - 1, shifted)
<1> HIDE DEF shifted
<1>4. VecOK(c) /\ c.size = n - 1 /\ c.data = shifted
  <2> DEFINE k == n - 1
  <2>1. k \in Nat /\ k <= v.capacity
    BY <1>1
  <2> HIDE DEF k
  <2>2. VecOK(WithCells(v, k, shifted)) /\ WithCells(v, k, shifted).size = k /\ WithCells(v, k, shifted).data = shifted
    BY <1>2, <2>1, Refilled
  <2> QED BY <2>2 DEF k
<1> HIDE DEF c
<1>5. VecOK(u) /\ u.size = n - 1 /\ u.data = shifted
  BY <1>3, <1>4 DEF c
<1>6. ASSUME NEW i \in 1 .. u.size
      PROVE  u.data[i] = TakenOut(v.data, place, i)
  <2>1. i \in 1 .. cap /\ i \in 1 .. n - 1
    BY <1>1, <1>5
  <2> QED BY <1>1, <1>2, <1>5, <2>1 DEF TakenOut
<1> QED BY <1>1, <1>5, <1>6, ItemTakenOut

\* dv_pop takes the last item out, and no cell changes.
LEMMA Pops ==
    ASSUME NEW v, VecOK(v), v.size > 0, NEW u, u = [v EXCEPT !.size = @ - 1]
    PROVE  VecOK(u) /\ Items(u) = RemoveAt(Items(v), v.size)
<1> DEFINE n == v.size
<1>1. /\ n \in 1 .. n /\ n - 1 \in Nat /\ n - 1 <= v.capacity
      /\ v.data \in [1 .. v.capacity -> Cells] /\ v \in VecType
  BY CellsOf
<1>2. u = WithCells(v, n - 1, v.data)
  BY <1>1 DEF VecType, WithCells
<1>3. VecOK(u) /\ u.size = n - 1 /\ u.data = v.data
  <2> DEFINE k == n - 1
  <2>1. k \in Nat /\ k <= v.capacity
    BY <1>1
  <2> HIDE DEF k
  <2>2. VecOK(WithCells(v, k, v.data)) /\ WithCells(v, k, v.data).size = k /\ WithCells(v, k, v.data).data = v.data
    BY <1>1, <2>1, Refilled
  <2> QED BY <1>2, <2>2 DEF k
<1>4. \A i \in 1 .. u.size : u.data[i] = TakenOut(v.data, n, i)
  BY <1>1, <1>3 DEF TakenOut
<1> QED BY <1>1, <1>3, <1>4, ItemTakenOut

LEMMA Clears ==
    ASSUME NEW v, VecOK(v), NEW u, u = [v EXCEPT !.size = 0]
    PROVE  VecOK(u) /\ Items(u) = <<>>
<1>1. v.data \in [1 .. v.capacity -> Cells] /\ v \in VecType /\ 0 <= v.capacity
  BY CellsOf
<1>2. u = WithCells(v, 0, v.data)
  BY <1>1 DEF VecType, WithCells
<1>3. VecOK(u) /\ u.size = 0
  BY <1>1, <1>2, Refilled
<1> QED BY <1>3, NoItems

\* The vector w, which has the room, after v is copied to it.
Copied(v, w) == [w EXCEPT !.size = v.size,
                    !.data = [i \in DOMAIN @ |-> IF i <= v.size THEN v.data[i] ELSE @[i]]]

\* dv_copy: whatever the destination held, it holds what the source holds.
LEMMA Copies ==
    ASSUME NEW v, VecOK(v), NEW w, VecOK(w), v.size <= w.capacity
    PROVE  VecOK(Copied(v, w)) /\ Items(Copied(v, w)) = Items(v)
<1> DEFINE u == Copied(v, w)
           n == v.size
           filled == [i \in 1 .. w.capacity |-> IF i <= n THEN v.data[i] ELSE w.data[i]]
<1>1. /\ w.data \in [1 .. w.capacity -> Cells] /\ DOMAIN w.data = 1 .. w.capacity /\ w \in VecType
      /\ w.capacity \in Nat
      /\ n \in Nat /\ v.capacity \in Nat /\ n <= v.capacity /\ v.data \in [1 .. v.capacity -> Cells]
  BY CellsOf
<1>2. filled \in [1 .. w.capacity -> Cells]
  BY <1>1
<1>3. u = WithCells(w, n, filled)
  BY <1>1 DEF WithCells, VecType, Copied
<1>4. \A i \in 1 .. n : filled[i] = v.data[i]
  BY <1>1
<1> HIDE DEF filled, u
<1> DEFINE c == WithCells(w, n, filled)
<1>5. VecOK(c) /\ c.size = n /\ c.data = filled
  BY <1>1, <1>2, Refilled
<1> HIDE DEF c
<1>6. VecOK(u) /\ u.size = n /\ u.data = filled
  BY <1>3, <1>5 DEF c
<1> QED BY <1>1, <1>4, <1>6, SameItems DEF u

LEMMA FreshOK == VecOK(Fresh) /\ Items(Fresh) = <<>>
<1>1. Memory(InitialCapacity) \in [1 .. InitialCapacity -> Cells]
  BY DEF Memory, Cells
<1>2. InitialCapacity \in Nat
  BY DoubleVectorAssumption
<1>3. /\ Memory(InitialCapacity) \in Seq(Cells)
      /\ Len(Memory(InitialCapacity)) = InitialCapacity
  BY <1>1, <1>2, Written
<1>4. VecOK(Fresh) /\ Fresh.size = 0
  BY <1>2, <1>3 DEF VecOK, Fresh
<1> QED BY <1>4, NoItems

LEMMA DestroyedOK == VecOK(Destroyed) /\ Items(Destroyed) = <<>>
<1>1. VecOK(Destroyed) /\ Destroyed.size = 0
  BY DEF VecOK, Destroyed
<1> QED BY <1>1, NoItems


-----------------------------------------------------------------------------
(* The steps of the vectors are steps of the sequences.                    *)

ItemVars == <<Items(vec), Items(dest)>>

\* Every operation leaves vectors that are in order, and holds what the sequence would.
LEMMA VectorStep ==
    ASSUME VectorsInv, VectorsNext
    PROVE  VectorsInv' /\ [TwoSequences!Next]_ItemVars
<1> DEFINE n == vec.size
<1> USE DEF VectorsInv
<1>0. /\ n \in Nat /\ dest.size \in Nat /\ VecOK(vec) /\ VecOK(dest)
      /\ Len(Items(vec)) = n /\ DOMAIN Items(vec) = 1 .. n
  <2>1. n \in Nat /\ dest.size \in Nat /\ Items(vec) \in Seq(Cells) /\ Len(Items(vec)) = n
    BY ItemsAre, CellsOf
  <2> QED BY <2>1
<1>1. CASE Initialise
  <2>1. VecOK(vec') /\ VecOK(dest') /\ Items(vec') = <<>> /\ Items(dest') = <<>> /\ vectors' = "live"
    BY <1>1, FreshOK DEF Initialise
  <2>2. Items(vec) = <<>> /\ Items(dest) = <<>>
    BY <1>0, <1>1, NoItems DEF Initialise
  <2> QED BY <2>1, <2>2 DEF ItemVars, Items
<1>2. ASSUME NEW x \in Doubles, dv_push(x)
      PROVE  VectorsInv' /\ [TwoSequences!Next]_ItemVars
  <2> DEFINE w == Ensured(vec, n + 1)
  <2>1. vec' = Pushed(w, n, x) /\ dest' = dest /\ vectors' = "live"
    BY <1>2 DEF dv_push, Pushed, Works
  <2>2. n + 1 \in Nat
    BY <1>0
  <2>3. /\ VecOK(w) /\ w.size = n /\ n + 1 <= w.capacity
        /\ \A i \in 1 .. vec.capacity : w.data[i] = vec.data[i]
    BY <1>0, <2>2, EnsuredOK
  <2> HIDE DEF w
  <2>4. VecOK(vec') /\ Items(vec') = InsertAt(Items(vec), n + 1, x)
    BY <1>0, <2>1, <2>3, Pushes
  <2>5. Items(vec)' = Items(vec') /\ Items(dest)' = Items(dest)
    BY <2>1 DEF Items
  <2>6. TwoSequences!InsertItem(n + 1, x)
    BY <2>4, <2>5 DEF TwoSequences!InsertItem, TwoSequences!InsertAt, InsertAt
  <2>7. n + 1 \in 1 .. Len(Items(vec)) + 1
    BY <1>0
  <2> QED BY <1>0, <2>1, <2>4, <2>6, <2>7 DEF TwoSequences!Next
<1>3. ASSUME NEW x \in Doubles, NEW pos \in 0 .. MaxSize, dv_insert_at(pos, x)
      PROVE  VectorsInv' /\ [TwoSequences!Next]_ItemVars
  <2> DEFINE w == Ensured(vec, n + 1)
             loc == IF pos > n THEN n ELSE pos
  <2>1. /\ vec' = ItemInserted(w, loc, n, x) /\ dest' = dest /\ vectors' = "live"
    BY <1>3 DEF dv_insert_at, ItemInserted, Works
  <2>2. n + 1 \in Nat /\ loc \in 0 .. n
    BY <1>0, DoubleVectorAssumption
  <2>3. /\ VecOK(w) /\ w.size = n /\ n + 1 <= w.capacity
        /\ \A i \in 1 .. vec.capacity : w.data[i] = vec.data[i]
    BY <1>0, <2>2, EnsuredOK
  <2> HIDE DEF w, loc
  <2>4. VecOK(vec') /\ Items(vec') = InsertAt(Items(vec), loc + 1, x)
    BY <1>0, <2>1, <2>2, <2>3, Inserts
  <2>5. Items(vec)' = Items(vec') /\ Items(dest)' = Items(dest)
    BY <2>1 DEF Items
  <2>6. TwoSequences!InsertItem(loc + 1, x)
    BY <2>4, <2>5 DEF TwoSequences!InsertItem, TwoSequences!InsertAt, InsertAt
  <2>7. loc + 1 \in 1 .. Len(Items(vec)) + 1
    BY <1>0, <2>2
  <2> QED BY <1>0, <2>1, <2>4, <2>6, <2>7 DEF TwoSequences!Next
<1>4. ASSUME NEW pos \in 0 .. MaxSize, dv_remove_at(pos)
      PROVE  VectorsInv' /\ [TwoSequences!Next]_ItemVars
  <2>1. pos \in Nat /\ dest' = dest /\ vectors' = "live"
    BY <1>4, DoubleVectorAssumption DEF dv_remove_at, Works
  <2>2. CASE pos >= n
    <3>1. vec' = vec
      BY <1>4, <2>2 DEF dv_remove_at
    <3> QED BY <1>0, <2>1, <3>1 DEF ItemVars, Items
  <2>3. CASE ~(pos >= n)
    <3>1. vec' = [vec EXCEPT !.data = ShiftedLeft(@, pos + 1, n), !.size = @ - 1]
      BY <1>4, <2>3 DEF dv_remove_at
    <3>2. pos + 1 \in 1 .. n
      BY <1>0, <2>1, <2>3
    <3>3. VecOK(vec') /\ Items(vec') = RemoveAt(Items(vec), pos + 1)
      BY <1>0, <3>1, <3>2, Removes
    <3>4. Items(vec)' = Items(vec') /\ Items(dest)' = Items(dest)
      BY <2>1 DEF Items
    <3>5. TwoSequences!RemoveItem(pos + 1)
      BY <3>3, <3>4 DEF TwoSequences!RemoveItem, TwoSequences!RemoveAt, RemoveAt
    <3> QED BY <1>0, <2>1, <3>2, <3>3, <3>5 DEF TwoSequences!Next
  <2> QED BY <2>2, <2>3
<1>5. CASE dv_pop
  <2>1. dest' = dest /\ vectors' = "live"
    BY <1>5 DEF dv_pop, Works
  <2>2. CASE n = 0
    <3>1. vec' = vec
      BY <1>5, <2>2 DEF dv_pop
    <3> QED BY <1>0, <2>1, <3>1 DEF ItemVars, Items
  <2>3. CASE n # 0
    <3>1. n > 0
      BY <1>0, <2>3
    <3>2. vec' = [vec EXCEPT !.size = @ - 1]
      BY <1>5, <3>1 DEF dv_pop
    <3>3. VecOK(vec') /\ Items(vec') = RemoveAt(Items(vec), n)
      BY <1>0, <3>1, <3>2, Pops
    <3>4. Items(vec)' = Items(vec') /\ Items(dest)' = Items(dest)
      BY <2>1 DEF Items
    <3>5. TwoSequences!RemoveItem(n) /\ n \in 1 .. n
      BY <1>0, <3>1, <3>3, <3>4 DEF TwoSequences!RemoveItem, TwoSequences!RemoveAt, RemoveAt
    <3> QED BY <1>0, <2>1, <3>3, <3>5 DEF TwoSequences!Next
  <2> QED BY <2>2, <2>3
<1>6. CASE dv_clear
  <2>1. dest' = dest /\ vectors' = "live" /\ vec' = [vec EXCEPT !.size = 0]
    BY <1>6 DEF dv_clear, Works
  <2>2. VecOK(vec') /\ Items(vec') = <<>>
    BY <1>0, <2>1, Clears
  <2>3. Items(vec)' = Items(vec') /\ Items(dest)' = Items(dest)
    BY <2>1 DEF Items
  <2>4. TwoSequences!RemoveAll
    BY <2>2, <2>3 DEF TwoSequences!RemoveAll
  <2> QED BY <1>0, <2>1, <2>2, <2>4 DEF TwoSequences!Next
<1>7. CASE dv_copy
  <2> DEFINE w == Ensured(dest, n)
  <2>1. /\ vec' = vec /\ vectors' = "live"
        /\ dest' = Copied(vec, w)
    BY <1>7 DEF dv_copy, Works, Copied
  <2>2. VecOK(w) /\ n <= w.capacity
    BY <1>0, EnsuredOK
  <2> HIDE DEF w
  <2>3. VecOK(dest') /\ Items(dest') = Items(vec)
    BY <1>0, <2>1, <2>2, Copies
  <2>4. Items(vec)' = Items(vec) /\ Items(dest)' = Items(dest')
    BY <2>1 DEF Items
  <2>5. TwoSequences!CopyItems
    BY <2>3, <2>4 DEF TwoSequences!CopyItems
  <2> QED BY <1>0, <2>1, <2>3, <2>5 DEF TwoSequences!Next
<1>8. ASSUME NEW pos \in 0 .. MaxSize, dv_ensure_capacity(pos)
      PROVE  VectorsInv' /\ [TwoSequences!Next]_ItemVars
  <2>1. vec' = Ensured(vec, pos) /\ dest' = dest /\ vectors' = "live" /\ pos \in Nat
    BY <1>8, DoubleVectorAssumption DEF dv_ensure_capacity, Works
  <2>2. VecOK(vec') /\ vec'.size = n /\ \A i \in 1 .. vec.capacity : vec'.data[i] = vec.data[i]
    BY <1>0, <2>1, EnsuredOK
  <2>3. n <= vec.capacity /\ vec.capacity \in Nat
    BY <1>0, CellsOf
  <2>4. \A i \in 1 .. n : vec'.data[i] = vec.data[i]
    BY <1>0, <2>2, <2>3
  <2>5. Items(vec') = Items(vec)
    BY <1>0, <2>2, <2>4, SameItems
  <2>6. ItemVars' = ItemVars
    BY <2>1, <2>5 DEF ItemVars, Items
  <2> QED BY <1>0, <2>1, <2>2, <2>6
<1>9. CASE dv_destroy
  <2>1. VecOK(vec') /\ Items(vec') = <<>> /\ dest' = dest /\ vectors' = "over"
    BY <1>9, DestroyedOK DEF dv_destroy
  <2>2. Items(vec)' = Items(vec') /\ Items(dest)' = Items(dest)
    BY <2>1 DEF Items
  <2>3. TwoSequences!RemoveAll
    BY <2>1, <2>2 DEF TwoSequences!RemoveAll
  <2> QED BY <1>0, <2>1, <2>3 DEF TwoSequences!Next
<1>10. CASE OutOfMemory
  BY <1>0, <1>10 DEF OutOfMemory, ItemVars, Items
<1> QED BY <1>1, <1>2, <1>3, <1>4, <1>5, <1>6, <1>7, <1>8, <1>9, <1>10 DEF VectorsNext

\* DoubleVector's IsSequence: with any initial capacity and any growth, even one that shrinks, the
\* two vectors of dbl_vector.c are the sequences they stand for.
THEOREM VectorsAreSequences == VectorsSpec => IsSequence
<1>1. VectorsInit => VectorsInv /\ TwoSequences!Init
  BY DestroyedOK DEF VectorsInit, VectorsInv, TwoSequences!Init, Destroyed
<1>2. VectorsInv /\ [VectorsNext]_vectorVars => VectorsInv'
  <2>1. VectorsInv /\ vectorVars' = vectorVars => VectorsInv'
    BY DEF VectorsInv, vectorVars, VecOK
  <2> QED BY <2>1, VectorStep
<1>3. VectorsInv /\ [VectorsNext]_vectorVars => [TwoSequences!Next]_<<Items(vec), Items(dest)>>
  <2>1. vectorVars' = vectorVars => ItemVars' = ItemVars
    BY DEF vectorVars, ItemVars, Items
  <2> QED BY <2>1, VectorStep DEF ItemVars
<1> QED BY <1>1, <1>2, <1>3, PTL DEF VectorsSpec, IsSequence, TwoSequences!Spec

-----------------------------------------------------------------------------
(* HashSearch: the chains hold what was added and not deleted, the shares  *)
(* of the threads are the buckets, each once, and what a thread has gone   *)
(* past is on the screen.                                                  *)

Entry == [key : Keys, value : HashValues]

\* The chain of bucket b: keys that belong there, each once.
ChainOK(c, b) ==
    /\ c \in Seq(Entry)
    /\ \A p \in 1 .. Len(c) : htab_index(c[p].key) = b
    /\ \A p, q \in 1 .. Len(c) : c[p].key = c[q].key => p = q

HasEntry(c, key, value) == \E p \in 1 .. Len(c) : c[p].key = key /\ c[p].value = value

TableInv ==
    /\ buckets \in [Offsets -> Seq(Entry)]
    /\ \A b \in Offsets : ChainOK(buckets[b], b)
    /\ \A key \in Keys : \A value :
           <<key, value>> \in entered <=> HasEntry(buckets[htab_index(key)], key, value)

\* The buckets of thread i, and what it has gone past.
Share(i) == {b \in Offsets : ShareStart(i) <= b /\ b < ShareEnd(i)}
Passed(i, b, p) == b < cursors[i][1] \/ (b = cursors[i][1] /\ p < cursors[i][2])

\* Some thread has gone past an entry of this key with the value searched for.
Found(key) ==
    \E i \in Pool : \E b \in Share(i) : \E p \in 1 .. Len(buckets[b]) :
        buckets[b][p].key = key /\ buckets[b][p].value = Searched /\ Passed(i, b, p)

CursorsOK ==
    /\ cursors \in [Pool -> Nat \X Nat]
    /\ \A i \in Pool :
          /\ ShareStart(i) <= cursors[i][1] /\ cursors[i][1] <= ShareEnd(i)
          /\ 1 <= cursors[i][2]
          /\ cursors[i][1] < ShareEnd(i) => cursors[i][2] <= Len(buckets[cursors[i][1]]) + 1

ScreenOK ==
    /\ printed \in Seq(Keys)
    /\ \A p, q \in 1 .. Len(printed) : printed[p] = printed[q] => p = q
    /\ \A key \in Keys : (\E p \in 1 .. Len(printed) : printed[p] = key) <=> Found(key)

HashInv ==
    /\ phase \in {"off", "filling", "searching", "done", "over"}
    /\ phase # "over" => TableInv
    /\ phase \in {"off", "filling"} => printed = <<>>
    /\ phase \in {"searching", "done"} => CursorsOK /\ ScreenOK
    /\ phase = "done" => \A i \in Pool : cursors[i][1] >= ShareEnd(i)

LEMMA IndexType == \A key \in Keys : htab_index(key) \in Offsets
BY HashSearchAssumption DEF htab_index, Offsets

\* htab_add puts the entry in front.
LEMMA EntryAdded ==
    ASSUME NEW b \in Offsets, NEW c, ChainOK(c, b), NEW e \in Entry, htab_index(e.key) = b,
           \A p \in 1 .. Len(c) : c[p].key # e.key
    PROVE  /\ ChainOK(<<e>> \o c, b)
           /\ \A key, value : HasEntry(<<e>> \o c, key, value)
                              <=> (HasEntry(c, key, value) \/ (key = e.key /\ value = e.value))
<1> DEFINE one == <<e>>
           d == one \o c
           n == Len(c)
<1>1. one \in Seq(Entry) /\ Len(one) = 1 /\ one[1] = e
  OBVIOUS
<1>2. c \in Seq(Entry) /\ n \in Nat
  BY DEF ChainOK
<1> HIDE DEF one
<1>3. /\ d \in Seq(Entry) /\ Len(d) = n + 1
      /\ \A p \in 1 .. n + 1 : d[p] = IF p = 1 THEN e ELSE c[p - 1]
  <2>1. /\ d \in Seq(Entry) /\ Len(d) = Len(one) + Len(c)
        /\ \A p \in 1 .. Len(one) + Len(c) : d[p] = IF p <= Len(one) THEN one[p] ELSE c[p - Len(one)]
    BY <1>1, <1>2, ConcatProperties
  <2> HIDE DEF d
  <2> QED BY <1>1, <1>2, <2>1
<1> HIDE DEF d
<1>4. d[1] = e /\ \A q \in 1 .. n : d[q + 1] = c[q]
  BY <1>2, <1>3
<1>5. \A p \in 1 .. n + 1 : p = 1 \/ (p - 1 \in 1 .. n /\ d[p] = c[p - 1])
  BY <1>2, <1>3
<1>6. ChainOK(d, b)
  <2>1. ASSUME NEW p \in 1 .. n + 1 PROVE htab_index(d[p].key) = b
    BY <1>4, <1>5 DEF ChainOK
  <2>2. ASSUME NEW p \in 1 .. n + 1, NEW q \in 1 .. n + 1, d[p].key = d[q].key PROVE p = q
    <3>1. CASE p = 1 /\ q # 1
      BY <1>4, <1>5, <2>2, <3>1
    <3>2. CASE p # 1 /\ q = 1
      BY <1>4, <1>5, <2>2, <3>2
    <3>3. CASE p # 1 /\ q # 1
      <4>1. p - 1 \in 1 .. n /\ q - 1 \in 1 .. n /\ c[p - 1].key = c[q - 1].key
        BY <1>5, <2>2, <3>3
      <4>2. p - 1 = q - 1
        BY <4>1 DEF ChainOK
      <4> QED BY <4>2
    <3> QED BY <3>1, <3>2, <3>3
  <2> QED BY <1>3, <2>1, <2>2 DEF ChainOK
<1>7. ASSUME NEW key, NEW value
      PROVE  HasEntry(d, key, value) <=> (HasEntry(c, key, value) \/ (key = e.key /\ value = e.value))
  <2>1. ASSUME HasEntry(d, key, value)
        PROVE  HasEntry(c, key, value) \/ (key = e.key /\ value = e.value)
    BY <1>3, <1>4, <1>5, <2>1 DEF HasEntry
  <2>2. ASSUME HasEntry(c, key, value) PROVE HasEntry(d, key, value)
    <3>1. PICK p \in 1 .. n : c[p].key = key /\ c[p].value = value
      BY <2>2 DEF HasEntry
    <3>2. p + 1 \in 1 .. n + 1 /\ d[p + 1] = c[p]
      BY <1>2, <1>4
    <3> QED BY <1>3, <3>1, <3>2 DEF HasEntry
  <2>3. ASSUME key = e.key, value = e.value PROVE HasEntry(d, key, value)
    BY <1>2, <1>3, <1>4, <2>3 DEF HasEntry
  <2> QED BY <2>1, <2>2, <2>3
<1> QED BY <1>6, <1>7 DEF d, one

\* htab_delete takes the entry out, and no other key's.
LEMMA EntryDeleted ==
    ASSUME NEW b \in Offsets, NEW c, ChainOK(c, b), NEW place \in 1 .. Len(c)
    PROVE  /\ ChainOK(RemoveAt(c, place), b)
           /\ \A key, value : HasEntry(RemoveAt(c, place), key, value)
                              <=> (HasEntry(c, key, value) /\ key # c[place].key)
<1> DEFINE d == RemoveAt(c, place)
           n == Len(c)
<1>1. c \in Seq(Entry) /\ n \in Nat
  BY DEF ChainOK
<1>2. /\ d \in Seq(Entry) /\ Len(d) = n - 1
      /\ \A p \in 1 .. n - 1 : d[p] = TakenOut(c, place, p)
  BY <1>1, RemovedAt
<1> HIDE DEF d
<1> DEFINE from(p) == IF p < place THEN p ELSE p + 1
<1>3. \A p \in 1 .. n - 1 : from(p) \in 1 .. n /\ from(p) # place /\ d[p] = c[from(p)]
  BY <1>1, <1>2 DEF TakenOut
<1>4. \A p, q \in 1 .. n - 1 : from(p) = from(q) => p = q
  BY <1>1
<1>5. ASSUME NEW q \in 1 .. n, q # place PROVE \E p \in 1 .. n - 1 : from(p) = q
  <2>1. CASE q < place
    <3>1. q \in 1 .. n - 1 /\ from(q) = q
      BY <1>1, <2>1
    <3> QED BY <3>1
  <2>2. CASE ~(q < place)
    <3>1. q - 1 \in 1 .. n - 1 /\ from(q - 1) = q
      BY <1>1, <1>5, <2>2
    <3> QED BY <3>1
  <2> QED BY <2>1, <2>2
<1> HIDE DEF from
<1>6. ChainOK(d, b)
  BY <1>2, <1>3, <1>4 DEF ChainOK
<1>7. ASSUME NEW key, NEW value
      PROVE  HasEntry(d, key, value) <=> (HasEntry(c, key, value) /\ key # c[place].key)
  <2>1. ASSUME HasEntry(d, key, value) PROVE HasEntry(c, key, value) /\ key # c[place].key
    <3>1. PICK p \in 1 .. n - 1 : d[p].key = key /\ d[p].value = value
      BY <1>2, <2>1 DEF HasEntry
    <3>2. from(p) \in 1 .. n /\ from(p) # place /\ d[p] = c[from(p)]
      BY <1>3
    <3> QED BY <3>1, <3>2 DEF HasEntry, ChainOK
  <2>2. ASSUME HasEntry(c, key, value), key # c[place].key PROVE HasEntry(d, key, value)
    <3>1. PICK q \in 1 .. n : c[q].key = key /\ c[q].value = value
      BY <2>2 DEF HasEntry
    <3>2. PICK p \in 1 .. n - 1 : from(p) = q
      BY <1>5, <2>2, <3>1
    <3>3. d[p] = c[q]
      BY <1>3, <3>2
    <3> QED BY <1>2, <3>1, <3>3 DEF HasEntry
  <2> QED BY <2>1, <2>2
<1> QED BY <1>6, <1>7 DEF d

-----------------------------------------------------------------------------
(* The shares.                                                             *)

LEMMA FewerTimes == \A a, b, w \in Nat : a <= b => a * w <= b * w /\ a * w \in Nat
<1> SUFFICES ASSUME NEW a \in Nat, NEW b \in Nat, NEW w \in Nat, a <= b
             PROVE  a * w <= b * w /\ a * w \in Nat
  OBVIOUS
<1>1. PICK d \in Nat : b = a + d
  <2>1. b - a \in Nat /\ b = a + (b - a)
    OBVIOUS
  <2> QED BY <2>1
<1>2. b * w = a * w + d * w /\ d * w \in Nat /\ a * w \in Nat
  BY <1>1
<1> QED BY <1>2

\* The division leaves less than a share for each.
LEMMA PerThreadType == PerThread \in Nat /\ SearchThreads * PerThread <= TableBuckets
<1> USE HashSearchAssumption
<1>1. PerThread \in Nat
  BY DEF PerThread
<1>2. SearchThreads * PerThread <= TableBuckets
  BY DEF PerThread
<1> QED BY <1>1, <1>2

LEMMA ShareBounds ==
    \A i \in Pool : /\ ShareStart(i) \in Nat /\ ShareEnd(i) \in Nat
                    /\ ShareStart(i) <= ShareEnd(i) /\ ShareEnd(i) <= TableBuckets
<1> SUFFICES ASSUME NEW i \in Pool
             PROVE  /\ ShareStart(i) \in Nat /\ ShareEnd(i) \in Nat
                    /\ ShareStart(i) <= ShareEnd(i) /\ ShareEnd(i) <= TableBuckets
  OBVIOUS
<1>1. /\ i \in Nat /\ i + 1 \in Nat /\ i <= i + 1 /\ i + 1 <= SearchThreads /\ i <= SearchThreads
      /\ SearchThreads \in Nat /\ TableBuckets \in Nat
  BY HashSearchAssumption DEF Pool
<1>2. /\ i * PerThread \in Nat /\ (i + 1) * PerThread \in Nat
      /\ i * PerThread <= (i + 1) * PerThread
      /\ i * PerThread <= SearchThreads * PerThread
      /\ (i + 1) * PerThread <= SearchThreads * PerThread
      /\ SearchThreads * PerThread \in Nat
  BY <1>1, PerThreadType, FewerTimes
<1>3. CASE i = SearchThreads - 1
  BY <1>1, <1>2, <1>3, PerThreadType DEF ShareStart, ShareEnd
<1>4. CASE i # SearchThreads - 1
  BY <1>1, <1>2, <1>4, PerThreadType DEF ShareStart, ShareEnd
<1> QED BY <1>3, <1>4

\* No bucket is in two shares.
LEMMA SharesApart ==
    \A i, j \in Pool : \A b : b \in Share(i) /\ b \in Share(j) => i = j
<1>1. ASSUME NEW i \in Pool, NEW j \in Pool, i < j PROVE ShareEnd(i) <= ShareStart(j)
  <2>1. i + 1 \in Nat /\ j \in Nat /\ i + 1 <= j /\ i # SearchThreads - 1
    BY <1>1, HashSearchAssumption DEF Pool
  <2>2. (i + 1) * PerThread <= j * PerThread
    BY <2>1, PerThreadType, FewerTimes
  <2> QED BY <2>1, <2>2 DEF ShareStart, ShareEnd
<1>2. ASSUME NEW i \in Pool, NEW j \in Pool, NEW b, b \in Share(i), b \in Share(j), i < j PROVE FALSE
  <2>1. /\ b \in Nat /\ b < ShareEnd(i) /\ ShareStart(j) <= b
    BY <1>2 DEF Share, Offsets
  <2>2. ShareEnd(i) \in Nat /\ ShareStart(j) \in Nat /\ ShareEnd(i) <= ShareStart(j)
    BY <1>1, <1>2, ShareBounds
  <2> QED BY <2>1, <2>2
<1> SUFFICES ASSUME NEW i \in Pool, NEW j \in Pool, NEW b, b \in Share(i), b \in Share(j) PROVE i = j
  OBVIOUS
<1>3. i \in Int /\ j \in Int
  BY DEF Pool
<1>4. i = j \/ i < j \/ j < i
  BY <1>3
<1> QED BY <1>2, <1>4

\* Every bucket is in a share, whatever the division leaves.
LEMMA SharesCover == \A b \in Offsets : \E i \in Pool : b \in Share(i)
<1> SUFFICES ASSUME NEW b \in Offsets PROVE \E i \in Pool : b \in Share(i)
  OBVIOUS
<1> DEFINE Ends == {i \in Pool : b < ShareEnd(i)}
<1>1. SearchThreads - 1 \in Pool /\ SearchThreads \in Nat /\ TableBuckets \in Nat /\ b < TableBuckets
      /\ b \in Nat
  BY HashSearchAssumption DEF Pool, Offsets
<1>2. SearchThreads - 1 \in Ends
  BY <1>1 DEF ShareEnd
<1>3. PICK i \in Ends : \A j \in Ends : i <= j
  <2>1. Ends \in SUBSET Nat
    BY DEF Pool
  <2> HIDE DEF Ends
  <2> QED BY <1>2, <2>1, LeastNat
<1>4. i \in Pool /\ i \in Nat
  BY DEF Pool
<1>5. ShareStart(i) <= b
  <2>1. CASE i = 0
    BY <1>1, <2>1, PerThreadType DEF ShareStart
  <2>2. CASE i # 0
    <3>1. i - 1 \in Pool /\ i - 1 # SearchThreads - 1 /\ ~(i <= i - 1)
      BY <1>1, <1>4, <2>2 DEF Pool
    <3>2. i - 1 \notin Ends
      BY <1>3, <3>1
    <3>3. ~(b < ShareEnd(i - 1)) /\ ShareEnd(i - 1) \in Nat
      BY <3>1, <3>2, ShareBounds
    <3>4. ShareEnd(i - 1) = ShareStart(i)
      BY <1>4, <3>1 DEF ShareEnd, ShareStart
    <3> QED BY <1>1, <3>3, <3>4
  <2> QED BY <2>1, <2>2
<1> QED BY <1>4, <1>5 DEF Share

-----------------------------------------------------------------------------
(* The steps.                                                              *)

LEMMA SameTable == TableInv /\ UNCHANGED <<buckets, entered>> => TableInv'
BY DEF TableInv

LEMMA KeyAdded ==
    ASSUME TableInv, NEW key \in Keys, NEW value \in HashValues, htab_add(key, value)
    PROVE  TableInv'
<1> DEFINE x == htab_index(key)
           e == [key |-> key, value |-> value]
           c == buckets[x]
<1>1. /\ buckets' = [buckets EXCEPT ![x] = <<e>> \o c] /\ entered' = entered \cup {<<key, value>>}
      /\ htab_find(key) = {}
  BY DEF htab_add
<1>2. x \in Offsets /\ ChainOK(c, x) /\ buckets \in [Offsets -> Seq(Entry)]
  BY IndexType DEF TableInv
<1>3. e \in Entry /\ e.key = key /\ e.value = value
  BY DEF Entry
<1>4. \A p \in 1 .. Len(c) : c[p].key # key
  <2>1. c \in Seq(Entry) /\ DOMAIN c = 1 .. Len(c)
    BY <1>2 DEF ChainOK
  <2> QED BY <1>1, <2>1 DEF htab_find, Places
<1> HIDE DEF x, e, c
<1>5. /\ ChainOK(<<e>> \o c, x)
      /\ \A k, v : HasEntry(<<e>> \o c, k, v) <=> (HasEntry(c, k, v) \/ (k = key /\ v = value))
  BY <1>2, <1>3, <1>4, EntryAdded DEF x
<1>6. buckets'[x] = <<e>> \o c /\ \A b \in Offsets : b # x => buckets'[b] = buckets[b]
  BY <1>1, <1>2
<1>7. buckets' \in [Offsets -> Seq(Entry)]
  BY <1>1, <1>2, <1>5 DEF ChainOK
<1>8. ASSUME NEW b \in Offsets PROVE ChainOK(buckets'[b], b)
  BY <1>5, <1>6 DEF TableInv
<1>9. ASSUME NEW k \in Keys, NEW v
      PROVE  <<k, v>> \in entered' <=> HasEntry(buckets'[htab_index(k)], k, v)
  <2>1. htab_index(k) \in Offsets
    BY IndexType
  <2>2. <<k, v>> \in entered <=> HasEntry(buckets[htab_index(k)], k, v)
    BY DEF TableInv
  <2>3. <<k, v>> \in entered' <=> (<<k, v>> \in entered \/ (k = key /\ v = value))
    BY <1>1
  <2>4. CASE htab_index(k) = x
    BY <1>5, <1>6, <2>2, <2>3, <2>4 DEF c
  <2>5. CASE htab_index(k) # x
    <3>1. k # key
      BY <2>5 DEF x
    <3>2. buckets'[htab_index(k)] = buckets[htab_index(k)]
      BY <1>6, <2>1, <2>5
    <3> QED BY <2>2, <2>3, <3>1, <3>2
  <2> QED BY <2>4, <2>5
<1> QED BY <1>7, <1>8, <1>9 DEF TableInv, htab_index

LEMMA KeyDeleted ==
    ASSUME TableInv, NEW key \in Keys, htab_delete(key)
    PROVE  TableInv'
<1> DEFINE x == htab_index(key)
           c == buckets[x]
<1>1. PICK place \in Places(key) : buckets' = [buckets EXCEPT ![x] = RemoveAt(c, place)]
  BY DEF htab_delete
<1>2. entered' = {e \in entered : e[1] # key}
  BY DEF htab_delete
<1>3. x \in Offsets /\ ChainOK(c, x) /\ buckets \in [Offsets -> Seq(Entry)]
  BY IndexType DEF TableInv
<1>4. place \in 1 .. Len(c) /\ c[place].key = key
  <2>1. c \in Seq(Entry) /\ DOMAIN c = 1 .. Len(c)
    BY <1>3 DEF ChainOK
  <2> QED BY <2>1 DEF Places
<1> HIDE DEF x, c
<1> DEFINE d == RemoveAt(c, place)
<1>5. /\ ChainOK(d, x)
      /\ \A k, v : HasEntry(d, k, v) <=> (HasEntry(c, k, v) /\ k # key)
  BY <1>3, <1>4, EntryDeleted
<1> HIDE DEF d
<1>6. buckets'[x] = d /\ \A b \in Offsets : b # x => buckets'[b] = buckets[b]
  BY <1>1, <1>3 DEF d
<1>7. buckets' \in [Offsets -> Seq(Entry)]
  BY <1>1, <1>3, <1>5 DEF ChainOK, d
<1>8. ASSUME NEW b \in Offsets PROVE ChainOK(buckets'[b], b)
  BY <1>5, <1>6 DEF TableInv
<1>9. ASSUME NEW k \in Keys, NEW v
      PROVE  <<k, v>> \in entered' <=> HasEntry(buckets'[htab_index(k)], k, v)
  <2>1. htab_index(k) \in Offsets
    BY IndexType
  <2>2. <<k, v>> \in entered <=> HasEntry(buckets[htab_index(k)], k, v)
    BY DEF TableInv
  <2>3. <<k, v>> \in entered' <=> (<<k, v>> \in entered /\ k # key)
    BY <1>2
  <2>4. CASE htab_index(k) = x
    BY <1>5, <1>6, <2>2, <2>3, <2>4 DEF c
  <2>5. CASE htab_index(k) # x
    <3>1. k # key
      BY <2>5 DEF x
    <3>2. buckets'[htab_index(k)] = buckets[htab_index(k)]
      BY <1>6, <2>1, <2>5
    <3> QED BY <2>2, <2>3, <3>1, <3>2
  <2> QED BY <2>4, <2>5
<1> QED BY <1>7, <1>8, <1>9 DEF TableInv, htab_index

LEMMA SearchStarts ==
    ASSUME TableInv, printed = <<>>, StartSearch
    PROVE  CursorsOK' /\ ScreenOK'
<1>1. /\ cursors' = [i \in Pool |-> <<ShareStart(i), 1>>]
      /\ buckets' = buckets /\ printed' = <<>>
  BY DEF StartSearch
<1>2. /\ cursors' \in [Pool -> Nat \X Nat]
      /\ \A i \in Pool : cursors'[i][1] = ShareStart(i) /\ cursors'[i][2] = 1
  BY <1>1, ShareBounds
<1>3. CursorsOK'
  <2>1. ASSUME NEW i \in Pool, ShareStart(i) < ShareEnd(i)
        PROVE  1 <= Len(buckets'[ShareStart(i)]) + 1
    <3>1. ShareStart(i) \in Offsets
      BY <2>1, ShareBounds, HashSearchAssumption DEF Offsets
    <3>2. Len(buckets[ShareStart(i)]) \in Nat
      BY <3>1 DEF TableInv
    <3> QED BY <1>1, <3>2
  <2>2. \A i \in Pool : ShareStart(i) <= ShareStart(i) /\ ShareStart(i) <= ShareEnd(i)
    BY ShareBounds
  <2> QED BY <1>2, <2>1, <2>2 DEF CursorsOK, ShareStart, ShareEnd, PerThread
<1>4. ASSUME NEW key, Found(key)' PROVE FALSE
  <2>1. PICK i \in Pool : \E b \in Share(i) : \E p \in 1 .. Len(buckets'[b]) : Passed(i, b, p)'
    BY <1>4 DEF Found, Share, ShareStart, ShareEnd, PerThread
  <2>2. PICK b \in Share(i) : \E p \in 1 .. Len(buckets'[b]) : Passed(i, b, p)'
    BY <2>1
  <2>3. PICK p \in 1 .. Len(buckets'[b]) : Passed(i, b, p)'
    BY <2>2
  <2>4. b \in Nat /\ ShareStart(i) <= b /\ ShareStart(i) \in Nat
    BY ShareBounds DEF Share, Offsets
  <2>5. b < ShareStart(i) \/ p < 1
    BY <1>2, <2>3 DEF Passed
  <2>6. p \in Int /\ 1 <= p
    OBVIOUS
  <2> QED BY <2>4, <2>5, <2>6
<1>5. ScreenOK'
  BY <1>1, <1>4 DEF ScreenOK
<1> QED BY <1>3, <1>5

\* A thread that goes past an entry prints its key if the value is the one, for the first time;
\* a thread that goes on to the next bucket has gone past all of the last.
LEMMA SearchGoesOn ==
    ASSUME TableInv, CursorsOK, ScreenOK, NEW i \in Pool, SearchOn(i)
    PROVE  CursorsOK' /\ ScreenOK'
<1> DEFINE bucket == cursors[i][1]
           place  == cursors[i][2]
           c      == buckets[bucket]
           n      == Len(c)
<1>1. /\ bucket \in Nat /\ place \in Nat /\ 1 <= place /\ place <= n + 1
      /\ ShareStart(i) <= bucket /\ bucket < ShareEnd(i)
  BY DEF CursorsOK, SearchOn
<1>2. bucket \in Offsets /\ bucket \in Share(i)
  BY <1>1, ShareBounds, HashSearchAssumption DEF Offsets, Share
<1>3. /\ ChainOK(c, bucket) /\ c \in Seq(Entry) /\ n \in Nat /\ DOMAIN c = 1 .. n
  <2>1. ChainOK(c, bucket) /\ c \in Seq(Entry)
    BY <1>2 DEF TableInv
  <2> QED BY <2>1
<1>4. buckets' = buckets /\ entered' = entered
  BY DEF SearchOn
<1>5. /\ cursors \in [Pool -> Nat \X Nat]
      /\ printed \in Seq(Keys)
  BY DEF CursorsOK, ScreenOK
<1>6. \A j \in Pool : /\ ShareStart(j) \in Nat /\ ShareEnd(j) \in Nat
                      /\ Share(j)' = Share(j) /\ ShareStart(j)' = ShareStart(j)
                      /\ ShareEnd(j)' = ShareEnd(j)
  BY ShareBounds DEF Share, ShareStart, ShareEnd, PerThread
<1>7. CASE place \in 1 .. n
  <2> DEFINE k == c[place].key
             hit == c[place].value = Searched
  <2>1. /\ cursors' = [cursors EXCEPT ![i] = <<bucket, place + 1>>]
        /\ printed' = IF hit THEN Append(printed, k) ELSE printed
    BY <1>3, <1>7 DEF SearchOn
  <2>2. /\ cursors' \in [Pool -> Nat \X Nat]
        /\ cursors'[i][1] = bucket /\ cursors'[i][2] = place + 1
        /\ \A j \in Pool : j # i => cursors'[j] = cursors[j]
    BY <1>1, <1>5, <2>1
  <2>3. k \in Keys /\ htab_index(k) = bucket
    <3>1. c[place] \in Entry
      BY <1>3, <1>7, ElementOfSeq
    <3>2. htab_index(c[place].key) = bucket
      BY <1>3, <1>7 DEF ChainOK
    <3> QED BY <3>1, <3>2 DEF Entry
  <2> HIDE DEF bucket, place, n, k, hit
  <2>4. CursorsOK'
    <3>1. ASSUME NEW j \in Pool
          PROVE  /\ ShareStart(j) <= cursors'[j][1] /\ cursors'[j][1] <= ShareEnd(j)
                 /\ 1 <= cursors'[j][2]
                 /\ cursors'[j][1] < ShareEnd(j) => cursors'[j][2] <= Len(buckets'[cursors'[j][1]]) + 1
      <4>1. CASE j # i
        BY <1>4, <2>2, <4>1 DEF CursorsOK
      <4>2. CASE j = i
        <5>1. place + 1 <= Len(buckets'[bucket]) + 1 /\ 1 <= place + 1 /\ bucket <= ShareEnd(i)
          BY <1>1, <1>3, <1>4, <1>6, <1>7 DEF n
        <5> QED BY <1>1, <2>2, <4>2, <5>1
      <4> QED BY <4>1, <4>2
    <3> QED BY <1>6, <2>2, <3>1 DEF CursorsOK
  <2>5. \A j \in Pool : \A b \in Offsets : \A p \in Nat :
            Passed(j, b, p)' <=> (Passed(j, b, p) \/ (j = i /\ b = bucket /\ p = place))
    <3>1. ASSUME NEW b \in Offsets, NEW p \in Nat
          PROVE  Passed(i, b, p)' <=> (Passed(i, b, p) \/ (b = bucket /\ p = place))
      BY <1>1, <2>2 DEF Passed, Offsets, bucket, place
    <3>2. ASSUME NEW j \in Pool, j # i, NEW b, NEW p PROVE Passed(j, b, p)' <=> Passed(j, b, p)
      BY <2>2, <3>2 DEF Passed
    <3> QED BY <3>1, <3>2
  <2>6. \A key \in Keys : Found(key)' <=> (Found(key) \/ (key = k /\ hit))
    <3>1. ASSUME NEW key \in Keys, Found(key)' PROVE Found(key) \/ (key = k /\ hit)
      <4>1. PICK j \in Pool : \E b \in Share(j) : \E p \in 1 .. Len(buckets[b]) :
               buckets[b][p].key = key /\ buckets[b][p].value = Searched /\ Passed(j, b, p)'
        BY <1>4, <1>6, <3>1 DEF Found
      <4>2. PICK b \in Share(j) : \E p \in 1 .. Len(buckets[b]) :
               buckets[b][p].key = key /\ buckets[b][p].value = Searched /\ Passed(j, b, p)'
        BY <4>1
      <4>3. PICK p \in 1 .. Len(buckets[b]) :
               buckets[b][p].key = key /\ buckets[b][p].value = Searched /\ Passed(j, b, p)'
        BY <4>2
      <4>4. b \in Offsets /\ p \in Nat
        BY DEF Share
      <4>5. Passed(j, b, p) \/ (j = i /\ b = bucket /\ p = place)
        BY <2>5, <4>3, <4>4
      <4>6. CASE Passed(j, b, p)
        BY <4>3, <4>6 DEF Found
      <4>7. CASE b = bucket /\ p = place
        BY <4>3, <4>7 DEF k, hit
      <4> QED BY <4>5, <4>6, <4>7
    <3>2. ASSUME NEW key \in Keys, Found(key) PROVE Found(key)'
      <4>1. PICK j \in Pool : \E b \in Share(j) : \E p \in 1 .. Len(buckets[b]) :
               buckets[b][p].key = key /\ buckets[b][p].value = Searched /\ Passed(j, b, p)
        BY <3>2 DEF Found
      <4>2. PICK b \in Share(j) : \E p \in 1 .. Len(buckets[b]) :
               buckets[b][p].key = key /\ buckets[b][p].value = Searched /\ Passed(j, b, p)
        BY <4>1
      <4>3. PICK p \in 1 .. Len(buckets[b]) :
               buckets[b][p].key = key /\ buckets[b][p].value = Searched /\ Passed(j, b, p)
        BY <4>2
      <4>4. b \in Offsets /\ p \in Nat
        BY DEF Share
      <4>5. Passed(j, b, p)'
        BY <2>5, <4>3, <4>4
      <4> QED BY <1>4, <1>6, <4>3, <4>5 DEF Found
    <3>3. ASSUME hit PROVE \E key : key = k /\ Found(key)'
      <4>1. PICK b, p, key : b = bucket /\ p = place /\ key = k
        OBVIOUS
      <4>2. p \in Nat /\ p \in 1 .. Len(buckets[b])
        BY <1>1, <1>7, <4>1 DEF n
      <4>3. b \in Share(i) /\ b \in Offsets
        BY <1>2, <4>1
      <4>4. Passed(i, b, p)'
        BY <2>5, <4>1, <4>2, <4>3
      <4>5. buckets[b][p].key = key /\ buckets[b][p].value = Searched
        BY <3>3, <4>1 DEF k, hit
      <4>6. Found(key)'
        BY <1>4, <1>6, <4>2, <4>3, <4>4, <4>5 DEF Found
      <4> QED BY <4>1, <4>6
    <3> QED BY <2>3, <3>1, <3>2, <3>3
  <2>7. ~Found(k)
    <3> SUFFICES ASSUME Found(k) PROVE FALSE
      OBVIOUS
    <3>1. PICK j \in Pool : \E b \in Share(j) : \E p \in 1 .. Len(buckets[b]) :
             buckets[b][p].key = k /\ Passed(j, b, p)
      BY DEF Found
    <3>2. PICK b \in Share(j) : \E p \in 1 .. Len(buckets[b]) :
             buckets[b][p].key = k /\ Passed(j, b, p)
      BY <3>1
    <3>3. PICK p \in 1 .. Len(buckets[b]) : buckets[b][p].key = k /\ Passed(j, b, p)
      BY <3>2
    <3>4. b \in Offsets /\ ChainOK(buckets[b], b)
      BY DEF Share, TableInv
    <3>5. b = bucket
      BY <2>3, <3>3, <3>4 DEF ChainOK
    <3>6. j = i
      BY <1>2, <3>5, SharesApart
    <3>7. p = place
      <4>1. c[p].key = c[place].key /\ p \in 1 .. n
        BY <3>3, <3>5 DEF k, n
      <4> QED BY <1>3, <1>7, <4>1 DEF ChainOK, n
    <3>8. Passed(i, bucket, place)
      BY <3>3, <3>5, <3>6, <3>7
    <3> QED BY <1>1, <3>8 DEF Passed, bucket, place
  <2>8. ScreenOK'
    <3>1. CASE ~hit
      BY <2>1, <2>6, <3>1 DEF ScreenOK
    <3>2. CASE hit
      <4> DEFINE m == Len(printed)
                 new == Append(printed, k)
      <4>1. m \in Nat /\ printed' = new
        BY <1>5, <2>1, <3>2
      <4>2. /\ new \in Seq(Keys) /\ Len(new) = m + 1 /\ new[m + 1] = k
            /\ \A p \in 1 .. m : new[p] = printed[p]
        BY <1>5, <2>3, AppendProperties
      <4> HIDE DEF m, new
      <4>3. \A p \in 1 .. m + 1 : p \in 1 .. m \/ p = m + 1
        BY <4>1
      <4>4. \A p \in 1 .. m : printed[p] # k
        BY <2>3, <2>7 DEF ScreenOK, m
      <4>5. \A p, q \in 1 .. m + 1 : new[p] = new[q] => p = q
        <5> SUFFICES ASSUME NEW p \in 1 .. m + 1, NEW q \in 1 .. m + 1, new[p] = new[q] PROVE p = q
          OBVIOUS
        <5>1. CASE p \in 1 .. m /\ q \in 1 .. m
          BY <4>2, <5>1 DEF ScreenOK, m
        <5>2. CASE p = m + 1 /\ q \in 1 .. m
          BY <4>2, <4>4, <5>2
        <5>3. CASE p \in 1 .. m /\ q = m + 1
          BY <4>2, <4>4, <5>3
        <5> QED BY <4>3, <5>1, <5>2, <5>3
      <4>6. ASSUME NEW key \in Keys
            PROVE  (\E p \in 1 .. m + 1 : new[p] = key) <=> Found(key)'
        <5>1. (\E p \in 1 .. m : printed[p] = key) <=> Found(key)
          BY DEF ScreenOK, m
        <5>2. (\E p \in 1 .. m + 1 : new[p] = key) <=> ((\E p \in 1 .. m : printed[p] = key) \/ key = k)
          <6>1. m + 1 \in 1 .. m + 1 /\ \A p \in 1 .. m : p \in 1 .. m + 1
            BY <4>1
          <6> QED BY <4>2, <4>3, <6>1
        <5> QED BY <2>6, <3>2, <5>1, <5>2
      <4> QED BY <4>1, <4>2, <4>5, <4>6 DEF ScreenOK
    <3> QED BY <3>1, <3>2
  <2> QED BY <2>4, <2>8
<1>8. CASE place \notin 1 .. n
  <2>1. cursors' = [cursors EXCEPT ![i] = <<bucket + 1, 1>>] /\ printed' = printed
    BY <1>3, <1>8 DEF SearchOn
  <2>2. /\ cursors' \in [Pool -> Nat \X Nat]
        /\ cursors'[i][1] = bucket + 1 /\ cursors'[i][2] = 1
        /\ \A j \in Pool : j # i => cursors'[j] = cursors[j]
    BY <1>1, <1>5, <2>1
  <2>3. place = n + 1
    BY <1>1, <1>3, <1>8
  <2> HIDE DEF bucket, place, n
  <2>4. CursorsOK'
    <3>1. ASSUME NEW j \in Pool
          PROVE  /\ ShareStart(j) <= cursors'[j][1] /\ cursors'[j][1] <= ShareEnd(j)
                 /\ 1 <= cursors'[j][2]
                 /\ cursors'[j][1] < ShareEnd(j) => cursors'[j][2] <= Len(buckets'[cursors'[j][1]]) + 1
      <4>1. CASE j # i
        BY <1>4, <2>2, <4>1 DEF CursorsOK
      <4>2. CASE j = i
        <5>1. ShareStart(i) <= bucket + 1 /\ bucket + 1 <= ShareEnd(i)
          BY <1>1, <1>6
        <5>2. ASSUME bucket + 1 < ShareEnd(i) PROVE 1 <= Len(buckets[bucket + 1]) + 1
          <6>1. bucket + 1 \in Offsets
            BY <1>1, <1>6, <5>2, ShareBounds, HashSearchAssumption DEF Offsets
          <6>2. Len(buckets[bucket + 1]) \in Nat
            BY <6>1 DEF TableInv
          <6> QED BY <6>2
        <5> QED BY <1>4, <2>2, <4>2, <5>1, <5>2
      <4> QED BY <4>1, <4>2
    <3> QED BY <1>6, <2>2, <3>1 DEF CursorsOK
  <2>5. \A j \in Pool : \A b \in Offsets : \A p \in 1 .. Len(buckets[b]) :
            Passed(j, b, p)' <=> Passed(j, b, p)
    <3>1. ASSUME NEW b \in Offsets, NEW p \in 1 .. Len(buckets[b])
          PROVE  Passed(i, b, p)' <=> Passed(i, b, p)
      <4>1. p \in Nat /\ b \in Nat
        BY DEF Offsets
      <4>2. b = bucket => p < place
        BY <1>3, <2>3, <4>1 DEF n
      <4>3. Passed(i, b, p)' <=> (b < bucket + 1 \/ (b = bucket + 1 /\ p < 1))
        BY <2>2 DEF Passed
      <4>4. Passed(i, b, p) <=> (b < bucket \/ (b = bucket /\ p < place))
        BY DEF Passed, bucket, place
      <4> QED BY <1>1, <4>1, <4>2, <4>3, <4>4
    <3>2. ASSUME NEW j \in Pool, j # i, NEW b, NEW p PROVE Passed(j, b, p)' <=> Passed(j, b, p)
      BY <2>2, <3>2 DEF Passed
    <3> QED BY <3>1, <3>2
  <2>6. \A key : Found(key)' <=> Found(key)
    <3>1. \A j \in Pool : \A b \in Share(j) : b \in Offsets
      BY DEF Share
    <3> QED BY <1>4, <1>6, <2>5, <3>1 DEF Found
  <2> QED BY <2>1, <2>4, <2>6 DEF ScreenOK
<1> QED BY <1>7, <1>8

LEMMA HashInvStep == HashInv /\ [HashNext]_hashVars => HashInv'
<1> SUFFICES ASSUME HashInv, [HashNext]_hashVars PROVE HashInv'
  OBVIOUS
<1> USE DEF HashInv
<1>1. ASSUME UNCHANGED <<buckets, cursors, printed, entered>>
      PROVE  (TableInv => TableInv') /\ (CursorsOK => CursorsOK') /\ (ScreenOK => ScreenOK')
             /\ ((\A i \in Pool : cursors[i][1] >= ShareEnd(i))
                   => (\A i \in Pool : cursors[i][1] >= ShareEnd(i))')
  BY <1>1 DEF TableInv, CursorsOK, ScreenOK, Found, Passed, Share, ShareStart, ShareEnd, PerThread,
              htab_index, ChainOK
<1>2. CASE htab_init
  BY <1>1, <1>2 DEF htab_init
<1>3. CASE StartSearch
  BY <1>3, SearchStarts, SameTable DEF StartSearch
<1>4. CASE JoinSearch
  BY <1>1, <1>4 DEF JoinSearch
<1>5. CASE htab_destroy
  BY <1>5 DEF htab_destroy
<1>6. ASSUME NEW key \in Keys, htab_delete(key) PROVE HashInv'
  BY <1>6, KeyDeleted DEF htab_delete
<1>7. ASSUME NEW key \in Keys, NEW value \in HashValues, htab_add(key, value) PROVE HashInv'
  BY <1>7, KeyAdded DEF htab_add
<1>8. ASSUME NEW i \in Pool, SearchOn(i) PROVE HashInv'
  <2>1. phase = "searching" /\ phase' = "searching" /\ UNCHANGED <<buckets, entered>>
    BY <1>8 DEF SearchOn
  <2> QED BY <1>8, <2>1, SearchGoesOn, SameTable
<1>9. CASE UNCHANGED hashVars
  BY <1>1, <1>9 DEF hashVars
<1> QED BY <1>2, <1>3, <1>4, <1>5, <1>6, <1>7, <1>8, <1>9 DEF HashNext

\* HashSearch's SearchComplete: with any table, any keys and any number of threads, the search
\* prints each key that was added with the value and not deleted, once, and nothing else.
THEOREM SearchFindsAll == HashSpec => []SearchComplete
<1>1. HashInit => HashInv
  <2> SUFFICES ASSUME HashInit PROVE HashInv
    OBVIOUS
  <2>1. \A b \in Offsets : buckets[b] = <<>> /\ buckets \in [Offsets -> Seq(Entry)]
    BY DEF HashInit
  <2>2. TableInv
    BY <2>1, IndexType DEF HashInit, TableInv, ChainOK, HasEntry
  <2> QED BY <2>2 DEF HashInit, HashInv
<1>2. HashInv => SearchComplete
  <2> SUFFICES ASSUME HashInv, phase = "done", NEW key \in Keys
               PROVE  Cardinality({p \in DOMAIN printed : printed[p] = key})
                          = IF <<key, Searched>> \in entered THEN 1 ELSE 0
    BY DEF SearchComplete
  <2> DEFINE places == {p \in DOMAIN printed : printed[p] = key}
  <2>1. TableInv /\ CursorsOK /\ ScreenOK /\ \A i \in Pool : cursors[i][1] >= ShareEnd(i)
    BY DEF HashInv
  <2>2. printed \in Seq(Keys) /\ DOMAIN printed = 1 .. Len(printed)
    <3>1. printed \in Seq(Keys)
      BY <2>1 DEF ScreenOK
    <3> QED BY <3>1
  <2>3. Found(key) <=> <<key, Searched>> \in entered
    <3> DEFINE b == htab_index(key)
    <3>1. b \in Offsets
      BY IndexType
    <3>2. <<key, Searched>> \in entered <=> HasEntry(buckets[b], key, Searched)
      BY <2>1 DEF TableInv
    <3>3. ASSUME Found(key) PROVE HasEntry(buckets[b], key, Searched)
      <4>1. PICK i \in Pool : \E a \in Share(i) : \E p \in 1 .. Len(buckets[a]) :
               buckets[a][p].key = key /\ buckets[a][p].value = Searched
        BY <3>3 DEF Found
      <4>2. PICK a \in Share(i) : \E p \in 1 .. Len(buckets[a]) :
               buckets[a][p].key = key /\ buckets[a][p].value = Searched
        BY <4>1
      <4>3. a \in Offsets /\ ChainOK(buckets[a], a)
        BY <2>1 DEF Share, TableInv
      <4>4. a = b
        BY <4>2, <4>3 DEF ChainOK
      <4> QED BY <4>2, <4>4 DEF HasEntry
    <3>4. ASSUME HasEntry(buckets[b], key, Searched) PROVE Found(key)
      <4>1. PICK i \in Pool : b \in Share(i)
        BY <3>1, SharesCover
      <4>2. cursors[i][1] >= ShareEnd(i) /\ cursors[i][1] \in Nat /\ ShareEnd(i) \in Nat
        BY <2>1, ShareBounds DEF CursorsOK
      <4>3. b \in Nat /\ b < ShareEnd(i)
        BY <4>1 DEF Share, Offsets
      <4> HIDE DEF b
      <4>4. b < cursors[i][1]
        BY <4>2, <4>3
      <4> QED BY <3>4, <4>1, <4>4 DEF Found, HasEntry, Passed
    <3> QED BY <3>2, <3>3, <3>4
  <2>4. CASE Found(key)
    <3>1. PICK p \in 1 .. Len(printed) : printed[p] = key
      BY <2>1, <2>4 DEF ScreenOK
    <3>2. places = {p}
      BY <2>1, <2>2, <3>1 DEF ScreenOK
    <3> QED BY <2>3, <2>4, <3>2, FS_Singleton
  <2>5. CASE ~Found(key)
    <3>1. places = {}
      BY <2>1, <2>2, <2>5 DEF ScreenOK
    <3> QED BY <2>3, <2>5, <3>1, FS_EmptySet
  <2> QED BY <2>4, <2>5
<1> QED BY <1>1, <1>2, HashInvStep, PTL DEF HashSpec

-----------------------------------------------------------------------------
(* RoundRobin: the job queue is a list of different nodes, and the last    *)
(* node of the ready queue has no link that the job queue runs along.      *)

\* q is what the job queue's head, tail and links stand for.
InJobQueue(q) ==
    /\ q \in Seq(Nodes)
    /\ Len(q) = 0 => jobQueueHead = Null /\ jobQueueTail = Null
    /\ Len(q) > 0 => jobQueueHead = q[1] /\ jobQueueTail = q[Len(q)]
    /\ \A i \in 1 .. Len(q) - 1 : nextNode[q[i]] = q[i + 1]
    /\ \A i, j \in 1 .. Len(q) : q[i] = q[j] => i = j

ReadyApart(q) ==
    /\ readyQueueTail \in Nodes \cup {Null}
    /\ \A i \in 1 .. Len(q) - 1 : q[i] # readyQueueTail

QueuesOK(q) ==
    /\ InJobQueue(q) /\ ReadyApart(q)
    /\ stage \in {"off", "filling"} => readyQueueTail = Null /\ \A i \in 1 .. Len(q) : q[i] <= made

RRTypeOK ==
    /\ stage \in {"off", "filling", "serving", "printing"}
    /\ made \in 0 .. JobCount
    /\ nextNode \in [Nodes -> Nodes \cup {Null}]
    /\ burstTime \in [Nodes -> Int]

RRInv == RRTypeOK /\ \E q : QueuesOK(q)

LEMMA AlongUnfolds ==
    Along[0] = jobQueueHead /\ \A n \in Nat : Along[n + 1] = Behind[Along[n]]
<1>1. Along = CHOOSE f : IsIteration(f, jobQueueHead, Behind)
  BY DEF Along, IsIteration
<1>2. IsIteration(Along, jobQueueHead, Behind)
  BY <1>1, IterationExists
<1> QED BY <1>2 DEF IsIteration

LEMMA Intervals ==
    ASSUME NEW k \in Nat
    PROVE  /\ IsFiniteSet(1 .. k) /\ Cardinality(1 .. k) = k
           /\ Cardinality(0 .. k - 1) = k
<1>1. 0 \in Int /\ 1 \in Int /\ k \in Int /\ k - 1 \in Int
  OBVIOUS
<1>2. IsFiniteSet(1 .. k) /\ Cardinality(1 .. k) = IF 1 > k THEN 0 ELSE k - 1 + 1
  BY <1>1, FS_Interval
<1>3. Cardinality(0 .. k - 1) = IF 0 > k - 1 THEN 0 ELSE k - 1 - 0 + 1
  BY <1>1, FS_Interval
<1> QED BY <1>2, <1>3

\* A sequence of different nodes is no longer than there are nodes.
LEMMA NoMoreThanNodes ==
    ASSUME NEW q \in Seq(Nodes), \A i, j \in 1 .. Len(q) : q[i] = q[j] => i = j
    PROVE  Len(q) <= JobCount
<1>1. JobCount \in Nat /\ Len(q) \in Nat
  BY RoundRobinAssumption, LenProperties
<1>2. /\ IsFiniteSet(Nodes) /\ Cardinality(Nodes) = JobCount
      /\ IsFiniteSet(1 .. Len(q)) /\ Cardinality(1 .. Len(q)) = Len(q)
  BY <1>1, Intervals DEF Nodes
<1> SUFFICES ASSUME JobCount < Len(q) PROVE FALSE
  BY <1>1
<1>3. q \in [1 .. Len(q) -> Nodes]
  BY LenProperties
<1>4. PICK i \in 1 .. Len(q), j \in 1 .. Len(q) : i # j /\ q[i] = q[j]
  <2> DEFINE S == 1 .. Len(q)
  <2>1. IsFiniteSet(S) /\ Cardinality(Nodes) < Cardinality(S) /\ q \in [S -> Nodes]
    BY <1>2, <1>3
  <2> HIDE DEF S
  <2>2. \E x, y \in S : x # y /\ q[x] = q[y]
    BY <1>2, <2>1, FS_PigeonHole
  <2> QED BY <2>2 DEF S
<1> QED BY <1>4

\* The walk of JobQueue gives the list.
ListWalked == \A q : InJobQueue(q) => JobQueue = q

LEMMA WalkGivesList == ListWalked
<1> SUFFICES ASSUME NEW q, InJobQueue(q) PROVE JobQueue = q
  BY DEF ListWalked
<1> DEFINE n == Len(q)
<1>1. /\ q \in Seq(Nodes) /\ n \in Nat /\ JobCount \in Nat /\ n <= JobCount
      /\ \A i \in 1 .. n : q[i] \in Nodes /\ q[i] # Null
  <2>1. q \in Seq(Nodes) /\ \A i, j \in 1 .. n : q[i] = q[j] => i = j
    BY DEF InJobQueue
  <2>2. \A i \in 1 .. n : q[i] \in Nodes
    BY <2>1, ElementOfSeq
  <2> QED BY <2>1, <2>2, NoMoreThanNodes, LenProperties, RoundRobinAssumption DEF Nodes
<1>2. ASSUME NEW k \in 0 .. n - 1 PROVE Along[k] = q[k + 1]
  <2> DEFINE T == {i \in Nat : i <= n - 1 /\ Along[i] # q[i + 1]}
  <2> SUFFICES ASSUME T # {} PROVE FALSE
    BY <1>1
  <2>1. PICK i \in T : \A y \in T : i <= y
    BY LeastNat
  <2>2. i \in Nat /\ i <= n - 1 /\ Along[i] # q[i + 1]
    OBVIOUS
  <2>3. i # 0
    <3>1. n > 0
      BY <1>1, <2>2
    <3>2. Along[0] = q[0 + 1]
      BY <3>1, AlongUnfolds DEF InJobQueue
    <3> QED BY <2>2, <3>2
  <2>4. /\ i - 1 \in Nat /\ ~(i <= i - 1) /\ (i - 1) + 1 = i /\ i - 1 <= n - 1
        /\ i \in 1 .. n - 1 /\ i \in 1 .. n /\ n \in 1 .. n /\ i # n
    BY <1>1, <2>2, <2>3
  <2>5. Along[i - 1] = q[i]
    <3>1. i - 1 \notin T
      BY <2>1, <2>4
    <3> QED BY <2>4, <3>1
  <2>6. Along[i] = Behind[q[i]]
    BY <2>4, <2>5, AlongUnfolds
  <2>7. q[i] # jobQueueTail
    BY <1>1, <2>4 DEF InJobQueue
  <2>8. Behind[q[i]] = nextNode[q[i]]
    BY <1>1, <2>4, <2>7 DEF Behind
  <2> QED BY <2>2, <2>4, <2>6, <2>8 DEF InJobQueue
<1>3. ASSUME NEW k \in Nat, k >= n PROVE Along[k] = Null
  <2> DEFINE T == {i \in Nat : i >= n /\ Along[i] # Null}
  <2> SUFFICES ASSUME T # {} PROVE FALSE
    BY <1>3
  <2>1. PICK i \in T : \A y \in T : i <= y
    BY LeastNat
  <2>2. i \in Nat /\ i >= n /\ Along[i] # Null
    OBVIOUS
  <2>3. CASE i = 0
    <3>1. n = 0
      BY <1>1, <2>2, <2>3
    <3> QED BY <2>2, <2>3, <3>1, AlongUnfolds DEF InJobQueue
  <2>4. CASE i # 0
    <3>1. i - 1 \in Nat /\ ~(i <= i - 1) /\ (i - 1) + 1 = i
      BY <2>2, <2>4
    <3>2. Along[i] = Behind[Along[i - 1]]
      BY <3>1, AlongUnfolds
    <3>3. CASE i = n
      <4>1. i - 1 \in 0 .. n - 1 /\ n \in 1 .. n /\ n > 0
        BY <1>1, <2>2, <2>4, <3>3
      <4>2. Along[i - 1] = q[n]
        BY <1>2, <3>1, <3>3, <4>1
      <4>3. q[n] = jobQueueTail /\ q[n] \in Nodes
        BY <1>1, <4>1 DEF InJobQueue
      <4> QED BY <2>2, <3>2, <4>2, <4>3 DEF Behind
    <3>4. CASE i # n
      <4>1. i - 1 >= n /\ i - 1 \notin T
        BY <1>1, <2>1, <2>2, <3>1, <3>4
      <4>2. Along[i - 1] = Null
        BY <3>1, <4>1
      <4> QED BY <2>2, <3>2, <4>2 DEF Behind
    <3> QED BY <3>3, <3>4
  <2> QED BY <2>3, <2>4
<1>4. {k \in 0 .. JobCount : Along[k] # Null} = 0 .. n - 1
  <2>1. ASSUME NEW k \in 0 .. n - 1 PROVE k \in 0 .. JobCount /\ Along[k] # Null
    <3>1. k + 1 \in 1 .. n /\ k \in 0 .. JobCount
      BY <1>1
    <3> QED BY <1>1, <1>2, <3>1
  <2>2. ASSUME NEW k \in 0 .. JobCount, Along[k] # Null PROVE k \in 0 .. n - 1
    <3>1. k \in Nat /\ ~(k >= n)
      BY <1>1, <1>3, <2>2
    <3> QED BY <1>1, <3>1
  <2> QED BY <2>1, <2>2
<1>5. Cardinality(0 .. n - 1) = n
  BY <1>1, Intervals
<1>6. JobQueue = [i \in 1 .. n |-> Along[i - 1]]
  BY <1>4, <1>5, Zenon DEF JobQueue
<1>7. \A i \in 1 .. n : Along[i - 1] = q[i]
  <2>1. ASSUME NEW i \in 1 .. n PROVE Along[i - 1] = q[i]
    <3>1. i - 1 \in 0 .. n - 1 /\ (i - 1) + 1 = i
      BY <1>1
    <3> QED BY <1>2, <3>1
  <2> QED BY <2>1
<1>8. q = [i \in 1 .. n |-> q[i]]
  BY <1>1, LenProperties
<1> HIDE DEF n
<1> QED BY <1>6, <1>7, <1>8, Zenon

\* Where the tail of the queue is.
LEMMA TailEntry ==
    ASSUME NEW q, InJobQueue(q)
    PROVE  /\ q \in Seq(Nodes) /\ Len(q) \in Nat
           /\ jobQueueTail = Null <=> Len(q) = 0
           /\ jobQueueHead = Null <=> Len(q) = 0
           /\ \A i \in 1 .. Len(q) : q[i] \in Nodes /\ q[i] # Null
<1>1. q \in Seq(Nodes) /\ Len(q) \in Nat
  BY LenProperties DEF InJobQueue
<1>2. \A i \in 1 .. Len(q) : q[i] \in Nodes /\ q[i] # Null
  BY <1>1, ElementOfSeq, RoundRobinAssumption DEF Nodes
<1>3. Len(q) > 0 => 1 \in 1 .. Len(q) /\ Len(q) \in 1 .. Len(q)
  BY <1>1
<1> QED BY <1>1, <1>2, <1>3 DEF InJobQueue

\* A new node goes to the end of the queue.
LEMMA FillKeeps ==
    ASSUME RRTypeOK, NEW q, QueuesOK(q), NEW time \in BurstTimes, Fill(time),
           NEW job, job = made + 1
    PROVE  RRTypeOK' /\ job \in Nodes /\ QueuesOK(Append(q, job))'
<1> DEFINE n == Len(q)
           more == Append(q, job)
<1>1. /\ stage = "filling" /\ made < JobCount /\ made \in Nat /\ JobCount \in Nat
      /\ stage' = stage /\ made' = made + 1 /\ readyQueueTail' = readyQueueTail
      /\ readyQueueTail = Null
  BY RoundRobinAssumption DEF Fill, RRTypeOK, QueuesOK
<1>2. job \in Nodes /\ job # Null /\ ~(job <= made)
  BY <1>1, RoundRobinAssumption DEF Nodes
<1>3. /\ q \in Seq(Nodes) /\ n \in Nat /\ (jobQueueTail = Null <=> n = 0)
      /\ \A i \in 1 .. n : q[i] \in Nodes /\ q[i] # Null /\ q[i] <= made /\ q[i] # job
  BY <1>1, <1>2, TailEntry DEF QueuesOK
<1>4. /\ more \in Seq(Nodes) /\ Len(more) = n + 1 /\ more[n + 1] = job
      /\ \A i \in 1 .. n : more[i] = q[i]
  BY <1>2, <1>3, AppendProperties
<1>5. /\ jobQueueHead' = (IF jobQueueTail = Null THEN job ELSE jobQueueHead)
      /\ jobQueueTail' = job
      /\ nextNode' = (IF jobQueueTail = Null THEN nextNode
                      ELSE [nextNode EXCEPT ![jobQueueTail] = job])
      /\ burstTime' = [burstTime EXCEPT ![job] = time]
  BY DEF Fill, SetJobQueue, Inserted, Linked
<1>6. RRTypeOK'
  <2>1. nextNode' \in [Nodes -> Nodes \cup {Null}] /\ burstTime' \in [Nodes -> Int]
    BY <1>2, <1>5, RoundRobinAssumption DEF RRTypeOK
  <2>2. made' \in 0 .. JobCount
    BY <1>1
  <2> QED BY <1>1, <2>1, <2>2 DEF RRTypeOK
<1> HIDE DEF more
<1>7. jobQueueHead' = more[1] /\ jobQueueTail' = more[n + 1]
  <2>1. CASE n = 0
    BY <1>3, <1>4, <1>5, <2>1
  <2>2. CASE n # 0
    <3>1. n > 0 /\ 1 \in 1 .. n
      BY <1>3, <2>2
    <3>2. jobQueueHead = q[1]
      BY <3>1 DEF QueuesOK, InJobQueue
    <3> QED BY <1>3, <1>4, <1>5, <2>2, <3>1, <3>2
  <2> QED BY <2>1, <2>2
<1>8. ASSUME NEW i \in 1 .. n PROVE nextNode'[more[i]] = more[i + 1]
  <2>1. n > 0 /\ n \in 1 .. n /\ jobQueueTail = q[n] /\ jobQueueTail # Null
    <3>1. n > 0 /\ n \in 1 .. n
      BY <1>3
    <3> QED BY <1>3, <3>1 DEF QueuesOK, InJobQueue
  <2>2. nextNode' = [nextNode EXCEPT ![q[n]] = job]
    BY <1>5, <2>1
  <2>3. CASE i = n
    BY <1>3, <1>4, <2>1, <2>2, <2>3 DEF RRTypeOK
  <2>4. CASE i # n
    <3>1. i \in 1 .. n - 1 /\ i + 1 \in 1 .. n
      BY <1>3, <2>4
    <3>2. q[i] # q[n] /\ nextNode[q[i]] = q[i + 1]
      BY <2>1, <2>4, <3>1 DEF QueuesOK, InJobQueue
    <3>3. nextNode'[q[i]] = q[i + 1]
      BY <1>3, <2>2, <3>2 DEF RRTypeOK
    <3> QED BY <1>4, <3>1, <3>3
  <2> QED BY <2>3, <2>4
<1>9. ASSUME NEW i \in 1 .. n + 1, NEW j \in 1 .. n + 1, more[i] = more[j] PROVE i = j
  <2>1. \A k \in 1 .. n + 1 : k = n + 1 \/ k \in 1 .. n
    BY <1>3
  <2>2. i \in 1 .. n /\ j \in 1 .. n => q[i] = q[j] /\ i = j
    BY <1>4, <1>9 DEF QueuesOK, InJobQueue
  <2> QED BY <1>3, <1>4, <1>9, <2>1, <2>2
<1>10. InJobQueue(more)'
  <2>1. Len(more) > 0 /\ Len(more) - 1 = n
    BY <1>3, <1>4
  <2>2. \A i, j \in 1 .. Len(more) : more[i] = more[j] => i = j
    BY <1>4, <1>9
  <2>3. \A i \in 1 .. Len(more) - 1 : nextNode'[more[i]] = more[i + 1]
    BY <1>8, <2>1
  <2>4. /\ Len(more) = 0 => jobQueueHead' = Null /\ jobQueueTail' = Null
        /\ Len(more) > 0 => jobQueueHead' = more[1] /\ jobQueueTail' = more[Len(more)]
    BY <1>4, <1>7, <2>1
  <2> QED BY <1>4, <2>2, <2>3, <2>4 DEF InJobQueue
<1>11. \A i \in 1 .. n + 1 : more[i] <= made'
  <2>1. \A k \in 1 .. n + 1 : k = n + 1 \/ k \in 1 .. n
    BY <1>3
  <2>2. \A k \in 1 .. n : q[k] <= made + 1
    <3>1. ASSUME NEW k \in 1 .. n PROVE q[k] <= made + 1
      <4>1. q[k] \in Nodes /\ q[k] <= made
        BY <1>3
      <4> QED BY <1>1, <4>1 DEF Nodes
    <3> QED BY <3>1
  <2>3. job <= made + 1
    BY <1>1
  <2> QED BY <1>1, <1>4, <2>1, <2>2, <2>3
<1>12. ReadyApart(more)'
  <2>1. \A i \in 1 .. n + 1 : more[i] # Null
    <3>1. \A i \in 1 .. n + 1 : more[i] \in Nodes
      BY <1>4, ElementOfSeq
    <3> QED BY <3>1, RoundRobinAssumption DEF Nodes
  <2>2. Len(more) - 1 = n /\ \A i \in 1 .. n : i \in 1 .. n + 1
    <3> DEFINE l == Len(more)
    <3>1. l = n + 1
      BY <1>4
    <3> HIDE DEF l
    <3> QED BY <1>3, <3>1 DEF l
  <2>3. \A i \in 1 .. Len(more) - 1 : more[i] # readyQueueTail'
    BY <1>1, <2>1, <2>2
  <2> QED BY <1>1, <2>3 DEF ReadyApart
<1>13. QueuesOK(more)'
  BY <1>1, <1>4, <1>10, <1>11, <1>12 DEF QueuesOK
<1> QED BY <1>2, <1>6, <1>13 DEF more


\* The queue without its first node, and with it at the end.
LEMMA TailFacts ==
    ASSUME NEW q \in Seq(Nodes), Len(q) > 0
    PROVE  /\ Tail(q) \in Seq(Nodes) /\ Len(Tail(q)) = Len(q) - 1 /\ q[1] \in Nodes
           /\ \A i \in 1 .. Len(q) - 1 : Tail(q)[i] = q[i + 1]
           /\ Append(Tail(q), q[1]) \in Seq(Nodes) /\ Len(Append(Tail(q), q[1])) = Len(q)
           /\ \A i \in 1 .. Len(q) - 1 : Append(Tail(q), q[1])[i] = q[i + 1]
           /\ Append(Tail(q), q[1])[Len(q)] = q[1]
<1>1. Len(q) \in Nat /\ 1 \in 1 .. Len(q)
  BY LenProperties
<1>2. q[1] \in Nodes /\ q # <<>>
  BY <1>1, ElementOfSeq, EmptySeq
<1>3. /\ Tail(q) \in Seq(Nodes) /\ Len(Tail(q)) = Len(q) - 1
      /\ \A i \in 1 .. Len(q) - 1 : Tail(q)[i] = q[i + 1]
  BY <1>2, HeadTailProperties
<1> DEFINE t == Tail(q)
<1> HIDE DEF t
<1>4. t \in Seq(Nodes) /\ Len(t) = Len(q) - 1
  BY <1>3 DEF t
<1>5. /\ Append(t, q[1]) \in Seq(Nodes) /\ Len(Append(t, q[1])) = Len(t) + 1
      /\ \A i \in 1 .. Len(t) : Append(t, q[1])[i] = t[i]
      /\ Append(t, q[1])[Len(t) + 1] = q[1]
  BY <1>2, <1>4, AppendProperties
<1>6. Len(t) + 1 = Len(q)
  BY <1>1, <1>4
<1> QED BY <1>2, <1>3, <1>4, <1>5, <1>6 DEF t

\* The first node goes to the end if it is not done; the link that the ready queue writes is then
\* the same, or one that the job queue does not run along.
LEMMA TurnKeeps ==
    ASSUME RRTypeOK, NEW q, QueuesOK(q), Serve, Left(q[1]) > 0, Len(q) > 0, jobQueueHead = q[1]
    PROVE  QueuesOK(Append(Tail(q), q[1]))' /\ nextNode' \in [Nodes -> Nodes \cup {Null}]
<1> DEFINE n == Len(q)
           job == q[1]
           more == Append(Tail(q), q[1])
<1>1. /\ q \in Seq(Nodes) /\ n \in Nat /\ n > 0 /\ 1 \in 1 .. n /\ n \in 1 .. n
      /\ \A i \in 1 .. n : q[i] \in Nodes /\ q[i] # Null
  <2>1. q \in Seq(Nodes) /\ n \in Nat /\ \A i \in 1 .. n : q[i] \in Nodes /\ q[i] # Null
    BY TailEntry DEF QueuesOK
  <2> QED BY <2>1
<1>2. /\ more \in Seq(Nodes) /\ Len(more) = n
      /\ \A i \in 1 .. n - 1 : more[i] = q[i + 1]
      /\ more[n] = job
  BY <1>1, TailFacts
<1>3. /\ jobQueueTail = q[n] /\ jobQueueHead = job
      /\ \A i \in 1 .. n - 1 : nextNode[q[i]] = q[i + 1]
      /\ \A i, j \in 1 .. n : q[i] = q[j] => i = j
  BY <1>1 DEF QueuesOK, InJobQueue
<1>4. job = q[n] <=> n = 1
  BY <1>1, <1>3
<1>5. /\ readyQueueTail' = job /\ stage' = "serving"
      /\ jobQueueTail' = job
      /\ jobQueueHead' = (IF n = 1 THEN job ELSE nextNode[job])
      /\ nextNode' = Linked(Linked(nextNode, IF n = 1 THEN Null ELSE q[n], job), readyQueueTail, job)
  <2>1. Removed(jobQueueHead, jobQueueTail) =
            [head |-> IF n = 1 THEN Null ELSE nextNode[job], tail |-> IF n = 1 THEN Null ELSE q[n]]
    BY <1>3, <1>4 DEF Removed
  <2>2. q[n] # Null
    BY <1>1
  <2> QED BY <1>3, <2>1, <2>2 DEF Serve, SetJobQueue, SetReadyQueue, Inserted
<1>6. job \in Nodes /\ job # Null /\ readyQueueTail \in Nodes \cup {Null}
  BY <1>1 DEF QueuesOK, ReadyApart
<1>7. /\ nextNode' \in [Nodes -> Nodes \cup {Null}]
      /\ n # 1 => nextNode'[q[n]] = job
      /\ \A m \in Nodes : m # q[n] /\ m # readyQueueTail => nextNode'[m] = nextNode[m]
  <2>1. nextNode \in [Nodes -> Nodes \cup {Null}] /\ q[n] \in Nodes /\ q[n] # Null
    BY <1>1 DEF RRTypeOK
  <2> QED BY <1>5, <1>6, <2>1 DEF Linked
<1> HIDE DEF more
<1>8. jobQueueHead' = more[1]
  <2>1. CASE n = 1
    BY <1>2, <1>5, <2>1
  <2>2. CASE n # 1
    <3>1. 1 \in 1 .. n - 1 /\ 1 + 1 = 2
      BY <1>1, <2>2
    <3> QED BY <1>2, <1>3, <1>5, <2>2, <3>1
  <2> QED BY <2>1, <2>2
<1>9. ASSUME NEW i \in 1 .. n - 1 PROVE nextNode'[more[i]] = more[i + 1]
  <2>1. i + 1 \in 1 .. n /\ n # 1 /\ more[i] = q[i + 1]
    BY <1>1, <1>2
  <2>2. CASE i = n - 1
    <3>1. i + 1 = n
      BY <1>1, <2>2
    <3> QED BY <1>2, <1>7, <2>1, <3>1
  <2>3. CASE i # n - 1
    <3>1. i + 1 \in 1 .. n - 1 /\ i + 1 # n
      BY <1>1, <2>3
    <3>2. q[i + 1] # readyQueueTail /\ q[i + 1] # q[n] /\ q[i + 1] \in Nodes
      BY <1>1, <1>3, <3>1 DEF QueuesOK, ReadyApart
    <3>3. nextNode'[q[i + 1]] = nextNode[q[i + 1]]
      BY <1>7, <3>2
    <3>4. more[i + 1] = q[(i + 1) + 1]
      BY <1>2, <3>1
    <3> QED BY <1>3, <2>1, <3>1, <3>3, <3>4
  <2> QED BY <2>2, <2>3
<1>10. ASSUME NEW i \in 1 .. n, NEW j \in 1 .. n, more[i] = more[j] PROVE i = j
  <2>1. \A k \in 1 .. n : k = n \/ (k \in 1 .. n - 1 /\ k + 1 \in 1 .. n /\ k + 1 # 1)
    BY <1>1
  <2>2. \A k \in 1 .. n - 1 : more[k] # job
    <3>1. ASSUME NEW k \in 1 .. n - 1 PROVE more[k] # job
      <4>1. k + 1 \in 1 .. n /\ k + 1 # 1
        BY <1>1
      <4> QED BY <1>1, <1>2, <1>3, <4>1
    <3> QED BY <3>1
  <2>3. CASE i = n \/ j = n
    BY <1>2, <1>10, <2>1, <2>2, <2>3
  <2>4. CASE i # n /\ j # n
    <3>1. q[i + 1] = q[j + 1] /\ i + 1 \in 1 .. n /\ j + 1 \in 1 .. n
      BY <1>2, <1>10, <2>1, <2>4
    <3>2. i + 1 = j + 1
      BY <1>3, <3>1
    <3> QED BY <1>1, <3>2
  <2> QED BY <2>3, <2>4
<1>11. InJobQueue(more)'
  BY <1>1, <1>2, <1>5, <1>8, <1>9, <1>10 DEF InJobQueue
<1>12. ReadyApart(more)'
  <2>1. \A i \in 1 .. n - 1 : more[i] # job
    <3>1. ASSUME NEW i \in 1 .. n - 1 PROVE more[i] # job
      <4>1. i \in 1 .. n /\ i # n
        BY <1>1
      <4> QED BY <1>1, <1>2, <1>10, <4>1
    <3> QED BY <3>1
  <2> QED BY <1>2, <1>5, <1>6, <2>1 DEF ReadyApart
<1>13. QueuesOK(more)'
  BY <1>5, <1>11, <1>12 DEF QueuesOK
<1> QED BY <1>7, <1>13 DEF more

\* The first node leaves the queue when it is done.
LEMMA DoneKeeps ==
    ASSUME RRTypeOK, NEW q, QueuesOK(q), Serve, ~(Left(q[1]) > 0), Len(q) > 0, jobQueueHead = q[1]
    PROVE  QueuesOK(Tail(q))' /\ nextNode' = nextNode
<1> DEFINE n == Len(q)
           t == Tail(q)
<1>1. /\ q \in Seq(Nodes) /\ n \in Nat /\ n > 0 /\ 1 \in 1 .. n /\ n \in 1 .. n
      /\ \A i \in 1 .. n : q[i] \in Nodes /\ q[i] # Null
  <2>1. q \in Seq(Nodes) /\ n \in Nat /\ \A i \in 1 .. n : q[i] \in Nodes /\ q[i] # Null
    BY TailEntry DEF QueuesOK
  <2> QED BY <2>1
<1>2. t \in Seq(Nodes) /\ Len(t) = n - 1 /\ \A i \in 1 .. n - 1 : t[i] = q[i + 1]
  BY <1>1, TailFacts
<1>3. /\ jobQueueTail = q[n] /\ jobQueueHead = q[1]
      /\ \A i \in 1 .. n - 1 : nextNode[q[i]] = q[i + 1]
      /\ \A i, j \in 1 .. n : q[i] = q[j] => i = j
  BY <1>1 DEF QueuesOK, InJobQueue
<1>4. q[1] = q[n] <=> n = 1
  BY <1>1, <1>3
<1>5. /\ readyQueueTail' = readyQueueTail /\ nextNode' = nextNode /\ stage' = "serving"
      /\ jobQueueTail' = (IF n = 1 THEN Null ELSE q[n])
      /\ jobQueueHead' = (IF n = 1 THEN Null ELSE nextNode[q[1]])
  BY <1>3, <1>4 DEF Serve, SetJobQueue, Removed
<1> HIDE DEF t
<1>6. CASE n = 1
  <2>1. Len(t) = 0 /\ 1 .. 0 = {} /\ 1 .. Len(t) - 1 = {}
    BY <1>2, <1>6
  <2>2. InJobQueue(t)' /\ ReadyApart(t)'
    BY <1>2, <1>5, <1>6, <2>1 DEF InJobQueue, ReadyApart, QueuesOK
  <2>3. QueuesOK(t)'
    BY <1>5, <2>2 DEF QueuesOK
  <2> QED BY <1>5, <2>3 DEF t
<1>7. CASE n # 1
  <2>1. /\ Len(t) > 0 /\ 1 \in 1 .. n - 1 /\ n - 1 \in 1 .. n - 1 /\ (n - 1) + 1 = n /\ 1 + 1 = 2
        /\ \A i \in 1 .. (n - 1) - 1 : i \in 1 .. n - 1 /\ i + 1 \in 1 .. n - 1
        /\ \A i \in 1 .. n - 1 : i + 1 \in 1 .. n
    BY <1>1, <1>2, <1>7
  <2>2. jobQueueHead' = t[1] /\ jobQueueTail' = t[Len(t)]
    BY <1>2, <1>3, <1>5, <1>7, <2>1
  <2>3. \A i \in 1 .. (n - 1) - 1 : nextNode[t[i]] = t[i + 1] /\ t[i] # readyQueueTail
    <3>1. ASSUME NEW i \in 1 .. (n - 1) - 1
          PROVE  nextNode[t[i]] = t[i + 1] /\ t[i] # readyQueueTail
      <4>1. t[i] = q[i + 1] /\ t[i + 1] = q[(i + 1) + 1] /\ i + 1 \in 1 .. n - 1
        BY <1>2, <2>1
      <4>2. q[i + 1] # readyQueueTail
        BY <4>1 DEF QueuesOK, ReadyApart
      <4> QED BY <1>3, <4>1, <4>2
    <3> QED BY <3>1
  <2>4. ASSUME NEW i \in 1 .. n - 1, NEW j \in 1 .. n - 1, t[i] = t[j] PROVE i = j
    <3>1. i + 1 = j + 1
      BY <1>2, <1>3, <2>1, <2>4
    <3> QED BY <1>1, <3>1
  <2>5. InJobQueue(t)'
    BY <1>2, <1>5, <2>1, <2>2, <2>3, <2>4 DEF InJobQueue
  <2>6. ReadyApart(t)'
    BY <1>2, <1>5, <2>3 DEF ReadyApart, QueuesOK
  <2>7. QueuesOK(t)'
    BY <1>5, <2>5, <2>6 DEF QueuesOK
  <2> QED BY <1>5, <2>7 DEF t
<1> QED BY <1>6, <1>7

\* Every step keeps the lists, and is a step of the scheduler or none.
LEMMA RoundRobinStep ==
    ASSUME ListWalked, ListWalked', RRInv, [RoundRobinNext]_rrVars
    PROVE  RRInv' /\ [RunQueueOf!Next]_<<JobQueue, burstTime>>
<1>1. RRTypeOK
  BY DEF RRInv
<1>2. PICK q : QueuesOK(q)
  BY DEF RRInv
<1>3. JobQueue = q
  BY <1>2 DEF ListWalked, QueuesOK
<1>4. CASE \E time \in BurstTimes : Fill(time)
  <2>1. PICK time \in BurstTimes : Fill(time)
    BY <1>4
  <2>2. PICK job : job = made + 1
    OBVIOUS
  <2>3. RRTypeOK' /\ job \in Nodes /\ QueuesOK(Append(q, job))'
    BY <1>1, <1>2, <2>1, <2>2, FillKeeps
  <2>4. burstTime' = [burstTime EXCEPT ![job] = time]
    BY <2>1, <2>2 DEF Fill
  <2>5. JobQueue' = Append(q, job)
    BY <2>3 DEF ListWalked, QueuesOK
  <2>6. RunQueueOf!Enter(job, time)
    BY <1>3, <2>4, <2>5 DEF RunQueueOf!Enter
  <2> QED BY <2>1, <2>3, <2>6 DEF RRInv, RunQueueOf!Next
<1>5. CASE Serve
  <2>1. q \in Seq(Nodes) /\ Len(q) > 0 /\ jobQueueHead = q[1] /\ q[1] \in Nodes /\ Len(q) \in Nat
    <3>1. jobQueueHead # Null
      BY <1>5 DEF Serve
    <3>2. /\ q \in Seq(Nodes) /\ Len(q) \in Nat /\ Len(q) # 0
          /\ \A i \in 1 .. Len(q) : q[i] \in Nodes
      BY <1>2, <3>1, TailEntry DEF QueuesOK
    <3>3. Len(q) > 0 /\ 1 \in 1 .. Len(q)
      BY <3>2
    <3> QED BY <1>2, <3>2, <3>3 DEF QueuesOK, InJobQueue
  <2>2. q # <<>> /\ Head(q) = q[1]
    BY <2>1, EmptySeq
  <2>3. /\ burstTime' = [burstTime EXCEPT ![q[1]] = @ - TimeSlice]
        /\ burstTime'[q[1]] = Left(q[1]) /\ burstTime' \in [Nodes -> Int]
        /\ stage' = stage /\ made' = made
    BY <1>1, <1>5, <2>1, RoundRobinAssumption DEF Serve, Left, RRTypeOK
  <2>4. PICK r : r = IF Left(q[1]) > 0 THEN Append(Tail(q), q[1]) ELSE Tail(q)
    OBVIOUS
  <2>5. QueuesOK(r)' /\ nextNode' \in [Nodes -> Nodes \cup {Null}]
    <3>1. CASE Left(q[1]) > 0
      BY <1>1, <1>2, <1>5, <2>1, <2>4, <3>1, TurnKeeps
    <3>2. CASE ~(Left(q[1]) > 0)
      BY <1>1, <1>2, <1>5, <2>1, <2>4, <3>2, DoneKeeps DEF RRTypeOK
    <3> QED BY <3>1, <3>2
  <2>6. RRTypeOK'
    BY <1>1, <2>3, <2>5 DEF RRTypeOK
  <2>7. JobQueue' = r
    BY <2>5 DEF ListWalked, QueuesOK
  <2>8. RunQueueOf!Serve
    BY <1>3, <2>2, <2>3, <2>4, <2>7 DEF RunQueueOf!Serve
  <2> QED BY <2>5, <2>6, <2>8 DEF RRInv, RunQueueOf!Next
<1>6. CASE StartFilling \/ Filled \/ Served \/ UNCHANGED rrVars
  <2>1. /\ UNCHANGED <<made, queueVars, burstTime>>
        /\ stage' \in {"filling", "serving", "printing", stage}
        /\ stage' = "filling" => stage \in {"off", "filling"}
    BY <1>6 DEF StartFilling, Filled, Served, rrVars
  <2>2. RRTypeOK'
    BY <1>1, <2>1 DEF RRTypeOK, queueVars
  <2>3. QueuesOK(q)'
    BY <1>2, <2>1 DEF QueuesOK, InJobQueue, ReadyApart, queueVars
  <2>4. JobQueue' = q
    BY <2>3 DEF ListWalked, QueuesOK
  <2> QED BY <1>3, <2>1, <2>2, <2>3, <2>4 DEF RRInv
<1> QED BY <1>4, <1>5, <1>6 DEF RoundRobinNext

\* RoundRobin's IsRoundRobin: for any number of processes, any burst times and any quantum, the
\* jobs get their turns in the order of a queue, although the second list is threaded through the
\* links of the first (roundRobinScheduling_Skeleton.c:45, 78, 113).
THEOREM TakesTurns == RoundRobinSpec => IsRoundRobin
<1>1. RoundRobinInit => RRInv
  <2> SUFFICES ASSUME RoundRobinInit PROVE RRInv
    OBVIOUS
  <2>1. <<>> \in Seq(Nodes) /\ Len(<<>>) = 0 /\ 1 .. 0 = {} /\ 1 .. 0 - 1 = {}
    BY EmptySeq
  <2>2. InJobQueue(<<>>) /\ ReadyApart(<<>>)
    BY <2>1 DEF RoundRobinInit, InJobQueue, ReadyApart
  <2>3. QueuesOK(<<>>)
    BY <2>1, <2>2 DEF RoundRobinInit, QueuesOK
  <2>4. RRTypeOK
    BY RoundRobinAssumption DEF RoundRobinInit, RRTypeOK
  <2> QED BY <2>3, <2>4 DEF RRInv
<1>2. RoundRobinInit => RunQueueOf!Init
  <2> SUFFICES ASSUME RoundRobinInit PROVE RunQueueOf!Init
    OBVIOUS
  <2>1. <<>> \in Seq(Nodes) /\ Len(<<>>) = 0 /\ 1 .. 0 = {} /\ 1 .. 0 - 1 = {}
    BY EmptySeq
  <2>2. InJobQueue(<<>>)
    BY <2>1 DEF RoundRobinInit, InJobQueue
  <2>3. JobQueue = <<>>
    BY <2>2, WalkGivesList DEF ListWalked
  <2> QED BY <2>3 DEF RoundRobinInit, RunQueueOf!Init
<1>3. RRInv /\ [RoundRobinNext]_rrVars => RRInv' /\ [RunQueueOf!Next]_<<JobQueue, burstTime>>
  <2>1. ListWalked /\ ListWalked'
    BY WalkGivesList, PTL
  <2> QED BY <2>1, RoundRobinStep
<1> QED BY <1>1, <1>2, <1>3, PTL DEF RoundRobinSpec, IsRoundRobin, RunQueueOf!Spec
=============================================================================
