----------------------------- MODULE DataLemmas -----------------------------
(***************************************************************************)
(* Facts about numbers and sequences that the proofs of several components *)
(* need and the library does not state.                                    *)
(***************************************************************************)
EXTENDS Naturals, Sequences, SequenceTheorems, WellFoundedInduction, TLAPS

\* Every set of naturals that is not empty has a least element.
LEMMA LeastNat ==
    ASSUME NEW T \in SUBSET Nat, T # {}
    PROVE  \E x \in T : \A y \in T : x <= y
<1> DEFINE R == OpToRel(<, Nat)
<1>1. PICK x \in T : \A y \in T : ~ (<<y, x>> \in R)
  <2> HIDE DEF R
  <2> QED BY WFMin, NatLessThanWellFounded DEF R
<1>2. \A y \in T : <<y, x>> \in R <=> y < x
  BY DEF OpToRel
<1> HIDE DEF R
<1>3. \A y \in T : ~ (y < x)
  BY <1>1, <1>2, Zenon
<1>4. x \in Nat /\ \A y \in T : y \in Nat
  OBVIOUS
<1>5. \A y \in T : x <= y
  BY <1>3, <1>4
<1> QED BY <1>5

\* Taking the first element away leaves the last one the last.
LEMMA LastOfTail ==
    ASSUME NEW S, NEW s \in Seq(S), s # <<>>
    PROVE  /\ Len(s) = 1 => Tail(s) = <<>> /\ Head(s) = s[Len(s)]
           /\ Len(s) # 1 => Tail(s) # <<>> /\ Tail(s)[Len(Tail(s))] = s[Len(s)]
<1> DEFINE t == Tail(s)
<1>1. Len(s) \in Nat \ {0} /\ Head(s) = s[1]
  BY EmptySeq
<1>2. /\ t \in Seq(S) /\ Len(t) = Len(s) - 1
      /\ \A i \in 1 .. Len(t) : t[i] = s[i + 1]
  BY HeadTailProperties
<1> HIDE DEF t
<1>3. CASE Len(s) = 1
  <2>1. Len(t) = 0
    BY <1>2, <1>3
  <2>2. t = <<>>
    BY <1>2, <2>1, EmptySeq
  <2> QED BY <1>1, <1>3, <2>2 DEF t
<1>4. CASE Len(s) # 1
  <2>1. Len(t) \in 1 .. Len(t) /\ Len(t) + 1 = Len(s)
    BY <1>1, <1>2, <1>4
  <2>2. t[Len(t)] = s[Len(t) + 1]
    BY <1>2, <2>1
  <2>3. t # <<>>
    BY <2>1, EmptySeq
  <2> QED BY <1>4, <2>1, <2>2, <2>3 DEF t
<1> QED BY <1>3, <1>4

\* What is p further than k rounds of w has done k rounds, and what is not as far fewer.
LEMMA Rounds ==
    ASSUME NEW w \in Nat, w > 0, NEW k \in Nat, NEW p \in Nat, p < w, NEW x \in Nat, x = k * w + p
    PROVE  x \div w = k
OBVIOUS

LEMMA FewerRounds ==
    ASSUME NEW w \in Nat, w > 0, NEW k \in Nat, NEW x \in Nat, x < k * w
    PROVE  x \div w < k
OBVIOUS

-----------------------------------------------------------------------------
(* Sequences written as functions.                                         *)

LEMMA Written ==
    ASSUME NEW n \in Nat, NEW S, NEW f \in [1 .. n -> S]
    PROVE  f \in Seq(S) /\ Len(f) = n
OBVIOUS

LEMMA Appended ==
    ASSUME NEW n \in Nat, NEW S, NEW f \in [1 .. n -> S], NEW e \in S,
           NEW g \in [1 .. n + 1 -> S],
           \A i \in 1 .. n : g[i] = f[i], g[n + 1] = e
    PROVE  g = Append(f, e)
<1>1. f \in Seq(S) /\ Len(f) = n
  BY Written
<1>2. g \in Seq(S) /\ Len(g) = n + 1
  BY Written
<1>3. /\ Append(f, e) \in Seq(S) /\ Len(Append(f, e)) = n + 1
      /\ \A i \in 1 .. n : Append(f, e)[i] = f[i]
      /\ Append(f, e)[n + 1] = e
  BY <1>1, AppendProperties
<1>4. \A i \in 1 .. n + 1 : g[i] = Append(f, e)[i]
  BY <1>3
<1> QED BY <1>2, <1>3, <1>4, SeqEqual

LEMMA Tailed ==
    ASSUME NEW n \in Nat, n > 0, NEW S, NEW f \in [1 .. n -> S],
           NEW g \in [1 .. n - 1 -> S], \A i \in 1 .. n - 1 : g[i] = f[i + 1]
    PROVE  g = Tail(f)
<1>1. f \in Seq(S) /\ Len(f) = n /\ f # <<>>
  <2>1. f \in Seq(S) /\ Len(f) = n
    BY Written
  <2> QED BY <2>1
<1>2. g \in Seq(S) /\ Len(g) = n - 1
  BY Written
<1>3. /\ Tail(f) \in Seq(S) /\ Len(Tail(f)) = n - 1
      /\ \A i \in 1 .. n - 1 : Tail(f)[i] = f[i + 1]
  BY <1>1, HeadTailProperties
<1>4. \A i \in 1 .. n - 1 : g[i] = Tail(f)[i]
  BY <1>3
<1> QED BY <1>2, <1>3, <1>4, SeqEqual

-----------------------------------------------------------------------------
(* A ring of n slots that holds k items from its slot `first' on.          *)

Wrapped(n, x) == x % n

LEMMA Around ==
    ASSUME NEW n \in Nat, n > 0, NEW x \in Nat, x < 2 * n
    PROVE  x % n = IF x < n THEN x ELSE x - n
<1>1. CASE x < n
  BY <1>1
<1>2. CASE ~(x < n)
  <2>1. x = 1 * n + (x - n) /\ x - n \in 0 .. n - 1
    BY <1>2
  <2> QED BY <1>2, <2>1
<1> QED BY <1>1, <1>2

\* Once around the ring.
LEMMA Wraps ==
    \A n \in Nat : n > 0 => \A x \in Nat : x < 2 * n =>
        /\ Wrapped(n, x) = IF x < n THEN x ELSE x - n
        /\ Wrapped(n, x) \in 0 .. n - 1
<1> SUFFICES ASSUME NEW n \in Nat, n > 0, NEW x \in Nat, x < 2 * n
             PROVE  /\ Wrapped(n, x) = IF x < n THEN x ELSE x - n
                    /\ Wrapped(n, x) \in 0 .. n - 1
  OBVIOUS
<1>1. Wrapped(n, x) = IF x < n THEN x ELSE x - n
  BY Around DEF Wrapped
<1> QED BY <1>1

RingContent(slots, n, first, k) == [i \in 1 .. k |-> slots[Wrapped(n, first + i - 1)]]

FreeSlot(n, first, k) == Wrapped(n, first + k)

\* What the ring holds when an item more is in it, or when it has moved on by a slot.
OneMore(slots, n, first, k) == RingContent(slots, n, first, k + 1)
OneLess(slots, n, first, k) == RingContent(slots, n, Wrapped(n, first + 1), k - 1)

Rings(n, S) == [0 .. n - 1 -> S]

\* Different items are in different slots of the ring.
LEMMA SlotsDiffer ==
    ASSUME NEW n \in Nat, n > 0, NEW first \in 0 .. n - 1
    PROVE  \A i \in 1 .. n :
        /\ Wrapped(n, first + i - 1) \in 0 .. n - 1
        /\ \A j \in 1 .. n : i # j => Wrapped(n, first + i - 1) # Wrapped(n, first + j - 1)
<1>1. ASSUME NEW j \in 1 .. n
      PROVE  /\ Wrapped(n, first + j - 1) =
                    IF first + j - 1 < n THEN first + j - 1 ELSE first + j - 1 - n
             /\ Wrapped(n, first + j - 1) \in 0 .. n - 1
  <2>1. first + j - 1 \in Nat /\ first + j - 1 < 2 * n
    OBVIOUS
  <2> QED BY <2>1, Wraps
<1>2. ASSUME NEW i \in 1 .. n, NEW j \in 1 .. n, i # j
      PROVE  Wrapped(n, first + i - 1) # Wrapped(n, first + j - 1)
  <2> DEFINE a == Wrapped(n, first + i - 1)
             b == Wrapped(n, first + j - 1)
  <2>1. a = IF first + i - 1 < n THEN first + i - 1 ELSE first + i - 1 - n
    BY <1>1
  <2>2. b = IF first + j - 1 < n THEN first + j - 1 ELSE first + j - 1 - n
    BY <1>1
  <2> HIDE DEF a, b
  <2>3. a # b
    BY <1>2, <2>1, <2>2
  <2> QED BY <2>3 DEF a, b
<1> QED BY <1>1, <1>2

LEMMA RingType ==
    ASSUME NEW S, NEW n \in Nat, n > 0, NEW slots \in Rings(n, S),
           NEW first \in 0 .. n - 1, NEW k \in 0 .. n
    PROVE  RingContent(slots, n, first, k) \in [1 .. k -> S]
<1> USE DEF Rings
<1>1. \A i \in 1 .. k : i \in 1 .. n
  OBVIOUS
<1>2. \A i \in 1 .. k : Wrapped(n, first + i - 1) \in 0 .. n - 1
  BY <1>1, SlotsDiffer
<1> QED BY <1>2 DEF RingContent

\* An item written into the first free slot is at the end of the queue.
LEMMA RingPuts ==
    ASSUME NEW S, NEW n \in Nat, n > 0, NEW slots \in Rings(n, S),
           NEW first \in 0 .. n - 1, NEW k \in 0 .. n - 1, NEW e \in S,
           NEW after \in Rings(n, S), after[FreeSlot(n, first, k)] = e,
           \A j \in 0 .. n - 1 : j # FreeSlot(n, first, k) => after[j] = slots[j]
    PROVE  OneMore(after, n, first, k) = Append(RingContent(slots, n, first, k), e)
<1> USE DEF Rings, OneMore, FreeSlot
<1> DEFINE f == RingContent(slots, n, first, k)
           g == RingContent(after, n, first, k + 1)
<1>1. Wrapped(n, first + k) \in 0 .. n - 1 /\ first + k = first + (k + 1) - 1
  <2>1. first + k = first + (k + 1) - 1 /\ k + 1 \in 1 .. n
    OBVIOUS
  <2> QED BY <2>1, SlotsDiffer
<1>2. after \in [0 .. n - 1 -> S]
  OBVIOUS
<1>3. f \in [1 .. k -> S] /\ g \in [1 .. k + 1 -> S]
  <2>1. k \in 0 .. n /\ k + 1 \in 0 .. n
    OBVIOUS
  <2> HIDE DEF f, g
  <2>2. f \in [1 .. k -> S]
    BY <2>1, RingType DEF f
  <2>3. g \in [1 .. k + 1 -> S]
    BY <1>2, <2>1, RingType DEF g
  <2> QED BY <2>2, <2>3
<1>4. \A i \in 1 .. k : /\ Wrapped(n, first + i - 1) \in 0 .. n - 1
                        /\ Wrapped(n, first + i - 1) # Wrapped(n, first + k)
  <2>1. k + 1 \in 1 .. n /\ \A i \in 1 .. k : i \in 1 .. n /\ i # k + 1
    OBVIOUS
  <2>2. \A i \in 1 .. k : /\ Wrapped(n, first + i - 1) \in 0 .. n - 1
                          /\ Wrapped(n, first + i - 1) # Wrapped(n, first + (k + 1) - 1)
    BY <2>1, SlotsDiffer
  <2> QED BY <1>1, <2>2
<1>5. \A i \in 1 .. k : g[i] = f[i]
  BY <1>4 DEF RingContent
<1>6. g[k + 1] = e
  BY <1>1 DEF RingContent
<1> HIDE DEF f, g
<1>7. g = Append(f, e)
  BY <1>3, <1>5, <1>6, Appended
<1> QED BY <1>7 DEF f, g

\* When the ring moves on by one slot, the first item is gone from the queue, whatever
\* becomes of its slot.
LEMMA RingGets ==
    ASSUME NEW S, NEW n \in Nat, n > 0, NEW slots \in Rings(n, S),
           NEW first \in 0 .. n - 1, NEW k \in 1 .. n,
           NEW after \in Rings(n, S), \A j \in 0 .. n - 1 : j # first => after[j] = slots[j]
    PROVE  /\ RingContent(slots, n, first, k) # <<>>
           /\ OneLess(after, n, first, k) = Tail(RingContent(slots, n, first, k))
<1> USE DEF Rings, OneLess
<1> DEFINE f == RingContent(slots, n, first, k)
           second == Wrapped(n, first + 1)
           g == RingContent(after, n, second, k - 1)
<1>1. second = (IF first + 1 < n THEN first + 1 ELSE first + 1 - n) /\ second \in 0 .. n - 1
  BY Wraps
<1> HIDE DEF second
<1>2. f \in [1 .. k -> S] /\ g \in [1 .. k - 1 -> S]
  <2>1. k \in 0 .. n /\ k - 1 \in 0 .. n
    OBVIOUS
  <2> HIDE DEF f, g
  <2>2. f \in [1 .. k -> S]
    BY <2>1, RingType DEF f
  <2>3. g \in [1 .. k - 1 -> S]
    BY <1>1, <2>1, RingType DEF g
  <2> QED BY <2>2, <2>3
<1>3. ASSUME NEW i \in 1 .. k - 1 PROVE g[i] = f[i + 1]
  <2>1. Wrapped(n, second + i - 1) = IF second + i - 1 < n THEN second + i - 1 ELSE second + i - 1 - n
    BY <1>1, Wraps
  <2>2. Wrapped(n, first + i) = IF first + i < n THEN first + i ELSE first + i - n
    BY Wraps
  <2>3. first + (i + 1) - 1 = first + i
    OBVIOUS
  <2>4. Wrapped(n, second + i - 1) = Wrapped(n, first + i)
    BY <1>1, <2>1, <2>2
  <2>5. Wrapped(n, first + i) # first /\ Wrapped(n, first + i) \in 0 .. n - 1
    BY <2>2
  <2>6. after[Wrapped(n, first + i)] = slots[Wrapped(n, first + i)]
    BY <2>5
  <2> QED BY <2>3, <2>4, <2>6 DEF RingContent
<1> HIDE DEF f, g
<1>4. g = Tail(f)
  BY <1>2, <1>3, Tailed
<1>5. f # <<>>
  BY <1>2, Written
<1> QED BY <1>4, <1>5 DEF f, g, second

-----------------------------------------------------------------------------
(* A function that is applied again and again.                             *)

IsIteration(f, first, step) ==
    f = [n \in Nat |-> IF n = 0 THEN first ELSE step[f[n - 1]]]

Begins(g, n, first, step) ==
    /\ g[0] = first
    /\ \A k \in 0 .. n - 1 : g[k + 1] = step[g[k]]

LEMMA BeginningExists ==
    ASSUME NEW first, NEW step
    PROVE  \A n \in Nat : \E g : Begins(g, n, first, step)
<1> DEFINE T == {n \in Nat : ~\E g : Begins(g, n, first, step)}
<1> SUFFICES ASSUME T # {} PROVE FALSE
  OBVIOUS
<1>1. PICK m \in T : \A y \in T : m <= y
  BY LeastNat
<1>2. m \in Nat /\ ~\E g : Begins(g, m, first, step)
  OBVIOUS
<1> HIDE DEF T
<1>3. CASE m = 0
  <2>1. Begins([k \in {0} |-> first], m, first, step)
    BY <1>3 DEF Begins
  <2> QED BY <1>2, <2>1
<1>4. CASE m # 0
  <2>1. m - 1 \in Nat /\ ~(m <= m - 1)
    BY <1>2, <1>4
  <2>2. m - 1 \notin T
    BY <1>1, <2>1
  <2>3. PICK g : Begins(g, m - 1, first, step)
    BY <2>1, <2>2 DEF T
  <2> DEFINE h == [k \in 0 .. m |-> IF k = m THEN step[g[m - 1]] ELSE g[k]]
  <2>4. h[0] = first
    BY <1>2, <1>4, <2>3 DEF Begins
  <2>5. ASSUME NEW k \in 0 .. m - 1 PROVE h[k + 1] = step[h[k]]
    <3>1. CASE k = m - 1
      BY <1>2, <1>4, <3>1
    <3>2. CASE k # m - 1
      <4>1. k \in 0 .. (m - 1) - 1
        BY <1>2, <3>2
      <4>2. h[k] = g[k] /\ h[k + 1] = g[k + 1]
        BY <1>2, <4>1
      <4> QED BY <2>3, <4>1, <4>2 DEF Begins
    <3> QED BY <3>1, <3>2
  <2>6. Begins(h, m, first, step)
    BY <2>4, <2>5 DEF Begins
  <2> QED BY <1>2, <2>6
<1> QED BY <1>3, <1>4

LEMMA BeginningsAgree ==
    ASSUME NEW first, NEW step, NEW n \in Nat, NEW m \in Nat, NEW g, NEW h,
           Begins(g, n, first, step), Begins(h, m, first, step)
    PROVE  \A k \in Nat : k <= n /\ k <= m => g[k] = h[k]
<1> DEFINE T == {k \in Nat : k <= n /\ k <= m /\ g[k] # h[k]}
<1> SUFFICES ASSUME T # {} PROVE FALSE
  OBVIOUS
<1>1. PICK k \in T : \A y \in T : k <= y
  BY LeastNat
<1>2. k \in Nat /\ k <= n /\ k <= m /\ g[k] # h[k]
  OBVIOUS
<1>3. k # 0
  BY <1>2 DEF Begins
<1>4. /\ k - 1 \in Nat /\ k - 1 \in 0 .. n - 1 /\ k - 1 \in 0 .. m - 1
      /\ ~(k <= k - 1) /\ (k - 1) + 1 = k /\ k - 1 <= n /\ k - 1 <= m
  BY <1>2, <1>3
<1>5. g[k - 1] = h[k - 1]
  BY <1>1, <1>4
<1>6. g[k] = step[g[k - 1]] /\ h[k] = step[h[k - 1]]
  BY <1>4 DEF Begins
<1> QED BY <1>2, <1>5, <1>6

LEMMA IterationExists ==
    ASSUME NEW first, NEW step
    PROVE  \E f : IsIteration(f, first, step)
<1> DEFINE G(n) == CHOOSE g : Begins(g, n, first, step)
           f == [n \in Nat |-> G(n)[n]]
<1>1. \A n \in Nat : Begins(G(n), n, first, step)
  BY BeginningExists
<1>2. f[0] = first
  BY <1>1 DEF Begins
<1>3. ASSUME NEW n \in Nat, n # 0 PROVE f[n] = step[f[n - 1]]
  <2>1. n - 1 \in Nat /\ n - 1 \in 0 .. n - 1 /\ n - 1 <= n /\ (n - 1) + 1 = n
    BY <1>3
  <2>2. G(n)[n] = step[G(n)[n - 1]]
    BY <1>1, <2>1 DEF Begins
  <2>3. G(n)[n - 1] = G(n - 1)[n - 1]
    <3> HIDE DEF G
    <3> QED BY <1>1, <2>1, BeginningsAgree
  <2>4. f[n] = G(n)[n] /\ f[n - 1] = G(n - 1)[n - 1]
    BY <2>1
  <2> HIDE DEF f, G
  <2> QED BY <2>2, <2>3, <2>4
<1>4. f = [n \in Nat |-> IF n = 0 THEN first ELSE step[f[n - 1]]]
  <2>1. f = [n \in Nat |-> f[n]]
    OBVIOUS
  <2>2. \A n \in Nat : f[n] = IF n = 0 THEN first ELSE step[f[n - 1]]
    <3> HIDE DEF f
    <3> QED BY <1>2, <1>3
  <2> HIDE DEF f
  <2> QED BY <2>1, <2>2, Zenon
<1> QED BY <1>4 DEF IsIteration
=============================================================================
