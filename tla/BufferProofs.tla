----------------------------- MODULE BufferProofs ----------------------------
(***************************************************************************)
(* Why buffer.c and condition.c are bounded buffers, and why the threads of*)
(* condition.c never all sleep, for any number of producers, consumers and *)
(* slots.                                                                  *)
(***************************************************************************)
EXTENDS SemaphoreBuffer, ConditionBuffer, FiniteSetTheorems, DataLemmas

SemTypeOK ==
    /\ semProcess \in {"off", "running", "over"}
    /\ buffer \in [Slots -> SemItems \cup {0}]
    /\ insertPointer \in Slots /\ removePointer \in Slots
    /\ empty \in Nat /\ full \in Nat
    /\ semThread \in [SemThreads -> {"outside", "copying", "posting"}]

\* The insert pointer is as far ahead of the other as there are items in the ring.
PointersApart ==
    insertPointer = IF removePointer + Stored < SlotCount
                    THEN removePointer + Stored
                    ELSE removePointer + Stored - SlotCount

SemInv == SemTypeOK /\ SlotsAccounted /\ PointersApart

-----------------------------------------------------------------------------
\* Threads are counted by numbers.
LEMMA NumberType ==
    ASSUME NEW threads, IsFiniteSet(threads), NEW here
    PROVE  Number(threads, here) \in Nat
<1>1. IsFiniteSet({t \in threads : semThread[t] = here})
  BY FS_Subset
<1> QED BY <1>1, FS_CardinalityType DEF Number

\* A thread that moves is counted where it went and no longer where it was.
LEMMA NumberMoves ==
    ASSUME NEW threads \in SUBSET SemThreads, IsFiniteSet(threads), SemTypeOK,
           NEW t \in threads, NEW here, NEW there, SemMoves(t, here, there), here # there
    PROVE  /\ Number(threads, here)' = Number(threads, here) - 1
           /\ Number(threads, here) > 0
           /\ Number(threads, there)' = Number(threads, there) + 1
           /\ \A place : place \notin {here, there} =>
                  Number(threads, place)' = Number(threads, place)
<1> DEFINE At(place)    == {s \in threads : semThread[s] = place}
           AtNow(place) == {s \in threads : semThread'[s] = place}
<1>1. /\ semThread[t] = here /\ semThread'[t] = there
      /\ \A s \in threads : s # t => semThread'[s] = semThread[s]
  BY DEF SemMoves, SemTypeOK
<1>2. IsFiniteSet(At(here)) /\ IsFiniteSet(At(there))
  BY FS_Subset
<1>3. AtNow(here) = At(here) \ {t} /\ t \in At(here)
  BY <1>1
<1>4. AtNow(there) = At(there) \cup {t} /\ t \notin At(there)
  BY <1>1
<1>5. \A place : place \notin {here, there} => AtNow(place) = At(place)
  BY <1>1
<1>6. Cardinality(AtNow(here)) = Cardinality(At(here)) - 1
  BY <1>2, <1>3, FS_RemoveElement
<1>7. Cardinality(AtNow(there)) = Cardinality(At(there)) + 1
  BY <1>2, <1>4, FS_AddElement
<1>8. Cardinality(At(here)) > 0
  <2>1. Cardinality(At(here)) \in Nat /\ Cardinality(At(here)) # 0
    BY <1>2, <1>3, FS_CardinalityType, FS_EmptySet
  <2> QED BY <2>1
<1> QED BY <1>5, <1>6, <1>7, <1>8 DEF Number

\* The others are counted as before.
LEMMA NumberStays ==
    ASSUME NEW threads \in SUBSET SemThreads, SemTypeOK, NEW t, t \notin threads,
           NEW here, NEW there, SemMoves(t, here, there), NEW place
    PROVE  Number(threads, place)' = Number(threads, place)
<1>1. \A s \in threads : semThread'[s] = semThread[s]
  BY DEF SemMoves, SemTypeOK
<1>2. {s \in threads : semThread'[s] = place} = {s \in threads : semThread[s] = place}
  BY <1>1
<1> QED BY <1>2 DEF Number

-----------------------------------------------------------------------------
\* The two kinds of threads, and what they count.
LEMMA Kinds ==
    /\ IsFiniteSet(SemProducers) /\ SemProducers \in SUBSET SemThreads
    /\ IsFiniteSet(SemConsumers) /\ SemConsumers \in SUBSET SemThreads
    /\ SemProducers \cap SemConsumers = {}
    /\ SlotCount \in Nat /\ SlotCount > 0
BY SemaphoreAssumption DEF SemThreads

LEMMA Counts ==
    \A here : Number(SemProducers, here) \in Nat /\ Number(SemConsumers, here) \in Nat
BY Kinds, NumberType

\* A step of a producer counts for the producers only, and one of a consumer for the
\* consumers.
LEMMA ProducerCounts ==
    ASSUME SemTypeOK, NEW t \in SemProducers, NEW here, NEW there,
           SemMoves(t, here, there), here # there
    PROVE  /\ Number(SemProducers, here)' = Number(SemProducers, here) - 1
           /\ Number(SemProducers, here) > 0
           /\ Number(SemProducers, there)' = Number(SemProducers, there) + 1
           /\ \A place : place \notin {here, there} =>
                  Number(SemProducers, place)' = Number(SemProducers, place)
           /\ \A place : Number(SemConsumers, place)' = Number(SemConsumers, place)
<1>1. t \notin SemConsumers
  BY Kinds
<1>2. \A place : Number(SemConsumers, place)' = Number(SemConsumers, place)
  BY <1>1, Kinds, NumberStays
<1> QED BY <1>2, Kinds, NumberMoves

LEMMA ConsumerCounts ==
    ASSUME SemTypeOK, NEW t \in SemConsumers, NEW here, NEW there,
           SemMoves(t, here, there), here # there
    PROVE  /\ Number(SemConsumers, here)' = Number(SemConsumers, here) - 1
           /\ Number(SemConsumers, here) > 0
           /\ Number(SemConsumers, there)' = Number(SemConsumers, there) + 1
           /\ \A place : place \notin {here, there} =>
                  Number(SemConsumers, place)' = Number(SemConsumers, place)
           /\ \A place : Number(SemProducers, place)' = Number(SemProducers, place)
<1>1. t \notin SemProducers
  BY Kinds
<1>2. \A place : Number(SemProducers, place)' = Number(SemProducers, place)
  BY <1>1, Kinds, NumberStays
<1> QED BY <1>2, Kinds, NumberMoves

-----------------------------------------------------------------------------
(* The inductive invariant.                                                *)

LEMMA SemInitial == SemInit => SemInv /\ Stored = 0
<1> SUFFICES ASSUME SemInit PROVE SemInv /\ Stored = 0
  OBVIOUS
<1>1. \A here \in {"copying", "posting"} :
        Number(SemProducers, here) = 0 /\ Number(SemConsumers, here) = 0
  <2>1. \A here \in {"copying", "posting"} :
          /\ {t \in SemProducers : semThread[t] = here} = {}
          /\ {t \in SemConsumers : semThread[t] = here} = {}
    BY Kinds DEF SemInit
  <2> QED BY <2>1, FS_EmptySet DEF Number
<1>2. 0 \in Slots
  BY Kinds DEF Slots
<1>3. Stored = 0
  BY <1>1 DEF Stored, SemInit
<1>4. SemTypeOK
  BY <1>2, Kinds DEF SemInit, SemTypeOK
<1>5. SlotsAccounted
  BY <1>1, <1>3, Kinds DEF SemInit, SlotsAccounted
<1>6. PointersApart
  BY <1>3, Kinds DEF SemInit, PointersApart
<1> QED BY <1>3, <1>4, <1>5, <1>6 DEF SemInv

\* What moves a thread leaves typed.
LEMMA MovesType ==
    ASSUME SemTypeOK, NEW t, NEW here, NEW there \in {"outside", "copying", "posting"},
           SemMoves(t, here, there)
    PROVE  /\ semProcess' \in {"off", "running", "over"}
           /\ semThread' \in [SemThreads -> {"outside", "copying", "posting"}]
BY DEF SemMoves, SemTypeOK

LEMMA WaitEmptyStep ==
    ASSUME SemInv, NEW t \in SemProducers, WaitEmpty(t)
    PROVE  SemInv' /\ Stored' = Stored
<1> USE DEF SemInv
<1>1. SemMoves(t, "outside", "copying")
  BY DEF WaitEmpty
<1>2. /\ Number(SemProducers, "copying")' = Number(SemProducers, "copying") + 1
      /\ Number(SemProducers, "posting")' = Number(SemProducers, "posting")
      /\ Number(SemConsumers, "copying")' = Number(SemConsumers, "copying")
      /\ Number(SemConsumers, "posting")' = Number(SemConsumers, "posting")
  BY <1>1, ProducerCounts
<1>3. SemTypeOK'
  BY <1>1, MovesType DEF WaitEmpty, SemTypeOK, ringVars
<1>4. Stored' = Stored
  BY <1>2 DEF Stored, WaitEmpty
<1>5. SlotsAccounted'
  BY <1>2, <1>4, Counts, Kinds DEF SlotsAccounted, WaitEmpty, SemTypeOK, Stored
<1>6. PointersApart'
  BY <1>4 DEF PointersApart, WaitEmpty, ringVars
<1> QED BY <1>3, <1>4, <1>5, <1>6

LEMMA PostFullStep ==
    ASSUME SemInv, NEW t \in SemProducers, PostFull(t)
    PROVE  SemInv' /\ Stored' = Stored
<1> USE DEF SemInv
<1>1. SemMoves(t, "posting", "outside")
  BY DEF PostFull
<1>2. /\ Number(SemProducers, "copying")' = Number(SemProducers, "copying")
      /\ Number(SemProducers, "posting")' = Number(SemProducers, "posting") - 1
      /\ Number(SemConsumers, "copying")' = Number(SemConsumers, "copying")
      /\ Number(SemConsumers, "posting")' = Number(SemConsumers, "posting")
  BY <1>1, ProducerCounts
<1>3. SemTypeOK'
  BY <1>1, MovesType DEF PostFull, SemTypeOK, ringVars
<1>4. Stored' = Stored
  BY <1>2, Counts DEF Stored, PostFull, SemTypeOK
<1>5. SlotsAccounted'
  BY <1>2, <1>4, Counts, Kinds DEF SlotsAccounted, PostFull, SemTypeOK, Stored
<1>6. PointersApart'
  BY <1>4 DEF PointersApart, PostFull, ringVars
<1> QED BY <1>3, <1>4, <1>5, <1>6

LEMMA WaitFullStep ==
    ASSUME SemInv, NEW t \in SemConsumers, WaitFull(t)
    PROVE  SemInv' /\ Stored' = Stored
<1> USE DEF SemInv
<1>1. SemMoves(t, "outside", "copying")
  BY DEF WaitFull
<1>2. /\ Number(SemConsumers, "copying")' = Number(SemConsumers, "copying") + 1
      /\ Number(SemConsumers, "posting")' = Number(SemConsumers, "posting")
      /\ Number(SemProducers, "copying")' = Number(SemProducers, "copying")
      /\ Number(SemProducers, "posting")' = Number(SemProducers, "posting")
  BY <1>1, ConsumerCounts
<1>3. SemTypeOK'
  BY <1>1, MovesType DEF WaitFull, SemTypeOK, ringVars
<1>4. Stored' = Stored
  BY <1>2, Counts DEF Stored, WaitFull, SemTypeOK
<1>5. SlotsAccounted'
  BY <1>2, <1>4, Counts, Kinds DEF SlotsAccounted, WaitFull, SemTypeOK, Stored
<1>6. PointersApart'
  BY <1>4 DEF PointersApart, WaitFull, ringVars
<1> QED BY <1>3, <1>4, <1>5, <1>6

LEMMA PostEmptyStep ==
    ASSUME SemInv, NEW t \in SemConsumers, PostEmpty(t)
    PROVE  SemInv' /\ Stored' = Stored
<1> USE DEF SemInv
<1>1. SemMoves(t, "posting", "outside")
  BY DEF PostEmpty
<1>2. /\ Number(SemConsumers, "copying")' = Number(SemConsumers, "copying")
      /\ Number(SemConsumers, "posting")' = Number(SemConsumers, "posting") - 1
      /\ Number(SemProducers, "copying")' = Number(SemProducers, "copying")
      /\ Number(SemProducers, "posting")' = Number(SemProducers, "posting")
  BY <1>1, ConsumerCounts
<1>3. SemTypeOK'
  BY <1>1, MovesType DEF PostEmpty, SemTypeOK, ringVars
<1>4. Stored' = Stored
  BY <1>2 DEF Stored, PostEmpty
<1>5. SlotsAccounted'
  BY <1>2, <1>4, Counts, Kinds DEF SlotsAccounted, PostEmpty, SemTypeOK, Stored
<1>6. PointersApart'
  BY <1>4 DEF PointersApart, PostEmpty, ringVars
<1> QED BY <1>3, <1>4, <1>5, <1>6

\* A pointer that moves on stays in the ring.
LEMMA MovesOn ==
    ASSUME NEW s \in Slots
    PROVE  /\ (s + 1) % SlotCount = IF s + 1 < SlotCount THEN s + 1 ELSE 0
           /\ (s + 1) % SlotCount \in Slots
<1>1. s \in Nat /\ s + 1 \in Nat /\ s + 1 < 2 * SlotCount /\ s < SlotCount
  BY Kinds DEF Slots
<1>2. Wrapped(SlotCount, s + 1) = IF s + 1 < SlotCount THEN s + 1 ELSE s + 1 - SlotCount
  BY <1>1, Kinds, Wraps
<1>3. (s + 1) % SlotCount = Wrapped(SlotCount, s + 1)
  BY DEF Wrapped
<1> QED BY <1>1, <1>2, <1>3, Kinds DEF Slots

\* The copy of an item finds a free slot.
LEMMA InsertItemStep ==
    ASSUME SemInv, NEW t \in SemProducers, NEW item \in SemItems, InsertItem(t, item)
    PROVE  SemInv' /\ Stored' = Stored + 1 /\ Stored < SlotCount /\ Stored \in Nat
<1> USE DEF SemInv
<1>1. SemMoves(t, "copying", "posting")
  BY DEF InsertItem
<1>2. /\ Number(SemProducers, "copying")' = Number(SemProducers, "copying") - 1
      /\ Number(SemProducers, "copying") > 0
      /\ Number(SemProducers, "posting")' = Number(SemProducers, "posting") + 1
      /\ Number(SemConsumers, "copying")' = Number(SemConsumers, "copying")
      /\ Number(SemConsumers, "posting")' = Number(SemConsumers, "posting")
  BY <1>1, ProducerCounts
<1>3. Stored \in Nat /\ Stored < SlotCount
  BY <1>2, Counts, Kinds DEF SlotsAccounted, SemTypeOK, Stored
<1>4. SemTypeOK'
  <2>1. insertPointer' \in Slots
    BY MovesOn DEF InsertItem, SemTypeOK
  <2>2. buffer' \in [Slots -> SemItems \cup {0}]
    BY DEF InsertItem, SemTypeOK
  <2> QED BY <1>1, <2>1, <2>2, MovesType DEF InsertItem, SemTypeOK
<1>5. Stored' = Stored + 1
  BY <1>2, Counts DEF Stored, InsertItem, SemTypeOK
<1>6. SlotsAccounted'
  BY <1>2, <1>5, Counts, Kinds DEF SlotsAccounted, InsertItem, SemTypeOK, Stored
<1>7. PointersApart'
  <2>1. insertPointer' = IF insertPointer + 1 < SlotCount THEN insertPointer + 1 ELSE 0
    BY MovesOn DEF InsertItem, SemTypeOK
  <2>2. removePointer' = removePointer /\ removePointer \in Nat /\ removePointer < SlotCount
    BY Kinds DEF InsertItem, SemTypeOK, Slots
  <2> QED BY <1>3, <1>5, <2>1, <2>2, Kinds DEF PointersApart
<1> QED BY <1>3, <1>4, <1>5, <1>6, <1>7

\* The copy out of the ring finds an item.
LEMMA RemoveItemStep ==
    ASSUME SemInv, NEW t \in SemConsumers, RemoveItem(t)
    PROVE  SemInv' /\ Stored' = Stored - 1 /\ Stored \in 1 .. SlotCount
<1> USE DEF SemInv
<1>1. SemMoves(t, "copying", "posting")
  BY DEF RemoveItem
<1>2. /\ Number(SemConsumers, "copying")' = Number(SemConsumers, "copying") - 1
      /\ Number(SemConsumers, "copying") > 0
      /\ Number(SemConsumers, "posting")' = Number(SemConsumers, "posting") + 1
      /\ Number(SemProducers, "copying")' = Number(SemProducers, "copying")
      /\ Number(SemProducers, "posting")' = Number(SemProducers, "posting")
  BY <1>1, ConsumerCounts
<1>3. Stored \in Nat /\ Stored > 0 /\ Stored <= SlotCount
  BY <1>2, Counts, Kinds DEF SlotsAccounted, SemTypeOK, Stored
<1>4. SemTypeOK'
  <2>1. removePointer' \in Slots
    BY MovesOn DEF RemoveItem, SemTypeOK
  <2> QED BY <1>1, <2>1, MovesType DEF RemoveItem, SemTypeOK
<1>5. Stored' = Stored - 1
  BY <1>2, Counts DEF Stored, RemoveItem, SemTypeOK
<1>6. SlotsAccounted'
  BY <1>2, <1>5, Counts, Kinds DEF SlotsAccounted, RemoveItem, SemTypeOK, Stored
<1>7. PointersApart'
  <2>1. removePointer' = IF removePointer + 1 < SlotCount THEN removePointer + 1 ELSE 0
    BY MovesOn DEF RemoveItem, SemTypeOK
  <2>2. insertPointer' = insertPointer /\ removePointer \in Nat /\ removePointer < SlotCount
    BY Kinds DEF RemoveItem, SemTypeOK, Slots
  <2> QED BY <1>3, <1>5, <2>1, <2>2, Kinds DEF PointersApart
<1> QED BY <1>3, <1>4, <1>5, <1>6, <1>7

\* Launching, ending and idling touch no thread and no slot.
LEMMA IdleStep ==
    ASSUME SemInv, SemLaunch \/ SemJoins \/ UNCHANGED semVars
    PROVE  SemInv' /\ Stored' = Stored
<1> USE DEF SemInv
<1>1. /\ UNCHANGED <<buffer, insertPointer, removePointer, empty, full, semThread>>
      /\ semProcess' \in {"off", "running", "over"}
  BY DEF SemLaunch, SemJoins, semVars, ringVars, SemTypeOK
<1>2. \A threads, here : Number(threads, here)' = Number(threads, here)
  BY <1>1 DEF Number
<1>3. SemTypeOK'
  BY <1>1 DEF SemTypeOK
<1>4. Stored' = Stored
  BY <1>1, <1>2 DEF Stored
<1>5. SlotsAccounted'
  BY <1>1, <1>2, <1>4 DEF SlotsAccounted
<1>6. PointersApart'
  BY <1>1, <1>4 DEF PointersApart
<1> QED BY <1>3, <1>4, <1>5, <1>6

-----------------------------------------------------------------------------
(* The ring as a queue.                                                    *)

\* What a slot holds.
Held == SemItems \cup {0}

LEMMA SemContentIsRing == SemContent = RingContent(buffer, SlotCount, removePointer, Stored)
BY DEF SemContent, RingContent, Wrapped

\* A step that leaves the ring and the number of its items alone changes no content.
LEMMA SameContent ==
    ASSUME UNCHANGED ringVars, Stored' = Stored
    PROVE  SemContent' = SemContent
BY DEF SemContent, ringVars

LEMMA InsertPuts ==
    ASSUME SemInv, NEW t \in SemProducers, NEW item \in SemItems, InsertItem(t, item)
    PROVE  SemBuffer!Put(item)
<1>1. Stored' = Stored + 1 /\ Stored < SlotCount /\ Stored \in Nat
  BY InsertItemStep
<1>2. /\ buffer \in Rings(SlotCount, Held)
      /\ removePointer \in 0 .. SlotCount - 1 /\ removePointer' = removePointer
      /\ buffer' \in Rings(SlotCount, Held)
      /\ buffer'[insertPointer] = item
      /\ \A j \in 0 .. SlotCount - 1 : j # insertPointer => buffer'[j] = buffer[j]
  BY DEF SemInv, SemTypeOK, InsertItem, Slots, Rings, Held
<1>3. FreeSlot(SlotCount, removePointer, Stored) = insertPointer
  <2> DEFINE x == removePointer + Stored
  <2>1. x \in Nat /\ x < 2 * SlotCount
    BY <1>1, <1>2, Kinds
  <2>2. insertPointer = IF x < SlotCount THEN x ELSE x - SlotCount
    BY <1>1, <1>2, Kinds DEF PointersApart, SemInv
  <2> HIDE DEF x
  <2>3. Wrapped(SlotCount, x) = insertPointer
    BY <2>1, <2>2, Kinds, Wraps
  <2> QED BY <2>3 DEF x, FreeSlot
<1>4. Stored \in 0 .. SlotCount - 1 /\ Stored \in 0 .. SlotCount /\ item \in Held
  BY <1>1, Kinds DEF Held
<1>5. Len(SemContent) < SlotCount
  <2>1. SemContent \in [1 .. Stored -> Held]
    BY <1>2, <1>4, Kinds, RingType, SemContentIsRing
  <2> QED BY <1>1, <2>1, Written
<1>6. SemContent' = OneMore(buffer', SlotCount, removePointer, Stored)
  BY <1>1, <1>2 DEF SemContent, OneMore, RingContent, Wrapped
<1>7. SemContent' = Append(SemContent, item)
  <2>1. OneMore(buffer', SlotCount, removePointer, Stored) =
            Append(RingContent(buffer, SlotCount, removePointer, Stored), item)
    BY <1>2, <1>3, <1>4, Kinds, RingPuts
  <2> QED BY <1>6, <2>1, SemContentIsRing
<1> QED BY <1>5, <1>7 DEF SemBuffer!Put

LEMMA RemoveGets ==
    ASSUME SemInv, NEW t \in SemConsumers, RemoveItem(t)
    PROVE  SemBuffer!Get
<1>1. Stored' = Stored - 1 /\ Stored \in 1 .. SlotCount
  BY RemoveItemStep
<1>2. /\ buffer \in Rings(SlotCount, Held) /\ buffer' = buffer
      /\ removePointer \in 0 .. SlotCount - 1
      /\ removePointer' = Wrapped(SlotCount, removePointer + 1)
  BY DEF SemInv, SemTypeOK, RemoveItem, Slots, Wrapped, Rings, Held
<1>3. SemContent' = OneLess(buffer, SlotCount, removePointer, Stored)
  BY <1>1, <1>2 DEF SemContent, OneLess, RingContent, Wrapped
<1>4. SemContent # <<>> /\ SemContent' = Tail(SemContent)
  BY <1>1, <1>2, <1>3, Kinds, RingGets, SemContentIsRing
<1> QED BY <1>4 DEF SemBuffer!Get

-----------------------------------------------------------------------------
LEMMA SemStepsKeep == SemInv /\ [SemNext]_semVars => SemInv'
<1> SUFFICES ASSUME SemInv, [SemNext]_semVars PROVE SemInv'
  OBVIOUS
<1>1. CASE SemLaunch \/ SemJoins \/ UNCHANGED semVars
  BY <1>1, IdleStep
<1>2. ASSUME NEW t \in SemThreads, SemStep(t) PROVE SemInv'
  BY <1>2, WaitEmptyStep, PostFullStep, InsertItemStep, WaitFullStep, RemoveItemStep,
     PostEmptyStep DEF SemStep
<1> QED BY <1>1, <1>2 DEF SemNext

LEMMA SemStepsBuffer == SemInv /\ [SemNext]_semVars => [SemBuffer!Next]_SemContent
<1> SUFFICES ASSUME SemInv, [SemNext]_semVars PROVE [SemBuffer!Next]_SemContent
  OBVIOUS
<1>1. CASE SemLaunch \/ SemJoins \/ UNCHANGED semVars
  <2>1. UNCHANGED ringVars
    BY <1>1 DEF SemLaunch, SemJoins, semVars
  <2> QED BY <1>1, <2>1, IdleStep, SameContent
<1>2. ASSUME NEW t \in SemProducers, WaitEmpty(t) PROVE SemContent' = SemContent
  BY <1>2, WaitEmptyStep, SameContent DEF WaitEmpty
<1>3. ASSUME NEW t \in SemProducers, PostFull(t) PROVE SemContent' = SemContent
  BY <1>3, PostFullStep, SameContent DEF PostFull
<1>4. ASSUME NEW t \in SemProducers, NEW item \in SemItems, InsertItem(t, item)
      PROVE  SemBuffer!Next
  BY <1>4, InsertPuts DEF SemBuffer!Next
<1>5. ASSUME NEW t \in SemConsumers, WaitFull(t) PROVE SemContent' = SemContent
  BY <1>5, WaitFullStep, SameContent DEF WaitFull
<1>6. ASSUME NEW t \in SemConsumers, RemoveItem(t) PROVE SemBuffer!Next
  BY <1>6, RemoveGets DEF SemBuffer!Next
<1>7. ASSUME NEW t \in SemConsumers, PostEmpty(t) PROVE SemContent' = SemContent
  BY <1>7, PostEmptyStep, SameContent DEF PostEmpty
<1> QED BY <1>1, <1>2, <1>3, <1>4, <1>5, <1>6, <1>7 DEF SemNext, SemStep

\* No slot is lost or counted twice between the two semaphores: what is free, claimed,
\* stored or about to be given back adds up to the size of the ring (buffer.c:21-40).
THEOREM NoSlotLost == SemSpec => []SlotsAccounted
<1>1. SemInit => SemInv
  BY SemInitial
<1>2. SemInv /\ [SemNext]_semVars => SemInv'
  BY SemStepsKeep
<1>3. SemInv => SlotsAccounted
  BY DEF SemInv
<1> QED BY <1>1, <1>2, <1>3, PTL DEF SemSpec

\* For any number of producers, consumers and slots, the ring between the semaphores is
\* a bounded buffer: nothing is overwritten or read twice, and items come out in their
\* turn (buffer.c:18-41).
THEOREM ImplementsBoundedBuffer == SemSpec => IsSemaphoreBuffer
<1>1. SemInit => SemInv /\ SemBuffer!Init
  <2>1. SemInit => SemInv /\ Stored = 0
    BY SemInitial
  <2>2. Stored = 0 => SemContent = <<>>
    BY DEF SemContent
  <2> QED BY <2>1, <2>2 DEF SemBuffer!Init
<1>2. SemInv /\ [SemNext]_semVars => SemInv'
  BY SemStepsKeep
<1>3. SemInv /\ [SemNext]_semVars => [SemBuffer!Next]_SemContent
  BY SemStepsBuffer
<1> QED BY <1>1, <1>2, <1>3, PTL DEF SemSpec, IsSemaphoreBuffer, SemBuffer!Spec

-----------------------------------------------------------------------------
(* condition.c: who is awake.                                            *)

CondTypeOK ==
    /\ condRuns \in BOOLEAN
    /\ in \in Indices /\ out \in Indices
    /\ condThread \in [CondThreads -> {"outside", "waiting", "woken"}]

\* While there is room some producer is awake, and while there is an item some
\* consumer is: whoever makes room or an item wakes somebody, and nobody lies down
\* while there is any.
CondInv ==
    /\ CondTypeOK
    /\ NextIndex(in) # out => \E p \in CondProducers : condThread[p] # "waiting"
    /\ in # out => \E c \in CondConsumers : condThread[c] # "waiting"

\* The next index is another one of the ring.
LEMMA NextIndexRange ==
    ASSUME NEW i \in Indices
    PROVE  NextIndex(i) \in Indices /\ NextIndex(i) # i
<1>1. RingSize \in Nat /\ RingSize > 1 /\ i \in Nat /\ i < RingSize
  BY ConditionAssumption DEF Indices
<1>2. CASE i + 1 = RingSize
  <2>1. (i + 1) % RingSize = 0
    BY <1>1, <1>2
  <2> QED BY <1>1, <1>2, <2>1 DEF Indices, NextIndex
<1>3. CASE i + 1 < RingSize
  <2>1. (i + 1) % RingSize = i + 1
    BY <1>1, <1>3
  <2> QED BY <1>1, <1>3, <2>1 DEF Indices, NextIndex
<1> QED BY <1>1, <1>2, <1>3

\* A signal leaves the thread that gave it outside, and one of the others awake.
LEMMA SignalWakes ==
    ASSUME CondTypeOK, NEW t \in CondThreads, NEW sleepers \in SUBSET CondThreads,
           sleepers # {}, LeaveAndSignal(t, sleepers)
    PROVE  /\ condThread' \in [CondThreads -> {"outside", "waiting", "woken"}]
           /\ condThread'[t] # "waiting"
           /\ \E s \in sleepers : condThread'[s] # "waiting"
<1> DEFINE asleep == {s \in sleepers : condThread[s] = "waiting"}
           left == [condThread EXCEPT ![t] = "outside"]
<1>1. CASE asleep = {}
  <2>1. condThread' = left
    BY <1>1 DEF LeaveAndSignal
  <2> QED BY <1>1, <2>1 DEF CondTypeOK
<1>2. CASE asleep # {}
  <2>1. PICK s \in asleep : condThread' = [left EXCEPT ![s] = "woken"]
    BY <1>2 DEF LeaveAndSignal
  <2> QED BY <2>1 DEF CondTypeOK
<1> QED BY <1>1, <1>2

LEMMA CondInitial == CondInit => CondInv
<1> SUFFICES ASSUME CondInit PROVE CondInv
  OBVIOUS
<1>1. 0 \in Indices
  BY ConditionAssumption DEF Indices
<1>2. PICK p \in CondProducers, c \in CondConsumers : TRUE
  BY ConditionAssumption
<1> QED BY <1>1, <1>2 DEF CondInit, CondInv, CondTypeOK, CondThreads

LEMMA ProducerStep ==
    ASSUME CondInv, NEW t \in CondProducers, Producer(t)
    PROVE  CondInv'
<1>1. t \in CondThreads /\ CondConsumers \in SUBSET CondThreads /\ CondConsumers # {}
      /\ t \notin CondConsumers
  BY ConditionAssumption DEF CondThreads
<1>2. CASE NextIndex(in) = out
  <2>1. Waits(t) /\ condRuns' = condRuns
    BY <1>2 DEF Producer
  <2> QED BY <1>1, <1>2, <2>1 DEF CondInv, CondTypeOK, Waits, NextIndex
<1>3. CASE NextIndex(in) # out
  <2>1. in' = NextIndex(in) /\ out' = out /\ condRuns' = condRuns
        /\ LeaveAndSignal(t, CondConsumers)
    BY <1>3 DEF Producer
  <2>2. in' \in Indices
    BY <2>1, NextIndexRange DEF CondInv, CondTypeOK
  <2> QED BY <1>1, <2>1, <2>2, SignalWakes DEF CondInv, CondTypeOK
<1> QED BY <1>2, <1>3

LEMMA ConsumerStep ==
    ASSUME CondInv, NEW t \in CondConsumers, Consumer(t)
    PROVE  CondInv'
<1>1. t \in CondThreads /\ CondProducers \in SUBSET CondThreads /\ CondProducers # {}
      /\ t \notin CondProducers
  BY ConditionAssumption DEF CondThreads
<1>2. CASE in = out
  <2>1. Waits(t) /\ condRuns' = condRuns
    BY <1>2 DEF Consumer
  <2> QED BY <1>1, <1>2, <2>1 DEF CondInv, CondTypeOK, Waits, NextIndex
<1>3. CASE in # out
  <2>1. out' = NextIndex(out) /\ in' = in /\ condRuns' = condRuns
        /\ LeaveAndSignal(t, CondProducers)
    BY <1>3 DEF Consumer
  <2>2. out' \in Indices
    BY <2>1, NextIndexRange DEF CondInv, CondTypeOK
  <2> QED BY <1>1, <2>1, <2>2, SignalWakes DEF CondInv, CondTypeOK
<1> QED BY <1>2, <1>3

LEMMA CondInvariance == CondInv /\ [CondNext]_condVars => CondInv'
<1> SUFFICES ASSUME CondInv, [CondNext]_condVars PROVE CondInv'
  OBVIOUS
<1>1. CASE CondLaunch
  BY <1>1 DEF CondLaunch, CondInv, CondTypeOK, NextIndex
<1>2. ASSUME NEW t \in CondThreads, CondStep(t) PROVE CondInv'
  BY <1>2, ProducerStep, ConsumerStep DEF CondStep
<1>3. ASSUME NEW t \in CondThreads, Spurious(t) PROVE CondInv'
  BY <1>3 DEF Spurious, CondInv, CondTypeOK, NextIndex, CondThreads
<1>4. CASE UNCHANGED condVars
  BY <1>4 DEF condVars, CondInv, CondTypeOK, NextIndex
<1> QED BY <1>1, <1>2, <1>3, <1>4 DEF CondNext

\* A ring of two slots or more is never full and empty at once, so somebody is awake.
LEMMA CondInvAwake == CondInv => SomebodyAwake
<1> SUFFICES ASSUME CondInv PROVE SomebodyAwake
  OBVIOUS
<1>1. NextIndex(in) # out \/ in # out
  BY NextIndexRange DEF CondInv, CondTypeOK
<1> QED BY <1>1 DEF CondInv, SomebodyAwake, CondThreads

\* Producers and consumers never all sleep, however many there are, although each
\* signal wakes one thread only (condition.c:39, 57).
THEOREM NeverAllAsleep == CondSpec => []SomebodyAwake
<1> QED BY CondInitial, CondInvariance, CondInvAwake, PTL DEF CondSpec

-----------------------------------------------------------------------------
(* The ring as a queue that always leaves one slot free.                   *)

Contents == {0, 1}
CondRingOK == ring \in [Indices -> Contents]

\* How many items there are from index o up to index i.
Between(i, o) == (i + RingSize - o) % RingSize
Waiting == Between(in, out)

LEMMA RingCounts ==
    ASSUME NEW i \in Indices, NEW o \in Indices
    PROVE  /\ Between(i, o) = IF i < o THEN i + RingSize - o ELSE i - o
           /\ Between(i, o) \in 0 .. RingSize - 1
           /\ Wrapped(RingSize, o + Between(i, o)) = i
<1>1. /\ RingSize \in Nat /\ RingSize > 1
      /\ i \in 0 .. RingSize - 1 /\ o \in 0 .. RingSize - 1
  BY ConditionAssumption DEF Indices
<1>2. PICK x \in Nat : x = i + RingSize - o /\ x < 2 * RingSize
  BY <1>1
<1>3. Wrapped(RingSize, x) = (IF x < RingSize THEN x ELSE x - RingSize)
      /\ Between(i, o) = Wrapped(RingSize, x)
  BY <1>1, <1>2, Wraps DEF Between, Wrapped
<1>4. Between(i, o) = (IF i < o THEN i + RingSize - o ELSE i - o)
      /\ Between(i, o) \in 0 .. RingSize - 1
  BY <1>1, <1>2, <1>3
<1>5. PICK y \in Nat : y = o + Between(i, o) /\ y < 2 * RingSize
  BY <1>1, <1>4
<1>6. Wrapped(RingSize, y) = IF y < RingSize THEN y ELSE y - RingSize
  BY <1>1, <1>5, Wraps
<1>7. Wrapped(RingSize, y) = i
  BY <1>1, <1>4, <1>5, <1>6
<1> QED BY <1>4, <1>5, <1>7

LEMMA CondRing ==
    ASSUME CondTypeOK
    PROVE  /\ RingSize \in Nat /\ RingSize > 1
           /\ in \in 0 .. RingSize - 1 /\ out \in 0 .. RingSize - 1
           /\ Waiting = IF in < out THEN in + RingSize - out ELSE in - out
           /\ Waiting \in 0 .. RingSize - 1
           /\ in = Wrapped(RingSize, out + Waiting)
BY ConditionAssumption, RingCounts DEF CondTypeOK, Waiting, Indices

\* Where an index comes to when it moves on.
LEMMA NextIndexIs ==
    ASSUME NEW i \in Indices
    PROVE  /\ NextIndex(i) = Wrapped(RingSize, i + 1)
           /\ NextIndex(i) = IF i + 1 < RingSize THEN i + 1 ELSE 0
<1>1. RingSize \in Nat /\ RingSize > 1 /\ i \in Nat /\ i < RingSize
  BY ConditionAssumption DEF Indices
<1>2. NextIndex(i) = Wrapped(RingSize, i + 1)
  BY DEF NextIndex, Wrapped
<1>3. Wrapped(RingSize, i + 1) = IF i + 1 < RingSize THEN i + 1 ELSE i + 1 - RingSize
  BY <1>1, Wraps
<1> QED BY <1>1, <1>2, <1>3

LEMMA CondContentIsRing == CondContent = RingContent(ring, RingSize, out, Waiting)
BY DEF CondContent, RingContent, Waiting, Between, Wrapped

LEMMA ProducerPuts ==
    ASSUME CondTypeOK, CondRingOK, CondTypeOK', NEW t \in CondProducers, Producer(t)
    PROVE  CondRingOK' /\ (CondBuffer!Put(1) \/ CondContent' = CondContent)
<1>1. CASE NextIndex(in) = out
  BY <1>1 DEF Producer, Waits, CondContent, CondRingOK
<1>2. CASE NextIndex(in) # out
  <2>1. ring' = [ring EXCEPT ![in] = 1] /\ in' = NextIndex(in) /\ out' = out
    BY <1>2 DEF Producer
  <2>2. ring \in Rings(RingSize, Contents)
    BY DEF CondRingOK, Indices, Rings
  <2>3. NextIndex(in) = IF in + 1 < RingSize THEN in + 1 ELSE 0
    BY NextIndexIs DEF CondTypeOK
  <2>4. Waiting < RingSize - 1 /\ Waiting' = Waiting + 1
    <3>1. /\ RingSize \in Nat /\ RingSize > 1
          /\ in \in 0 .. RingSize - 1 /\ out \in 0 .. RingSize - 1
          /\ Waiting = IF in < out THEN in + RingSize - out ELSE in - out
      BY CondRing
    <3>2. Waiting' = IF in' < out' THEN in' + RingSize - out' ELSE in' - out'
      BY RingCounts DEF CondTypeOK, Waiting
    <3> HIDE DEF Waiting
    <3> QED BY <1>2, <2>1, <2>3, <3>1, <3>2
  <2>5. CondContent' = OneMore(ring', RingSize, out, Waiting)
    <3>1. CondContent' = RingContent(ring', RingSize, out', Waiting')
      BY DEF CondContent, RingContent, Waiting, Between, Wrapped
    <3> QED BY <2>1, <2>4, <3>1 DEF OneMore
  <2>6. CondContent' = Append(CondContent, 1)
    <3>1. FreeSlot(RingSize, out, Waiting) = in /\ 1 \in Contents
      BY CondRing DEF FreeSlot, Contents
    <3>2. /\ ring' \in Rings(RingSize, Contents) /\ ring'[in] = 1
          /\ \A j \in 0 .. RingSize - 1 : j # in => ring'[j] = ring[j]
      BY <2>1, <2>2, <3>1, CondRing DEF Rings
    <3> QED BY <2>2, <2>5, <3>1, <3>2, CondRing, CondContentIsRing, RingPuts
  <2>7. Len(CondContent) < RingSize - 1
    <3>1. Waiting \in 0 .. RingSize
      BY CondRing
    <3>2. RingContent(ring, RingSize, out, Waiting) \in [1 .. Waiting -> Contents]
      BY <2>2, <3>1, CondRing, RingType
    <3>3. Len(RingContent(ring, RingSize, out, Waiting)) = Waiting
      BY <3>1, <3>2, Written
    <3> QED BY <2>4, <3>3, CondContentIsRing
  <2>8. CondRingOK'
    BY <2>1 DEF CondRingOK, Indices, Contents
  <2> QED BY <2>6, <2>7, <2>8 DEF CondBuffer!Put
<1> QED BY <1>1, <1>2

LEMMA ConsumerGets ==
    ASSUME CondTypeOK, CondRingOK, CondTypeOK', NEW t \in CondConsumers, Consumer(t)
    PROVE  CondRingOK' /\ (CondBuffer!Get \/ CondContent' = CondContent)
<1>1. CASE in = out
  BY <1>1 DEF Consumer, Waits, CondContent, CondRingOK
<1>2. CASE in # out
  <2>1. ring' = [ring EXCEPT ![out] = 0] /\ out' = NextIndex(out) /\ in' = in
    BY <1>2 DEF Consumer
  <2>2. ring \in Rings(RingSize, Contents) /\ ring' \in Rings(RingSize, Contents)
    BY <2>1 DEF CondRingOK, Indices, Rings, Contents
  <2>3. /\ NextIndex(out) = IF out + 1 < RingSize THEN out + 1 ELSE 0
        /\ NextIndex(out) = Wrapped(RingSize, out + 1)
    BY NextIndexIs DEF CondTypeOK
  <2>4. Waiting \in 1 .. RingSize /\ Waiting' = Waiting - 1
    <3>1. /\ RingSize \in Nat /\ RingSize > 1
          /\ in \in 0 .. RingSize - 1 /\ out \in 0 .. RingSize - 1
          /\ Waiting = IF in < out THEN in + RingSize - out ELSE in - out
      BY CondRing
    <3>2. Waiting' = IF in' < out' THEN in' + RingSize - out' ELSE in' - out'
      BY RingCounts DEF CondTypeOK, Waiting
    <3> HIDE DEF Waiting
    <3> QED BY <1>2, <2>1, <2>3, <3>1, <3>2
  <2>5. CondContent' = OneLess(ring', RingSize, out, Waiting)
    <3>1. CondContent' = RingContent(ring', RingSize, out', Waiting')
      BY DEF CondContent, RingContent, Waiting, Between, Wrapped
    <3> QED BY <2>1, <2>3, <2>4, <3>1 DEF OneLess
  <2>6. \A j \in 0 .. RingSize - 1 : j # out => ring'[j] = ring[j]
    BY <2>1, <2>2 DEF Rings
  <2>7. CondContent # <<>> /\ CondContent' = Tail(CondContent)
    <3>1. RingSize \in Nat /\ RingSize > 0 /\ out \in 0 .. RingSize - 1
      BY CondRing
    <3> HIDE DEF Waiting
    <3>2. RingContent(ring, RingSize, out, Waiting) # <<>>
      BY <2>2, <2>4, <2>6, <3>1, RingGets
    <3>3. OneLess(ring', RingSize, out, Waiting) = Tail(RingContent(ring, RingSize, out, Waiting))
      BY <2>2, <2>4, <2>6, <3>1, RingGets
    <3> QED BY <2>5, <3>2, <3>3, CondContentIsRing
  <2>8. CondRingOK'
    BY <2>2 DEF CondRingOK, Indices, Rings
  <2> QED BY <2>7, <2>8 DEF CondBuffer!Get
<1> QED BY <1>1, <1>2

LEMMA CondStepsBuffer ==
    ASSUME CondInv, CondInv', CondRingOK, [CondNext]_condVars
    PROVE  CondRingOK' /\ [CondBuffer!Next]_CondContent
<1> USE DEF CondInv
<1>1. CASE CondLaunch \/ UNCHANGED condVars \/ \E t \in CondThreads : Spurious(t)
  <2>1. UNCHANGED <<ring, in, out>>
    BY <1>1 DEF CondLaunch, condVars, Spurious
  <2> QED BY <2>1 DEF CondContent, CondRingOK
<1>2. ASSUME NEW t \in CondProducers, Producer(t)
      PROVE  CondRingOK' /\ [CondBuffer!Next]_CondContent
  BY <1>2, ProducerPuts DEF CondBuffer!Next
<1>3. ASSUME NEW t \in CondConsumers, Consumer(t)
      PROVE  CondRingOK' /\ [CondBuffer!Next]_CondContent
  BY <1>3, ConsumerGets DEF CondBuffer!Next
<1> QED BY <1>1, <1>2, <1>3 DEF CondNext, CondStep

\* For any number of producers, consumers and slots, whoever is woken, late or for no
\* reason, the ring under the mutex is a buffer of one item less than it has slots
\* (condition.c:31, 49).
THEOREM ConditionBufferImplements == CondSpec => IsConditionBuffer
<1>1. CondInit => CondInv /\ CondRingOK /\ CondBuffer!Init
  <2> SUFFICES ASSUME CondInit PROVE CondInv /\ CondRingOK /\ CondBuffer!Init
    OBVIOUS
  <2>1. CondInv
    BY CondInitial
  <2>2. CondRingOK
    BY DEF CondInit, CondRingOK, Contents
  <2>3. Waiting = 0
    BY <2>1, CondRing DEF CondInv, CondInit
  <2>4. CondContent = <<>>
    BY <2>3, CondContentIsRing DEF RingContent
  <2> QED BY <2>1, <2>2, <2>4 DEF CondBuffer!Init
<1>2. CondInv /\ [CondNext]_condVars => CondInv'
  BY CondInvariance
<1>3. CondInv /\ CondInv' /\ CondRingOK /\ [CondNext]_condVars
        => CondRingOK' /\ [CondBuffer!Next]_CondContent
  BY CondStepsBuffer
<1> QED BY <1>1, <1>2, <1>3, PTL DEF CondSpec, IsConditionBuffer, CondBuffer!Spec
=============================================================================
