----------------------- MODULE ControllerThreadsProofs -----------------------
(***************************************************************************)
(* Proofs about ControllerThreads for every choice of its constants: any   *)
(* number of cars and call programs, any of which may hang up, and an      *)
(* interrupt anywhere.  The variables keep their types, and the list of    *)
(* cars is in order as long as the second unlock of its mutex has not      *)
(* opened it under another thread, although freed addresses are used       *)
(* again.                                                                  *)
(***************************************************************************)
EXTENDS ControllerThreads, FiniteSetTheorems, DataLemmas

-----------------------------------------------------------------------------
(* The types.                                                              *)

LEMMA ThreadNames ==
    /\ Main \in Threads /\ Signal \in Threads
    /\ \A c \in Cars : c \in Threads /\ c \in Peers /\ Monitor(c) \in Threads
    /\ \A p \in Callers : p \in Threads /\ p \in Peers
    /\ Main # Signal
    /\ \A p \in Peers : p # Main /\ p # Signal /\ p # Nobody
    /\ \A p \in Peers, c \in Cars : p # Monitor(c)
    /\ \A c \in Cars : Monitor(c) # Main /\ Monitor(c) # Signal
BY ThreadsAssumption DEF Main, Signal, Threads, Peers, Monitor

LEMMA CarsAreFinite == IsFiniteSet(Cars) /\ Cardinality(Cars) \in Nat
BY ThreadsAssumption, FS_Subset, FS_CardinalityType DEF Peers

LEMMA Addresses == Entries \subseteq Nat /\ NULL \notin Entries
BY CarsAreFinite DEF Entries, NULL

\* The addresses that some car's entry has been at; a pointer leads to one of them or
\* nowhere.
Used == {e \in Entries : holds[e] # Nobody}

NetOK ==
    /\ peer \in [Peers -> {"up", "gone", "cut"}]
    /\ answer \in [Callers -> {"none", "CAR", "UNAVAILABLE"}]
    /\ fds \in [Descriptors -> Peers \cup {Nobody}]
    /\ fd \in [Peers -> Descriptors \cup {0}]

MemOK ==
    /\ connected \in [Cars -> BOOLEAN]
    /\ entry \in [Cars -> Used \cup {NULL}] /\ holds \in [Entries -> Cars \cup {Nobody}]
    /\ allocated \subseteq Entries /\ queued \subseteq Entries

ListOK ==
    /\ head \in Used \cup {NULL} /\ next \in [Entries -> Used \cup {NULL}]
    /\ locked \in BOOLEAN /\ broken \in BOOLEAN

CallsOK == calls \in Seq(Callers) /\ call \in Callers \cup {Nobody} /\ at \in Used \cup {NULL}

HasCar == place[Main] \in {"unlocking", "assigning", "answering"} => at # NULL

\* Where a handler has an entry.
Holding == {"entering", "joining", "receiving", "leaving", "unlinking", "closing"}
Filled  == \A c \in Cars : place[c] \in Holding => entry[c] # NULL

PlaceOK == place \in [Threads -> Places] /\ HasCar /\ Filled

FateOK == fate \in {"running", "exited", "crashed"}

TypesHold == NetOK /\ MemOK /\ ListOK /\ CallsOK /\ PlaceOK /\ FateOK

LEMMA TypesSuffice == TypesHold => ThreadsTypeOK
BY DEF TypesHold, ThreadsTypeOK, NetOK, MemOK, ListOK, CallsOK, PlaceOK, HasCar, FateOK, Used

\* A thread goes on; only the main thread's place says something of the walk, and only a
\* handler's of its entry.
LEMMA Moves ==
    ASSUME PlaceOK, NEW t \in Threads, NEW q \in Places, To(t, q), t # Main, at' = at,
           entry' = entry, q \in Holding => place[t] \in Holding
    PROVE  PlaceOK'
BY ThreadNames DEF PlaceOK, HasCar, Filled, To

LEMMA MainMoves ==
    ASSUME PlaceOK, NEW q \in Places, To(Main, q), entry' = entry,
           q \in {"unlocking", "assigning", "answering"} => at' # NULL
    PROVE  PlaceOK'
BY ThreadNames DEF PlaceOK, HasCar, Filled, To

\* The entries keep their contents, and the pointers to them.
LEMMA MemoryKept ==
    ASSUME MemOK, connected' \in [Cars -> BOOLEAN], UNCHANGED memVars
    PROVE  MemOK' /\ Used' = Used
BY DEF MemOK, memVars, Used

LEMMA ListKept ==
    ASSUME ListOK, UNCHANGED listVars, Used \subseteq Used'
    PROVE  ListOK'
BY DEF ListOK, listVars

LEMMA CallsKept ==
    ASSUME CallsOK, UNCHANGED callVars, Used \subseteq Used'
    PROVE  CallsOK'
BY DEF CallsOK, callVars

LEMMA NetKept == ASSUME NetOK, UNCHANGED netVars PROVE NetOK'
BY DEF NetOK, netVars

LEMMA ShutdownType ==
    ASSUME NetOK, NEW f, Shutdown(f)
    PROVE  peer' \in [Peers -> {"up", "gone", "cut"}]
BY DEF NetOK, Shutdown

LEMMA CloseType ==
    ASSUME NetOK, NEW f, Close(f)
    PROVE  peer' \in [Peers -> {"up", "gone", "cut"}] /\ fds' \in [Descriptors -> Peers \cup {Nobody}]
BY ShutdownType DEF NetOK, Close

LEMMA SendType ==
    ASSUME NetOK, NEW f, NEW text \in {"CAR", "UNAVAILABLE"}, Send(f, text)
    PROVE  answer' \in [Callers -> {"none", "CAR", "UNAVAILABLE"}]
BY DEF NetOK, Send

-----------------------------------------------------------------------------
(* The walk along the list.                                                *)

\* What a walk meets behind an entry.
Behind(x) == IF x = NULL THEN NULL ELSE next[x]

IsWalk(f)       == f = [n \in Nat |-> IF n = 0 THEN head
                                       ELSE IF f[n - 1] = NULL THEN NULL ELSE next[f[n - 1]]]
IsPrefix(g, n)  == /\ g[0] = head
                   /\ \A k \in 0 .. n - 1 : g[k + 1] = Behind(g[k])

\* Every walk can be taken one entry further.
LEMMA PrefixExists == \A n \in Nat : \E g : IsPrefix(g, n)
<1> DEFINE T == {n \in Nat : ~\E g : IsPrefix(g, n)}
<1> SUFFICES ASSUME T # {} PROVE FALSE
  OBVIOUS
<1>1. PICK m \in T : \A y \in T : m <= y
  BY LeastNat
<1>2. m \in Nat /\ ~\E g : IsPrefix(g, m)
  OBVIOUS
<1> HIDE DEF T
<1>3. CASE m = 0
  <2>1. IsPrefix([k \in {0} |-> head], m)
    BY <1>3 DEF IsPrefix
  <2> QED BY <1>2, <2>1
<1>4. CASE m # 0
  <2>1. m - 1 \in Nat /\ ~(m <= m - 1)
    BY <1>2, <1>4
  <2>2. m - 1 \notin T
    BY <1>1, <2>1
  <2>3. PICK g : IsPrefix(g, m - 1)
    BY <2>1, <2>2 DEF T
  <2> DEFINE h == [k \in 0 .. m |-> IF k = m THEN Behind(g[m - 1]) ELSE g[k]]
  <2>4. h[0] = head
    BY <1>2, <1>4, <2>3 DEF IsPrefix
  <2>5. ASSUME NEW k \in 0 .. m - 1 PROVE h[k + 1] = Behind(h[k])
    <3>1. CASE k = m - 1
      BY <1>2, <1>4, <3>1
    <3>2. CASE k # m - 1
      <4>1. k \in 0 .. (m - 1) - 1
        BY <1>2, <3>2
      <4>2. h[k] = g[k] /\ h[k + 1] = g[k + 1]
        BY <1>2, <4>1
      <4> QED BY <2>3, <4>1, <4>2 DEF IsPrefix
    <3> QED BY <3>1, <3>2
  <2>6. IsPrefix(h, m)
    BY <2>4, <2>5 DEF IsPrefix
  <2> QED BY <1>2, <2>6
<1> QED BY <1>3, <1>4

\* Two walks meet the same entries.
LEMMA PrefixesAgree ==
    ASSUME NEW n \in Nat, NEW m \in Nat, NEW g, NEW h, IsPrefix(g, n), IsPrefix(h, m)
    PROVE  \A k \in Nat : k <= n /\ k <= m => g[k] = h[k]
<1> DEFINE T == {k \in Nat : k <= n /\ k <= m /\ g[k] # h[k]}
<1> SUFFICES ASSUME T # {} PROVE FALSE
  OBVIOUS
<1>1. PICK k \in T : \A y \in T : k <= y
  BY LeastNat
<1>2. k \in Nat /\ k <= n /\ k <= m /\ g[k] # h[k]
  OBVIOUS
<1>3. k # 0
  BY <1>2 DEF IsPrefix
<1>4. /\ k - 1 \in Nat /\ k - 1 \in 0 .. n - 1 /\ k - 1 \in 0 .. m - 1
      /\ ~(k <= k - 1) /\ (k - 1) + 1 = k /\ k - 1 <= n /\ k - 1 <= m
  BY <1>2, <1>3
<1>5. g[k - 1] = h[k - 1]
  BY <1>1, <1>4
<1>6. g[k] = Behind(g[k - 1]) /\ h[k] = Behind(h[k - 1])
  BY <1>4 DEF IsPrefix
<1> QED BY <1>2, <1>5, <1>6

LEMMA WalkExists == \E f : IsWalk(f)
<1> DEFINE G(n) == CHOOSE g : IsPrefix(g, n)
           f == [n \in Nat |-> G(n)[n]]
<1>1. \A n \in Nat : IsPrefix(G(n), n)
  BY PrefixExists
<1>2. f[0] = head
  BY <1>1 DEF IsPrefix
<1>3. ASSUME NEW n \in Nat, n # 0
      PROVE  f[n] = IF f[n - 1] = NULL THEN NULL ELSE next[f[n - 1]]
  <2>1. n - 1 \in Nat /\ n - 1 \in 0 .. n - 1 /\ n - 1 <= n /\ (n - 1) + 1 = n
    BY <1>3
  <2>2. G(n)[n] = Behind(G(n)[n - 1])
    BY <1>1, <2>1 DEF IsPrefix
  <2>3. G(n)[n - 1] = G(n - 1)[n - 1]
    <3> HIDE DEF G
    <3> QED BY <1>1, <2>1, PrefixesAgree
  <2>4. f[n] = G(n)[n] /\ f[n - 1] = G(n - 1)[n - 1]
    BY <2>1
  <2> HIDE DEF f, G
  <2> QED BY <2>2, <2>3, <2>4 DEF Behind
<1>4. f = [n \in Nat |-> IF n = 0 THEN head
                          ELSE IF f[n - 1] = NULL THEN NULL ELSE next[f[n - 1]]]
  <2>1. f = [n \in Nat |-> f[n]]
    OBVIOUS
  <2>2. \A n \in Nat : f[n] = IF n = 0 THEN head
                               ELSE IF f[n - 1] = NULL THEN NULL ELSE next[f[n - 1]]
    <3> HIDE DEF f
    <3> QED BY <1>2, <1>3
  <2> HIDE DEF f
  <2> QED BY <2>1, <2>2, Zenon
<1> QED BY <1>4 DEF IsWalk

LEMMA NthUnfolds ==
    /\ Nth[0] = head
    /\ \A n \in Nat : Nth[n + 1] = Behind(Nth[n])
<1>1. Nth = CHOOSE f : IsWalk(f)
  BY DEF Nth, IsWalk
<1>2. IsWalk(Nth)
  BY <1>1, WalkExists
<1> QED BY <1>2 DEF IsWalk, Behind

\* The walk meets entries and then nothing.
LEMMA NthType ==
    ASSUME ListOK
    PROVE  \A n \in Nat : Nth[n] \in Entries \cup {NULL}
<1> DEFINE T == {n \in Nat : Nth[n] \notin Entries \cup {NULL}}
<1> SUFFICES ASSUME T # {} PROVE FALSE
  OBVIOUS
<1>1. PICK k \in T : \A y \in T : k <= y
  BY LeastNat
<1>2. k # 0
  BY NthUnfolds DEF ListOK, Used
<1>3. k - 1 \in Nat /\ ~(k <= k - 1) /\ (k - 1) + 1 = k
  BY <1>2
<1>4. Nth[k - 1] \in Entries \cup {NULL}
  BY <1>1, <1>3
<1>5. Nth[k] = Behind(Nth[k - 1])
  BY <1>3, NthUnfolds
<1> QED BY <1>4, <1>5 DEF Behind, ListOK, Used

LEMMA ListedAreEntries == ListOK => Listed \subseteq Entries
<1>1. Cardinality(Cars) \in Nat
  BY CarsAreFinite
<1>2. \A n \in 0 .. Cardinality(Cars) : n \in Nat
  BY <1>1
<1> QED BY <1>2, NthType DEF Listed

-----------------------------------------------------------------------------
(* Every step keeps the types.                                             *)

\* The end of the process leaves nothing behind.
LEMMA EndsType ==
    ASSUME TypesHold, NEW how \in {"exited", "crashed"}, Ends(how)
    PROVE  TypesHold'
<1>1. NetOK'
  BY DEF TypesHold, Ends, NetOK
<1>2. MemOK' /\ ListOK' /\ FateOK'
  BY DEF Ends, MemOK, ListOK, FateOK, Used
<1>3. CallsOK'
  BY EmptySeq DEF Ends, CallsOK
<1>4. PlaceOK'
  BY ThreadNames DEF Ends, PlaceOK, HasCar, Filled, Holding, Places
<1> QED BY <1>1, <1>2, <1>3, <1>4 DEF TypesHold

LEMMA AcceptType ==
    ASSUME TypesHold, NEW p \in Peers, Accept(p)
    PROVE  TypesHold'
<1> USE DEF TypesHold
<1>1. NetOK'
  BY ThreadNames DEF Accept, NetOK
<1>2. PlaceOK'
  BY ThreadNames, Moves DEF Accept, GoesOn, callVars, memVars, Places, Threads, Holding
<1>3. MemOK' /\ Used' = Used
  BY MemoryKept DEF Accept, MemOK
<1>4. ListOK' /\ CallsOK' /\ FateOK'
  BY <1>3, ListKept, CallsKept DEF Accept, FateOK
<1> QED BY <1>1, <1>2, <1>3, <1>4

LEMMA OutsideType ==
    ASSUME TypesHold, Outside
    PROVE  TypesHold'
<1> USE DEF TypesHold
<1>0. UNCHANGED <<connected, memVars, listVars, callVars, fate>>
  BY DEF Outside, HangUp, Interrupt
<1>1. MemOK' /\ Used' = Used
  BY <1>0, MemoryKept DEF MemOK
<1>2. ListOK' /\ CallsOK' /\ FateOK'
  BY <1>0, <1>1, ListKept, CallsKept DEF FateOK
<1>3. CASE \E p \in Leavers : HangUp(p)
  <2>1. NetOK'
    BY <1>3, ThreadsAssumption DEF HangUp, NetOK
  <2>2. PlaceOK'
    BY <1>3 DEF HangUp, memVars, callVars, PlaceOK, HasCar, Filled
  <2> QED BY <2>1, <2>2, <1>1, <1>2
<1>4. CASE Interrupt
  <2>1. PlaceOK'
    BY <1>4, ThreadNames, Moves DEF Interrupt, GoesOn, callVars, memVars, Places, Holding
  <2>2. NetOK'
    BY <1>4, NetKept DEF Interrupt
  <2> QED BY <2>1, <2>2, <1>1, <1>2
<1> QED BY <1>3, <1>4 DEF Outside

LEMMA CallHandlerType ==
    ASSUME TypesHold, NEW p \in Callers, GreetCaller(p)
    PROVE  TypesHold'
<1> USE DEF TypesHold
<1>1. PlaceOK'
  <2>1. \A c \in Cars : c # p
    BY ThreadsAssumption
  <2>2. place' \in [Threads -> Places]
    BY ThreadNames DEF GreetCaller, PlaceOK, Places
  <2>3. \A c \in Cars : place'[c] = place[c]
    BY <2>1, ThreadNames DEF GreetCaller, PlaceOK
  <2>4. place'[Main] \in {place[Main], "locking"} /\ at' = at
    <3>1. Main \in Threads /\ p # Main
      BY ThreadNames
    <3> QED BY <3>1 DEF GreetCaller, PlaceOK
  <2> QED BY <2>2, <2>3, <2>4 DEF GreetCaller, PlaceOK, HasCar, Filled, memVars
<1>2. MemOK' /\ Used' = Used
  BY MemoryKept DEF GreetCaller, MemOK
<1>3. calls' \in Seq(Callers)
  BY AppendProperties DEF GreetCaller, CallsOK
<1>4. NetOK' /\ ListOK' /\ CallsOK' /\ FateOK'
  BY <1>2, <1>3, NetKept, ListKept DEF GreetCaller, CallsOK, FateOK
<1> QED BY <1>1, <1>2, <1>4

LEMMA GreetFailsType ==
    ASSUME TypesHold, NEW p \in Peers, GreetFails(p)
    PROVE  TypesHold'
<1> USE DEF TypesHold
<1>1. NetOK'
  BY CloseType DEF GreetFails, NetOK
<1>2. PlaceOK'
  BY ThreadNames, Moves DEF GreetFails, callVars, memVars, Places, Threads, Holding
<1>3. MemOK' /\ Used' = Used
  BY MemoryKept DEF GreetFails, MemOK
<1>4. ListOK' /\ CallsOK' /\ FateOK'
  BY <1>3, ListKept, CallsKept DEF GreetFails, FateOK
<1> QED BY <1>1, <1>2, <1>3, <1>4

\* An address that is handed out is used from then on; nothing points to it less than before.
LEMMA AllocateType ==
    ASSUME TypesHold, NEW c \in Cars, Allocate(c)
    PROVE  TypesHold'
<1> USE DEF TypesHold
<1>1. PICK e \in Malloc :
         /\ entry' = [entry EXCEPT ![c] = e] /\ holds' = [holds EXCEPT ![e] = c]
         /\ allocated' = allocated \cup {e} /\ UNCHANGED queued
         /\ next' = [next EXCEPT ![e] = NULL]
  BY DEF Allocate
<1>2. e \in Entries
  BY DEF Malloc
<1>3. Used' = Used \cup {e}
  BY <1>1, <1>2, ThreadNames DEF MemOK, Used
<1>4. MemOK'
  BY <1>1, <1>2, <1>3 DEF Allocate, MemOK
<1>5. ListOK'
  BY <1>1, <1>2, <1>3 DEF Allocate, ListOK
<1>6. CallsOK'
  BY <1>3, CallsKept DEF Allocate
<1>7. PlaceOK'
  <2>1. place' = [place EXCEPT ![c] = "entering"] /\ "entering" \in Places /\ at' = at
    BY DEF Allocate, GoesOn, To, Places, callVars
  <2>2. place' \in [Threads -> Places] /\ place'[Main] = place[Main]
    BY <2>1, ThreadNames DEF PlaceOK
  <2>3. ASSUME NEW d \in Cars, place'[d] \in Holding PROVE entry'[d] # NULL
    <3>1. CASE d = c
      BY <1>1, <1>2, <3>1, Addresses DEF MemOK
    <3>2. CASE d # c
      BY <1>1, <2>1, <2>3, <3>2, ThreadNames DEF PlaceOK, Filled, MemOK
    <3> QED BY <3>1, <3>2
  <2> QED BY <2>1, <2>2, <2>3 DEF PlaceOK, HasCar, Filled
<1>8. NetOK' /\ FateOK'
  BY NetKept DEF Allocate, FateOK
<1> QED BY <1>4, <1>5, <1>6, <1>7, <1>8

\* The entry of a handler that has one.
LEMMA HasEntry ==
    ASSUME TypesHold, NEW c \in Cars, place[c] \in Holding
    PROVE  entry[c] \in Used /\ entry[c] \in Entries
BY DEF TypesHold, PlaceOK, Filled, MemOK, Used

LEMMA CarHandlerType ==
    ASSUME TypesHold, NEW c \in Cars, HandlesCar(c) \/ Monitors(c)
    PROVE  TypesHold'
<1> USE DEF TypesHold
<1> c \in Peers /\ c \in Threads /\ Monitor(c) \in Threads /\ c # Main /\ Monitor(c) # Main
  BY ThreadNames
<1>1. CASE GreetFails(c)
  BY <1>1, GreetFailsType
<1>2. CASE Allocate(c)
  BY <1>2, AllocateType
<1>3. CASE Join(c) \/ Publish(c)
  <2>0. UNCHANGED <<netVars, memVars, callVars, fate>> /\ connected' \in [Cars -> BOOLEAN]
    BY <1>3 DEF Join, Publish, MemOK
  <2>1. MemOK' /\ Used' = Used
    BY <2>0, MemoryKept
  <2>2. NetOK' /\ CallsOK' /\ FateOK'
    BY <2>0, <2>1, NetKept, CallsKept DEF FateOK
  <2>3. PlaceOK'
    <3>1. CASE Join(c)
      BY <3>1, Moves DEF Join, GoesOn, At, callVars, memVars, Places, Holding
    <3>2. CASE Publish(c)
      <4>1. place' = [place EXCEPT ![c] = "receiving", ![Monitor(c)] = "watching"] /\ at' = at
        BY <3>2 DEF Publish, callVars
      <4>2. {"receiving", "watching"} \subseteq Places
        BY DEF Places
      <4>3. place' \in [Threads -> Places]
        BY <4>1, <4>2 DEF PlaceOK
      <4>4. place'[Main] = place[Main]
        BY <4>1, ThreadNames DEF PlaceOK
      <4>5. \A d \in Cars : place'[d] \in Holding => place[d] \in Holding
        <5>1. place[c] \in Holding
          BY <3>2 DEF Publish, At, Holding
        <5>2. \A d \in Cars : d \in Threads /\ d # Monitor(c)
          BY ThreadNames
        <5>3. \A d \in Cars : d # c => place'[d] = place[d]
          BY <4>1, <5>2 DEF PlaceOK
        <5> QED BY <5>1, <5>3
      <4>6. entry' = entry
        BY <2>0 DEF memVars
      <4> QED BY <4>1, <4>3, <4>4, <4>5, <4>6 DEF PlaceOK, HasCar, Filled
    <3> QED BY <1>3, <3>1, <3>2
  <2>4. ListOK'
    <3>1. CASE Join(c)
      BY <2>1, <3>1 DEF Join, ListOK
    <3>2. CASE Publish(c)
      <4>1. entry[c] \in Used
        BY <3>2, HasEntry DEF Publish, At, Holding
      <4> QED BY <2>1, <3>2, <4>1 DEF Publish, ListOK
    <3> QED BY <1>3, <3>1, <3>2
  <2> QED BY <2>1, <2>2, <2>3, <2>4
<1>4. CASE ReceiveFails(c) \/ Monitors(c)
  <2>0. UNCHANGED <<answer, fd, memVars, listVars, callVars, fate>> /\ connected' \in [Cars -> BOOLEAN]
    BY <1>4 DEF ReceiveFails, Monitors, MemOK
  <2>1. MemOK' /\ Used' = Used
    BY <2>0, MemoryKept
  <2>2. ListOK' /\ CallsOK' /\ FateOK'
    BY <2>0, <2>1, ListKept, CallsKept DEF FateOK
  <2>3. PlaceOK'
    BY <1>4, Moves DEF ReceiveFails, Monitors, GoesOn, At, callVars, memVars, Places, Holding
  <2>4. NetOK'
    <3>1. CASE ReceiveFails(c)
      BY <2>0, <3>1, CloseType DEF ReceiveFails, NetOK
    <3>2. CASE Monitors(c)
      BY <2>0, <3>2, CloseType, ShutdownType DEF Monitors, NetOK
    <3> QED BY <1>4, <3>1, <3>2
  <2> QED BY <2>1, <2>2, <2>3, <2>4
<1>5. CASE ReceiveOther(c)
  <2>0. UNCHANGED <<netVars, connected, memVars, listVars, callVars, fate>>
    BY <1>5 DEF ReceiveOther
  <2>1. MemOK' /\ Used' = Used
    BY <2>0, MemoryKept DEF MemOK
  <2>2. NetOK' /\ ListOK' /\ CallsOK' /\ FateOK'
    BY <2>0, <2>1, NetKept, ListKept, CallsKept DEF FateOK
  <2>3. place' \in [Threads -> Places] /\ place'[Main] = place[Main]
    BY <1>5, ThreadNames DEF ReceiveOther, To, PlaceOK, Places
  <2>4. ASSUME NEW d \in Cars, place'[d] \in Holding PROVE place[d] \in Holding
    BY <1>5, <2>4, ThreadNames DEF ReceiveOther, To, At, PlaceOK, Holding
  <2>5. PlaceOK'
    BY <2>0, <2>3, <2>4 DEF PlaceOK, HasCar, Filled, memVars, callVars
  <2> QED BY <2>1, <2>2, <2>5
<1>6. CASE TellsNext(c)
  <2>0. UNCHANGED <<peer, fds, fd, place, connected, memVars, listVars, callVars, fate>>
    BY <1>6 DEF TellsNext
  <2>1. MemOK' /\ Used' = Used
    BY <2>0, MemoryKept DEF MemOK
  <2>2. ListOK' /\ CallsOK' /\ FateOK'
    BY <2>0, <2>1, ListKept, CallsKept DEF FateOK
  <2>3. NetOK'
    BY <1>6, <2>0, SendType DEF TellsNext, NetOK
  <2>4. PlaceOK'
    BY <2>0 DEF PlaceOK, HasCar, Filled, memVars, callVars
  <2> QED BY <2>1, <2>2, <2>3, <2>4
<1>7. CASE TellFails(c)
  BY <1>7, EndsType DEF TellFails
<1>8. CASE Leave(c) \/ Unlink(c)
  <2>0. UNCHANGED <<netVars, connected, memVars, callVars, fate>>
    BY <1>8 DEF Leave, Unlink
  <2>1. MemOK' /\ Used' = Used
    BY <2>0, MemoryKept DEF MemOK
  <2>2. NetOK' /\ CallsOK' /\ FateOK'
    BY <2>0, <2>1, NetKept, CallsKept DEF FateOK
  <2>3. PlaceOK'
    BY <1>8, Moves DEF Leave, Unlink, GoesOn, At, callVars, memVars, Places, Holding
  <2>4. ListOK'
    <3>1. CASE Leave(c)
      BY <2>1, <3>1 DEF Leave, ListOK
    <3>2. CASE Unlink(c)
      <4>1. entry[c] \in Entries
        BY <3>2, HasEntry DEF Unlink, GoesOn, At, Holding
      <4>2. next[entry[c]] \in Used \cup {NULL}
        BY <4>1 DEF ListOK
      <4>3. head' \in Used \cup {NULL} /\ next' \in [Entries -> Used \cup {NULL}]
        BY <3>2, <4>2 DEF Unlink, ListOK
      <4> QED BY <2>1, <3>2, <4>3 DEF Unlink, ListOK
    <3> QED BY <1>8, <3>1, <3>2
  <2> QED BY <2>1, <2>2, <2>3, <2>4
<1>9. CASE CleanUp(c)
  <2>1. NetOK'
    BY <1>9, CloseType DEF CleanUp, NetOK
  <2>2. MemOK' /\ Used' = Used
    BY <1>9 DEF CleanUp, MemOK, Used
  <2>3. ListOK' /\ CallsOK' /\ FateOK'
    BY <1>9, <2>2, ListKept, CallsKept DEF CleanUp, FateOK
  <2>4. PlaceOK'
    <3>1. place' = [place EXCEPT ![c] = "over"] /\ "over" \in Places /\ at' = at
      BY <1>9 DEF CleanUp, GoesOn, To, Places, callVars
    <3>2. place' \in [Threads -> Places] /\ place'[Main] = place[Main]
      BY <3>1, ThreadNames DEF PlaceOK
    <3>3. ASSUME NEW d \in Cars, place'[d] \in Holding PROVE entry'[d] # NULL
      <4>1. d # c /\ place[d] \in Holding
        BY <3>1, <3>3, ThreadNames DEF PlaceOK, Holding
      <4>2. entry'[d] = entry[d]
        BY <1>9, <4>1 DEF CleanUp, MemOK
      <4> QED BY <4>1, <4>2 DEF PlaceOK, Filled
    <3> QED BY <3>1, <3>2, <3>3 DEF PlaceOK, HasCar, Filled
  <2> QED BY <2>1, <2>2, <2>3, <2>4
<1> QED BY <1>1, <1>2, <1>3, <1>4, <1>5, <1>6, <1>7, <1>8, <1>9 DEF HandlesCar

LEMMA DispatcherType ==
    ASSUME TypesHold, DispatcherRuns
    PROVE  TypesHold'
<1> USE DEF TypesHold
<1>1. CASE SendFails
  BY <1>1, EndsType DEF SendFails
<1>2. CASE LockCalls \/ TakeCall \/ LockList \/ Walk \/ UnlockAgain \/ Assign \/ Answer
  <2>0. /\ UNCHANGED <<connected, entry, holds, allocated, head, next, fate>>
        /\ queued' = queued \/ (queued' = queued \cup {at} /\ at # NULL)
    <3>1. CASE Assign
      BY <3>1 DEF Assign, Dispatches, GoesOn, At, PlaceOK, HasCar, listVars
    <3>2. CASE LockCalls \/ TakeCall \/ LockList \/ Walk \/ UnlockAgain \/ Answer
      BY <3>2 DEF LockCalls, TakeCall, LockList, Walk, UnlockAgain, Answer, memVars, listVars
    <3> QED BY <1>2, <3>1, <3>2
  <2>1. MemOK' /\ Used' = Used /\ FateOK'
    BY <2>0 DEF MemOK, CallsOK, Used, FateOK
  <2>2. ListOK'
    <3>1. locked' \in BOOLEAN /\ broken' \in BOOLEAN
      BY <1>2 DEF LockCalls, TakeCall, LockList, Walk, UnlockAgain, Assign, Answer, listVars, ListOK
    <3> QED BY <2>0, <2>1, <3>1 DEF ListOK
  <2>3. PlaceOK'
    <3>1. CASE LockCalls \/ TakeCall \/ LockList \/ Answer
      BY <2>0, <3>1, MainMoves DEF LockCalls, TakeCall, LockList, Answer, Dispatches, GoesOn, Places
    <3>2. CASE Walk
      BY <2>0, <3>2, MainMoves DEF Walk, Dispatches, GoesOn, Places
    <3>3. CASE UnlockAgain \/ Assign
      BY <2>0, <3>3, MainMoves DEF UnlockAgain, Assign, Dispatches, GoesOn, At, callVars, PlaceOK,
         HasCar, Places
    <3> QED BY <1>2, <3>1, <3>2, <3>3
  <2>4. CallsOK'
    <3>1. CASE LockCalls \/ UnlockAgain \/ Assign
      BY <2>1, <3>1, CallsKept DEF LockCalls, UnlockAgain, Assign
    <3>2. CASE TakeCall
      BY <2>1, <3>2, HeadTailProperties DEF TakeCall, CallsOK
    <3>3. CASE LockList
      BY <2>1, <3>3 DEF LockList, CallsOK, ListOK
    <3>4. CASE Walk
      <4>1. at' \in Used \cup {NULL}
        <5>1. at' = at \/ (at # NULL /\ at' = next[at])
          BY <3>4 DEF Walk
        <5> QED BY <5>1 DEF CallsOK, ListOK, Used
      <4> QED BY <2>1, <3>4, <4>1 DEF Walk, CallsOK
    <3>5. CASE Answer
      BY <3>5 DEF Answer, CallsOK
    <3> QED BY <1>2, <3>1, <3>2, <3>3, <3>4, <3>5
  <2>5. NetOK'
    <3>1. CASE LockCalls \/ TakeCall \/ LockList \/ Walk \/ UnlockAgain
      BY <3>1, NetKept DEF LockCalls, TakeCall, LockList, Walk, UnlockAgain
    <3>2. CASE Assign
      BY <3>2, SendType DEF Assign, NetOK
    <3>3. CASE Answer
      <4>1. answer' \in [Callers -> {"none", "CAR", "UNAVAILABLE"}]
        BY <3>3, SendType DEF Answer
      <4> QED BY <3>3, <4>1, CloseType DEF Answer, NetOK
    <3> QED BY <1>2, <3>1, <3>2, <3>3
  <2> QED BY <2>1, <2>2, <2>3, <2>4, <2>5
<1> QED BY <1>1, <1>2 DEF DispatcherRuns

LEMMA InterruptCarsType ==
    ASSUME TypesHold, InterruptCars
    PROVE  TypesHold'
<1> USE DEF TypesHold
<1>1. PlaceOK'
  BY ThreadNames, Moves DEF InterruptCars, GoesOn, callVars, Places, Holding
<1>2. NetOK'
  BY DEF InterruptCars, NetOK
<1>3. MemOK' /\ Used' = Used
  BY ListedAreEntries DEF InterruptCars, MemOK, Used
<1>4. ListOK' /\ CallsOK' /\ FateOK'
  BY <1>3, CallsKept DEF InterruptCars, ListOK, FateOK
<1> QED BY <1>1, <1>2, <1>3, <1>4

LEMMA NextType ==
    ASSUME TypesHold, [Next]_vars
    PROVE  TypesHold'
<1>1. CASE Outside
  BY <1>1, OutsideType
<1>2. CASE Accepts
  BY <1>2, AcceptType, EndsType DEF Accepts, AcceptFails
<1>3. CASE DispatcherRuns
  BY <1>3, DispatcherType
<1>4. CASE CleansUp
  BY <1>4, InterruptCarsType, EndsType DEF CleansUp, InterruptCalls
<1>5. CASE Crash
  BY <1>5, EndsType DEF Crash
<1>6. CASE \E c \in Cars : HandlesCar(c) \/ Monitors(c)
  BY <1>6, CarHandlerType
<1>7. CASE \E p \in Callers : HandlesCall(p)
  BY <1>7, CallHandlerType, GreetFailsType, ThreadNames DEF HandlesCall
<1>8. CASE UNCHANGED vars
  BY <1>8 DEF vars, netVars, memVars, listVars, callVars, TypesHold, NetOK, MemOK, ListOK,
              CallsOK, PlaceOK, HasCar, Filled, FateOK, Used
<1> QED BY <1>1, <1>2, <1>3, <1>4, <1>5, <1>6, <1>7, <1>8 DEF Next

LEMMA InitType == Init => TypesHold
<1> SUFFICES ASSUME Init PROVE TypesHold
  OBVIOUS
<1>1. NetOK
  BY ThreadNames DEF Init, NetOK
<1>2. MemOK /\ ListOK /\ FateOK
  BY DEF Init, MemOK, ListOK, FateOK, Used
<1>3. CallsOK
  BY EmptySeq DEF Init, CallsOK
<1>4. PlaceOK
  BY ThreadNames DEF Init, PlaceOK, HasCar, Filled, Holding, Places
<1> QED BY <1>1, <1>2, <1>3, <1>4 DEF TypesHold

-----------------------------------------------------------------------------
(* The list in order.                                                      *)

\* Neither has the second unlock opened the mutex under another thread, nor has the SIGINT
\* handler freed the entries.
Safe == ~broken /\ ~At(Signal, "calls")

\* An entry belongs to one handler, and is not given back before the handler lets go of it.
Own ==
    /\ \A c \in Cars : place[c] \in Holding => entry[c] \in allocated
    /\ \A c, d \in Cars :
          place[c] \in Holding /\ place[d] \in Holding /\ entry[c] = entry[d] => c = d

\* One thread at a time is in the list.
InList    == {c \in Cars : place[c] \in {"joining", "unlinking"}}
Exclusive ==
    /\ ~locked => InList = {} /\ place[Main] # "walking"
    /\ \A c, d \in InList : c = d
    /\ place[Main] = "walking" => InList = {}

\* The list is s[0], s[1], ..., s[n - 1], and these are the entries of the cars that joined.
Linked(s, n) ==
    /\ head = s[0] /\ s[n] = NULL
    /\ \A i \in 0 .. n - 1 : next[s[i]] = s[i + 1]
    /\ \A i, j \in 0 .. n - 1 : s[i] = s[j] => i = j
    /\ \A i \in 0 .. n - 1 : \E c \in Joined : s[i] = entry[c]
    /\ \A c \in Joined : \E i \in 0 .. n - 1 : s[i] = entry[c]

Chain == \E n \in Nat : \E s \in [0 .. n -> Entries \cup {NULL}] : Linked(s, n)

\* A handler that is about to publish its entry has put it in front of the list.
Ready == \A c \in Cars : place[c] = "joining" => next[entry[c]] = head

Sound == Own /\ Exclusive /\ Chain /\ Ready

LEMMA JoinedHold == \A c \in Joined : c \in Cars /\ place[c] \in Holding
BY DEF Joined, Holding

LEMMA InListHold == \A c \in InList : c \in Cars /\ place[c] \in Holding
BY DEF InList, Holding

LEMMA LinkedEntries ==
    ASSUME TypesHold, NEW n \in Nat, NEW s \in [0 .. n -> Entries \cup {NULL}], Linked(s, n)
    PROVE  \A i \in 0 .. n - 1 : s[i] \in Entries /\ s[i] # NULL
<1> SUFFICES ASSUME NEW i \in 0 .. n - 1 PROVE s[i] \in Entries /\ s[i] # NULL
  OBVIOUS
<1>1. PICK c \in Joined : s[i] = entry[c]
  BY DEF Linked
<1>2. entry[c] \in Entries
  BY JoinedHold, HasEntry
<1> QED BY <1>1, <1>2, Addresses

\* The walk along the list meets its entries one after the other, and then nothing.
LEMMA NthOfList ==
    ASSUME TypesHold, NEW n \in Nat, NEW s \in [0 .. n -> Entries \cup {NULL}], Linked(s, n)
    PROVE  \A k \in Nat : Nth[k] = IF k <= n THEN s[k] ELSE NULL
<1> DEFINE T == {k \in Nat : Nth[k] # IF k <= n THEN s[k] ELSE NULL}
<1> SUFFICES ASSUME T # {} PROVE FALSE
  OBVIOUS
<1>1. PICK k \in T : \A y \in T : k <= y
  BY LeastNat
<1>2. k \in Nat /\ Nth[k] # IF k <= n THEN s[k] ELSE NULL
  OBVIOUS
<1>3. k # 0
  <2>1. Nth[0] = s[0] /\ 0 <= n
    BY NthUnfolds DEF Linked
  <2> QED BY <1>2, <2>1
<1>4. k - 1 \in Nat /\ ~(k <= k - 1) /\ (k - 1) + 1 = k
  BY <1>2, <1>3
<1>5. Nth[k - 1] = IF k - 1 <= n THEN s[k - 1] ELSE NULL
  BY <1>1, <1>4
<1>6. Nth[k] = Behind(Nth[k - 1])
  BY <1>4, NthUnfolds
<1>7. CASE k <= n
  <2>1. k - 1 \in 0 .. n - 1
    BY <1>4, <1>7
  <2>2. s[k - 1] # NULL /\ next[s[k - 1]] = s[k]
    <3>1. next[s[k - 1]] = s[(k - 1) + 1]
      BY <2>1 DEF Linked
    <3>2. s[k - 1] # NULL
      BY <2>1, LinkedEntries
    <3> QED BY <1>4, <3>1, <3>2
  <2>3. Nth[k - 1] = s[k - 1]
    BY <1>4, <1>5, <1>7
  <2> QED BY <1>2, <1>6, <1>7, <2>2, <2>3 DEF Behind
<1>8. CASE ~(k <= n)
  <2>1. Nth[k - 1] = NULL
    <3>1. CASE k - 1 <= n
      <4>1. k - 1 = n
        BY <1>4, <1>8, <3>1
      <4> QED BY <1>5, <4>1 DEF Linked
    <3>2. CASE ~(k - 1 <= n)
      BY <1>5, <3>2
    <3> QED BY <3>1, <3>2
  <2> QED BY <1>2, <1>6, <1>8, <2>1 DEF Behind
<1> QED BY <1>7, <1>8

\* There are no more entries in the list than cars.
LEMMA ListIsShort ==
    ASSUME TypesHold, NEW n \in Nat, NEW s \in [0 .. n -> Entries \cup {NULL}], Linked(s, n)
    PROVE  n <= Cardinality(Cars)
<1> DEFINE N == Cardinality(Cars)
<1>1. N \in Nat
  BY CarsAreFinite
<1> HIDE DEF N
<1> SUFFICES ASSUME ~(n <= N) PROVE FALSE
  BY DEF N
<1>2. Entries = 1 .. N
  BY DEF Entries, N
<1>3. /\ IsFiniteSet(1 .. N) /\ Cardinality(1 .. N) = N
      /\ IsFiniteSet(0 .. n - 1) /\ Cardinality(0 .. n - 1) = n
  <2>1. 1 \in Int /\ 0 \in Int /\ N \in Int /\ n - 1 \in Int
    BY <1>1
  <2>2. IsFiniteSet(1 .. N) /\ Cardinality(1 .. N) = IF 1 > N THEN 0 ELSE N - 1 + 1
    BY <2>1, FS_Interval
  <2>3. /\ IsFiniteSet(0 .. n - 1)
        /\ Cardinality(0 .. n - 1) = IF 0 > n - 1 THEN 0 ELSE (n - 1) - 0 + 1
    BY <2>1, FS_Interval
  <2> QED BY <1>1, <2>2, <2>3
<1> DEFINE f == [i \in 0 .. n - 1 |-> s[i]]
<1>4. f \in [0 .. n - 1 -> 1 .. N]
  BY <1>2, LinkedEntries
<1>5. PICK i \in 0 .. n - 1, j \in 0 .. n - 1 : i # j /\ f[i] = f[j]
  <2>1. Cardinality(1 .. N) < Cardinality(0 .. n - 1)
    BY <1>1, <1>3
  <2> HIDE DEF f
  <2> QED BY <1>3, <1>4, <2>1, FS_PigeonHole
<1> QED BY <1>5 DEF Linked

\* So a list in order is what the property says.
LEMMA SoundList ==
    ASSUME TypesHold, Sound
    PROVE  WalkEnds /\ Listed = {entry[c] : c \in Joined} /\ Listed \subseteq allocated
<1> DEFINE N == Cardinality(Cars)
<1>1. N \in Nat
  BY CarsAreFinite
<1>2. PICK n \in Nat : \E s \in [0 .. n -> Entries \cup {NULL}] : Linked(s, n)
  BY DEF Sound, Chain
<1>3. PICK s \in [0 .. n -> Entries \cup {NULL}] : Linked(s, n)
  BY <1>2
<1>4. n <= N
  BY <1>3, ListIsShort
<1>5. \A k \in Nat : Nth[k] = IF k <= n THEN s[k] ELSE NULL
  BY <1>3, NthOfList
<1> HIDE DEF N
<1>6. WalkEnds
  <2>1. Nth[N] = NULL
    BY <1>1, <1>3, <1>4, <1>5 DEF Linked
  <2> QED BY <2>1 DEF WalkEnds, N
<1>7. Listed = {entry[c] : c \in Joined}
  <2>1. ASSUME NEW e \in Listed PROVE e \in {entry[c] : c \in Joined}
    <3>1. PICK k \in 0 .. N : e = Nth[k] /\ e # NULL
      BY DEF Listed, N
    <3>2. k \in Nat /\ k <= n
      BY <1>1, <1>5, <3>1
    <3>3. k \in 0 .. n - 1 /\ e = s[k]
      BY <1>3, <1>5, <3>1, <3>2 DEF Linked
    <3> QED BY <1>3, <3>3 DEF Linked
  <2>2. ASSUME NEW c \in Joined PROVE entry[c] \in Listed
    <3>1. PICK k \in 0 .. n - 1 : s[k] = entry[c]
      BY <1>3 DEF Linked
    <3>2. s[k] # NULL
      BY <1>3, LinkedEntries
    <3>3. k \in Nat /\ k <= n /\ k \in 0 .. N
      BY <1>1, <1>4
    <3>4. Nth[k] = entry[c]
      BY <1>5, <3>1, <3>3
    <3> QED BY <3>1, <3>2, <3>3, <3>4 DEF Listed, N
  <2> QED BY <2>1, <2>2
<1>8. \A c \in Joined : entry[c] \in allocated
  BY JoinedHold DEF Sound, Own
<1> QED BY <1>6, <1>7, <1>8

-----------------------------------------------------------------------------
(* Every step keeps the list in order.                                     *)

Away == {"none", "greeting", "robbed", "over"}

\* A step that leaves the list and its mutex alone, and only takes handlers about that are
\* on their way to the list, have left it or read reports.
Quiet ==
    /\ UNCHANGED <<entry, allocated, head, next>> /\ (~locked' => ~locked)
    /\ \A c \in Cars : \/ place'[c] = place[c]
                       \/ place[c] \in Away /\ place'[c] \in Away
                       \/ place[c] = "receiving" /\ place'[c] = "leaving"
    /\ place'[Main] = "walking" => place[Main] = "walking"

\* The entries and the list are as they were, and so are the cars that joined.
LEMMA ListStays ==
    ASSUME Chain, Ready, UNCHANGED <<head, next>>, Joined' = Joined,
           \A c \in Joined : entry'[c] = entry[c],
           \A c \in Cars : place'[c] = "joining" => place[c] = "joining" /\ entry'[c] = entry[c]
    PROVE  Chain' /\ Ready'
<1>1. PICK n \in Nat : \E s \in [0 .. n -> Entries \cup {NULL}] : Linked(s, n)
  BY DEF Chain
<1>2. PICK s \in [0 .. n -> Entries \cup {NULL}] : Linked(s, n)
  BY <1>1
<1>3. Linked(s, n)'
  BY <1>2 DEF Linked
<1>4. Chain'
  BY <1>3 DEF Chain
<1>5. Ready'
  BY DEF Ready
<1> QED BY <1>4, <1>5

LEMMA QuietKeeps == ASSUME Sound, Quiet PROVE Sound'
<1>1. \A c \in Cars : place'[c] \in Holding <=> place[c] \in Holding
  BY DEF Quiet, Away, Holding
<1>2. Own'
  BY <1>1 DEF Quiet, Sound, Own
<1>3. InList' = InList
  BY DEF Quiet, Away, InList
<1>4. Exclusive'
  BY <1>3 DEF Quiet, Sound, Exclusive
<1>5. Joined' = Joined
  BY DEF Quiet, Away, Joined
<1>6. Chain' /\ Ready'
  <2>1. \A c \in Cars : place'[c] = "joining" => place[c] = "joining"
    BY DEF Quiet, Away
  <2>2. UNCHANGED <<head, next>> /\ entry' = entry /\ Chain /\ Ready
    BY DEF Quiet, Sound
  <2> QED BY <2>1, <2>2, <1>5, ListStays
<1> QED BY <1>2, <1>4, <1>6 DEF Sound

\* The address that malloc hands out is not in the list.
LEMMA AllocateKeeps ==
    ASSUME TypesHold, Sound, NEW c \in Cars, Allocate(c)
    PROVE  Sound'
<1>1. PICK e \in Malloc :
         /\ entry' = [entry EXCEPT ![c] = e] /\ allocated' = allocated \cup {e}
         /\ next' = [next EXCEPT ![e] = NULL]
  BY DEF Allocate
<1>2. e \in Entries /\ e \notin allocated /\ head' = head
  BY DEF Malloc, Allocate
<1>3. /\ place' = [place EXCEPT ![c] = "entering"] /\ place[c] = "greeting"
      /\ place \in [Threads -> Places] /\ entry \in [Cars -> Used \cup {NULL}]
      /\ next \in [Entries -> Used \cup {NULL}]
  BY DEF Allocate, GoesOn, At, To, TypesHold, PlaceOK, MemOK, ListOK
<1>4. place'[c] = "entering" /\ \A d \in Cars : d # c => place'[d] = place[d] /\ entry'[d] = entry[d]
  BY <1>1, <1>3, ThreadNames
<1>5. c \notin Joined /\ c \notin InList /\ place[c] \notin Holding
  BY <1>3 DEF Joined, InList, Holding
<1>6. \A d \in Cars : place[d] \in Holding => entry[d] \in allocated /\ entry[d] # e
  BY <1>2 DEF Sound, Own
<1>7. Own'
  <2>1. entry'[c] = e
    BY <1>1, <1>3
  <2>2. \A d \in Cars : d # c /\ place'[d] \in Holding => place[d] \in Holding /\ entry'[d] # e
    BY <1>4, <1>6
  <2> QED BY <1>1, <1>4, <1>6, <2>1, <2>2 DEF Sound, Own
<1>8. InList' = InList
  BY <1>3, <1>4, <1>5 DEF InList
<1>9. Exclusive'
  <2>1. place'[Main] = place[Main]
    BY <1>3, ThreadNames
  <2> QED BY <1>8, <2>1 DEF Allocate, Sound, Exclusive
<1>10. Joined' = Joined
  BY <1>3, <1>4, <1>5 DEF Joined
<1>11. Chain'
  <2>1. PICK n \in Nat : \E s \in [0 .. n -> Entries \cup {NULL}] : Linked(s, n)
    BY DEF Sound, Chain
  <2>2. PICK s \in [0 .. n -> Entries \cup {NULL}] : Linked(s, n)
    BY <2>1
  <2>3. \A d \in Joined : entry'[d] = entry[d] /\ entry[d] # e
    BY <1>4, <1>5, <1>6, JoinedHold
  <2>4. \A i \in 0 .. n - 1 : s[i] # e
    BY <2>2, <2>3 DEF Linked
  <2>5. \A i \in 0 .. n - 1 : next'[s[i]] = next[s[i]]
    BY <1>1, <1>3, <2>2, <2>4, LinkedEntries
  <2>6. Linked(s, n)'
    BY <1>2, <1>10, <2>2, <2>3, <2>5 DEF Linked
  <2> QED BY <2>6 DEF Chain
<1>12. Ready'
  <2>1. ASSUME NEW d \in Cars, place'[d] = "joining" PROVE next'[entry'[d]] = head'
    <3>1. d # c /\ place[d] = "joining" /\ entry'[d] = entry[d]
      BY <1>4, <2>1
    <3>2. entry[d] # e
      BY <1>6, <3>1 DEF Holding
    <3>3. entry[d] \in Entries
      BY <3>1, HasEntry DEF Holding
    <3>4. next'[entry[d]] = next[entry[d]]
      BY <1>1, <1>3, <3>2, <3>3
    <3> QED BY <1>2, <3>1, <3>4 DEF Sound, Ready
  <2> QED BY <2>1 DEF Ready
<1> QED BY <1>7, <1>9, <1>11, <1>12 DEF Sound

\* The new entry is linked to the head while it belongs to nobody else's list.
LEMMA JoinKeeps ==
    ASSUME TypesHold, Sound, NEW c \in Cars, Join(c)
    PROVE  Sound'
<1>1. /\ place' = [place EXCEPT ![c] = "joining"] /\ place[c] = "entering"
      /\ next' = [next EXCEPT ![entry[c]] = head] /\ head' = head
      /\ entry' = entry /\ allocated' = allocated
      /\ place \in [Threads -> Places] /\ next \in [Entries -> Used \cup {NULL}]
  BY DEF Join, GoesOn, At, To, TypesHold, PlaceOK, ListOK, memVars
<1>2. place'[c] = "joining" /\ \A d \in Cars : d # c => place'[d] = place[d]
  BY <1>1, ThreadNames
<1>3. InList = {} /\ place[Main] # "walking"
  BY DEF Join, Sound, Exclusive
<1>4. \A d \in Cars : place'[d] \in Holding => place[d] \in Holding
  BY <1>1, <1>2 DEF Holding
<1>5. Own'
  BY <1>1, <1>4 DEF Sound, Own
<1>6. InList' = {c}
  BY <1>2, <1>3 DEF InList
<1>7. Exclusive'
  <2>1. place'[Main] # "walking"
    BY <1>1, <1>3, ThreadNames
  <2> QED BY <1>6, <2>1 DEF Join, Exclusive
<1>8. Joined' = Joined /\ c \notin Joined
  BY <1>1, <1>2 DEF Joined
<1>9. \A d \in Joined : entry[d] # entry[c]
  BY <1>1, <1>8, JoinedHold DEF Sound, Own, Holding
<1>10. Chain'
  <2>1. PICK n \in Nat : \E s \in [0 .. n -> Entries \cup {NULL}] : Linked(s, n)
    BY DEF Sound, Chain
  <2>2. PICK s \in [0 .. n -> Entries \cup {NULL}] : Linked(s, n)
    BY <2>1
  <2>3. \A i \in 0 .. n - 1 : s[i] # entry[c]
    BY <1>9, <2>2 DEF Linked
  <2>4. \A i \in 0 .. n - 1 : next'[s[i]] = next[s[i]]
    BY <1>1, <2>2, <2>3, LinkedEntries
  <2>5. Linked(s, n)'
    BY <1>1, <1>8, <2>2, <2>4 DEF Linked
  <2> QED BY <2>5 DEF Chain
<1>11. Ready'
  <2>1. \A d \in Cars : place'[d] = "joining" => d = c
    BY <1>6 DEF InList
  <2>2. entry[c] \in Entries
    BY <1>1, HasEntry DEF Holding
  <2>3. next'[entry[c]] = head
    BY <1>1, <2>2
  <2> QED BY <1>1, <2>1, <2>3 DEF Ready
<1> QED BY <1>5, <1>7, <1>10, <1>11 DEF Sound

\* The entry becomes the first of the list.
LEMMA PublishKeeps ==
    ASSUME TypesHold, Sound, NEW c \in Cars, Publish(c)
    PROVE  Sound'
<1>1. /\ place' = [place EXCEPT ![c] = "receiving", ![Monitor(c)] = "watching"]
      /\ place[c] = "joining" /\ head' = entry[c] /\ next' = next
      /\ entry' = entry /\ allocated' = allocated
      /\ place \in [Threads -> Places]
  BY DEF Publish, At, TypesHold, PlaceOK, memVars
<1>2. /\ place'[c] = "receiving" /\ place'[Main] = place[Main]
      /\ \A d \in Cars : d # c => place'[d] = place[d]
  BY <1>1, ThreadNames
<1>3. InList = {c}
  BY <1>1 DEF InList, Sound, Exclusive
<1>4. place[Main] # "walking"
  BY <1>3 DEF Sound, Exclusive
<1>5. \A d \in Cars : place'[d] \in Holding => place[d] \in Holding
  BY <1>1, <1>2 DEF Holding
<1>6. Own'
  BY <1>1, <1>5 DEF Sound, Own
<1>7. InList' = {}
  BY <1>2, <1>3 DEF InList
<1>8. Exclusive'
  BY <1>2, <1>4, <1>7 DEF Exclusive
<1>9. Joined' = Joined \cup {c} /\ c \notin Joined
  BY <1>1, <1>2 DEF Joined
<1>10. \A d \in Joined : entry[d] # entry[c]
  BY <1>1, <1>9, JoinedHold DEF Sound, Own, Holding
<1>11. entry[c] \in Entries /\ next[entry[c]] = head
  BY <1>1, HasEntry DEF Sound, Ready, Holding
<1>12. Chain'
  <2>1. PICK n \in Nat : \E s \in [0 .. n -> Entries \cup {NULL}] : Linked(s, n)
    BY DEF Sound, Chain
  <2>2. PICK s \in [0 .. n -> Entries \cup {NULL}] : Linked(s, n)
    BY <2>1
  <2>3. PICK r \in [0 .. n + 1 -> Entries \cup {NULL}] :
           r = [i \in 0 .. n + 1 |-> IF i = 0 THEN entry[c] ELSE s[i - 1]]
    <3>1. [i \in 0 .. n + 1 |-> IF i = 0 THEN entry[c] ELSE s[i - 1]] \in [0 .. n + 1 -> Entries \cup {NULL}]
      BY <1>11
    <3> QED BY <3>1
  <2>4. /\ r[0] = entry[c] /\ r[n + 1] = s[n]
        /\ \A i \in 0 .. n : r[i + 1] = s[i]
        /\ \A i \in 0 .. n : i = 0 \/ (i - 1 \in 0 .. n - 1 /\ r[i] = s[i - 1])
    BY <2>3
  <2>5. \A i \in 0 .. n - 1 : s[i] # entry[c]
    BY <1>10, <2>2 DEF Linked
  <2>6. \A i \in 0 .. n : next[r[i]] = r[i + 1]
    <3> SUFFICES ASSUME NEW i \in 0 .. n PROVE next[r[i]] = r[i + 1]
      OBVIOUS
    <3>1. CASE i = 0
      BY <1>11, <2>2, <2>4, <3>1 DEF Linked
    <3>2. CASE i # 0
      <4>1. i - 1 \in 0 .. n - 1 /\ r[i] = s[i - 1] /\ r[i + 1] = s[i] /\ (i - 1) + 1 = i
        BY <2>4, <3>2
      <4> QED BY <2>2, <4>1 DEF Linked
    <3> QED BY <3>1, <3>2
  <2>7. \A i, j \in 0 .. n : r[i] = r[j] => i = j
    <3> SUFFICES ASSUME NEW i \in 0 .. n, NEW j \in 0 .. n, r[i] = r[j] PROVE i = j
      OBVIOUS
    <3>1. CASE i = 0 \/ j = 0
      BY <2>4, <2>5, <3>1
    <3>2. CASE i # 0 /\ j # 0
      <4>1. i - 1 \in 0 .. n - 1 /\ j - 1 \in 0 .. n - 1 /\ s[i - 1] = s[j - 1]
        BY <2>4, <3>2
      <4>2. i - 1 = j - 1
        BY <2>2, <4>1 DEF Linked
      <4> QED BY <4>2
    <3> QED BY <3>1, <3>2
  <2>8. \A i \in 0 .. n : \E d \in Joined' : r[i] = entry[d]
    <3> SUFFICES ASSUME NEW i \in 0 .. n PROVE \E d \in Joined' : r[i] = entry[d]
      OBVIOUS
    <3>1. CASE i = 0
      BY <1>9, <2>4, <3>1
    <3>2. CASE i # 0
      BY <1>9, <2>2, <2>4, <3>2 DEF Linked
    <3> QED BY <3>1, <3>2
  <2>9. \A d \in Joined' : \E i \in 0 .. n : r[i] = entry[d]
    <3> SUFFICES ASSUME NEW d \in Joined' PROVE \E i \in 0 .. n : r[i] = entry[d]
      OBVIOUS
    <3>1. CASE d = c
      BY <2>4, <3>1
    <3>2. CASE d # c
      <4>1. PICK i \in 0 .. n - 1 : s[i] = entry[d]
        BY <1>9, <2>2, <3>2 DEF Linked
      <4>2. i \in 0 .. n /\ i + 1 \in 0 .. n
        OBVIOUS
      <4>3. r[i + 1] = entry[d]
        BY <2>4, <4>1, <4>2
      <4> QED BY <4>2, <4>3
    <3> QED BY <3>1, <3>2
  <2>10. PICK m \in Nat : m = n + 1
    OBVIOUS
  <2>11. m - 1 = n /\ 0 .. m = 0 .. n + 1
    BY <2>10
  <2>12. Linked(r, m)'
    <3>1. head' = r[0] /\ r[m] = NULL
      BY <1>1, <2>2, <2>4, <2>10 DEF Linked
    <3>2. entry' = entry /\ next' = next
      BY <1>1
    <3>3. 0 .. m - 1 = 0 .. n
      BY <2>11
    <3>4. \A i \in 0 .. m - 1 : next'[r[i]] = r[i + 1]
      BY <2>6, <3>2, <3>3
    <3>5. \A i, j \in 0 .. m - 1 : r[i] = r[j] => i = j
      BY <2>7, <3>3
    <3>6. \A i \in 0 .. m - 1 : \E d \in Joined' : r[i] = entry'[d]
      BY <2>8, <3>2, <3>3
    <3>7. \A d \in Joined' : \E i \in 0 .. m - 1 : r[i] = entry'[d]
      BY <2>9, <3>2, <3>3
    <3> QED BY <3>1, <3>4, <3>5, <3>6, <3>7, Zenon DEF Linked
  <2>13. r \in [0 .. m -> Entries \cup {NULL}]
    BY <2>3, <2>11
  <2>14. \E q \in [0 .. m -> Entries \cup {NULL}] : Linked(q, m)'
    BY <2>12, <2>13
  <2> QED BY <2>14 DEF Chain
<1>13. Ready'
  BY <1>7 DEF Ready, InList
<1> QED BY <1>6, <1>8, <1>12, <1>13 DEF Sound

\* The entry is skipped by the one that led to it, and the others keep their order.
LEMMA UnlinkKeeps ==
    ASSUME TypesHold, Sound, NEW c \in Cars, Unlink(c)
    PROVE  Sound'
<1>1. /\ place' = [place EXCEPT ![c] = "closing"] /\ place[c] = "unlinking"
      /\ entry' = entry /\ allocated' = allocated
      /\ place \in [Threads -> Places]
  BY DEF Unlink, GoesOn, At, To, TypesHold, PlaceOK, memVars
<1>2. /\ place'[c] = "closing" /\ place'[Main] = place[Main]
      /\ \A d \in Cars : d # c => place'[d] = place[d]
  BY <1>1, ThreadNames
<1>3. InList = {c}
  BY <1>1 DEF InList, Sound, Exclusive
<1>4. place[Main] # "walking"
  BY <1>3 DEF Sound, Exclusive
<1>5. \A d \in Cars : place'[d] \in Holding => place[d] \in Holding
  BY <1>1, <1>2 DEF Holding
<1>6. Own'
  BY <1>1, <1>5 DEF Sound, Own
<1>7. InList' = {}
  BY <1>2, <1>3 DEF InList
<1>8. Exclusive'
  BY <1>2, <1>4, <1>7 DEF Exclusive
<1>9. Joined' = Joined \ {c} /\ c \in Joined
  BY <1>1, <1>2 DEF Joined
<1>10. \A d \in Joined : d # c => entry[d] # entry[c]
  BY <1>1, JoinedHold DEF Sound, Own, Holding
<1>11. Ready'
  BY <1>7 DEF Ready, InList
<1>12. Chain'
  <2> DEFINE N == Cardinality(Cars)
  <2>1. N \in Nat
    BY CarsAreFinite
  <2>2. PICK n \in Nat : \E s \in [0 .. n -> Entries \cup {NULL}] : Linked(s, n)
    BY DEF Sound, Chain
  <2>3. PICK s \in [0 .. n -> Entries \cup {NULL}] : Linked(s, n)
    BY <2>2
  <2>4. n <= N
    BY <2>3, ListIsShort
  <2>5. \A k \in Nat : Nth[k] = IF k <= n THEN s[k] ELSE NULL
    BY <2>3, NthOfList
  <2>6. PICK m \in 0 .. n - 1 : s[m] = entry[c]
    BY <1>9, <2>3 DEF Linked
  <2>7. \A i \in 0 .. n - 1 : s[i] \in Entries /\ s[i] # NULL
    BY <2>3, LinkedEntries
  <2>8. \A i, j \in 0 .. n - 1 : s[i] = s[j] => i = j
    BY <2>3 DEF Linked
  <2> HIDE DEF N
  <2>9. ASSUME NEW i \in 0 .. n - 1
        PROVE  next'[s[i]] = IF i + 1 = m THEN s[m + 1] ELSE s[i + 1]
    <3> DEFINE Skips == \E k \in 1 .. N :
                  /\ Nth[k] = entry[c] /\ Nth[k - 1] = s[i]
                  /\ \A l \in 0 .. k - 1 : Nth[l] # entry[c]
    <3>1. next'[s[i]] = IF Skips THEN next[entry[c]] ELSE next[s[i]]
      BY <2>7 DEF Unlink, N
    <3>2. next[entry[c]] = s[m + 1] /\ next[s[i]] = s[i + 1]
      BY <2>3, <2>6 DEF Linked
    <3>3. CASE i + 1 = m
      <4>1. m \in 1 .. N /\ m \in Nat /\ m <= n /\ m - 1 \in Nat /\ m - 1 <= n /\ m - 1 = i
        BY <2>1, <2>4, <3>3
      <4>2. Nth[m] = entry[c] /\ Nth[m - 1] = s[i]
        BY <2>5, <2>6, <4>1
      <4>3. ASSUME NEW l \in 0 .. m - 1 PROVE Nth[l] # entry[c]
        <5>1. l \in Nat /\ l <= n /\ l \in 0 .. n - 1 /\ l # m
          BY <4>1
        <5>2. s[l] # s[m]
          BY <2>8, <5>1
        <5> QED BY <2>5, <2>6, <5>1, <5>2
      <4>4. Skips
        BY <4>1, <4>2, <4>3
      <4> QED BY <3>1, <3>2, <3>3, <4>4
    <3>4. CASE i + 1 # m
      <4>1. ASSUME Skips PROVE FALSE
        <5>1. PICK k \in 1 .. N : Nth[k] = entry[c] /\ Nth[k - 1] = s[i]
          BY <4>1
        <5>2. k \in Nat /\ k - 1 \in Nat
          BY <2>1
        <5>3. entry[c] # NULL
          BY <2>6, <2>7
        <5>4. k <= n /\ s[k] = entry[c]
          BY <2>5, <5>1, <5>2, <5>3
        <5>5. k # n
          BY <2>3, <5>3, <5>4 DEF Linked
        <5>6. k \in 0 .. n - 1 /\ k - 1 \in 0 .. n - 1
          BY <5>2, <5>4, <5>5
        <5>7. k = m
          BY <2>6, <2>8, <5>4, <5>6
        <5>8. s[k - 1] = s[i]
          BY <2>5, <5>1, <5>2, <5>6
        <5>9. k - 1 = i
          BY <2>8, <5>6, <5>8
        <5> QED BY <3>4, <5>2, <5>7, <5>9
      <4> QED BY <3>1, <3>2, <3>4, <4>1
    <3> QED BY <3>3, <3>4
  <2>10. PICK p \in Nat : p = n - 1
    BY <2>6
  <2>11. PICK r \in [0 .. p -> Entries \cup {NULL}] :
            r = [i \in 0 .. p |-> IF i < m THEN s[i] ELSE s[i + 1]]
    <3>1. [i \in 0 .. p |-> IF i < m THEN s[i] ELSE s[i + 1]] \in [0 .. p -> Entries \cup {NULL}]
      BY <2>10
    <3> QED BY <3>1
  <2>12. \A i \in 0 .. p : r[i] = IF i < m THEN s[i] ELSE s[i + 1]
    BY <2>11
  <2>13. \A i \in 0 .. p - 1 : i \in 0 .. n - 1 /\ i + 1 \in 0 .. n - 1 /\ i + 1 \in 0 .. p
    BY <2>10
  <2>14. head' = r[0]
    <3>1. head' = IF head = entry[c] THEN next[entry[c]] ELSE head
      BY DEF Unlink
    <3>2. head = s[0] /\ next[entry[c]] = s[m + 1]
      BY <2>3, <2>6 DEF Linked
    <3>3. s[0] = entry[c] <=> m = 0
      <4>1. 0 \in 0 .. n - 1
        BY <2>6
      <4> QED BY <2>6, <2>8, <4>1
    <3>4. 0 \in 0 .. p /\ (0 < m <=> m # 0)
      BY <2>6
    <3>5. r[0] = IF m = 0 THEN s[m + 1] ELSE s[0]
      BY <2>12, <3>4
    <3> QED BY <3>1, <3>2, <3>3, <3>5
  <2>15. r[p] = NULL
    <3>1. p \in 0 .. p /\ ~(p < m) /\ p + 1 = n
      BY <2>6, <2>10
    <3> QED BY <2>3, <2>12, <3>1 DEF Linked
  <2>16. ASSUME NEW i \in 0 .. p - 1 PROVE next'[r[i]] = r[i + 1]
    <3>1. i \in 0 .. n - 1 /\ i + 1 \in 0 .. n - 1 /\ i \in 0 .. p /\ i + 1 \in 0 .. p /\ m \in Int
      BY <2>6, <2>13
    <3>2. CASE i < m
      <4>1. r[i] = s[i]
        BY <2>12, <3>1, <3>2
      <4>2. next'[s[i]] = IF i + 1 = m THEN s[m + 1] ELSE s[i + 1]
        BY <2>9, <3>1
      <4>3. CASE i + 1 = m
        <5>1. ~(i + 1 < m) /\ (i + 1) + 1 = m + 1
          BY <3>1, <4>3
        <5>2. r[i + 1] = s[m + 1]
          BY <2>12, <3>1, <5>1
        <5> QED BY <4>1, <4>2, <4>3, <5>2
      <4>4. CASE i + 1 # m
        <5>1. i + 1 < m
          BY <3>1, <3>2, <4>4
        <5>2. r[i + 1] = s[i + 1]
          BY <2>12, <3>1, <5>1
        <5> QED BY <4>1, <4>2, <4>4, <5>2
      <4> QED BY <4>3, <4>4
    <3>3. CASE ~(i < m)
      <4>1. ~(i + 1 < m) /\ (i + 1) + 1 # m
        BY <3>1, <3>3
      <4>2. r[i] = s[i + 1] /\ r[i + 1] = s[(i + 1) + 1]
        BY <2>12, <3>1, <3>3, <4>1
      <4>3. next'[s[i + 1]] = s[(i + 1) + 1]
        BY <2>9, <3>1, <4>1
      <4> QED BY <4>2, <4>3
    <3> QED BY <3>2, <3>3
  <2>17. ASSUME NEW i \in 0 .. p - 1 PROVE \E j \in 0 .. n - 1 : j # m /\ r[i] = s[j] /\ (j = i \/ j = i + 1)
    <3>1. i \in 0 .. p /\ i \in 0 .. n - 1 /\ i + 1 \in 0 .. n - 1 /\ m \in Int
      BY <2>6, <2>13
    <3>2. CASE i < m
      BY <2>12, <3>1, <3>2
    <3>3. CASE ~(i < m)
      <4>1. i + 1 # m
        BY <3>1, <3>3
      <4> QED BY <2>12, <3>1, <3>3, <4>1
    <3> QED BY <3>2, <3>3
  <2>18. ASSUME NEW i \in 0 .. p - 1, NEW j \in 0 .. p - 1, r[i] = r[j] PROVE i = j
    <3>1. /\ i \in 0 .. p /\ i \in 0 .. n - 1 /\ i + 1 \in 0 .. n - 1 /\ m \in Int
          /\ j \in 0 .. p /\ j \in 0 .. n - 1 /\ j + 1 \in 0 .. n - 1
      BY <2>6, <2>13
    <3>2. CASE i < m /\ j < m
      <4>1. s[i] = s[j]
        BY <2>12, <2>18, <3>1, <3>2
      <4> QED BY <2>8, <3>1, <4>1
    <3>3. CASE ~(i < m) /\ ~(j < m)
      <4>1. s[i + 1] = s[j + 1]
        BY <2>12, <2>18, <3>1, <3>3
      <4>2. i + 1 = j + 1
        BY <2>8, <3>1, <4>1
      <4> QED BY <3>1, <4>2
    <3>4. CASE i < m /\ ~(j < m)
      <4>1. s[i] = s[j + 1]
        BY <2>12, <2>18, <3>1, <3>4
      <4>2. i = j + 1
        BY <2>8, <3>1, <4>1
      <4> QED BY <3>1, <3>4, <4>2
    <3>5. CASE ~(i < m) /\ j < m
      <4>1. s[i + 1] = s[j]
        BY <2>12, <2>18, <3>1, <3>5
      <4>2. i + 1 = j
        BY <2>8, <3>1, <4>1
      <4> QED BY <3>1, <3>5, <4>2
    <3> QED BY <3>2, <3>3, <3>4, <3>5
  <2>19. ASSUME NEW i \in 0 .. p - 1 PROVE \E d \in Joined' : r[i] = entry'[d]
    <3>1. PICK j \in 0 .. n - 1 : j # m /\ r[i] = s[j]
      BY <2>17
    <3>2. PICK d \in Joined : s[j] = entry[d]
      BY <2>3 DEF Linked
    <3>3. d # c
      BY <2>6, <2>8, <3>1, <3>2
    <3> QED BY <1>1, <1>9, <3>1, <3>2, <3>3
  <2>20. ASSUME NEW d \in Joined' PROVE \E i \in 0 .. p - 1 : r[i] = entry'[d]
    <3>1. d \in Joined /\ d # c
      BY <1>9
    <3>2. PICK j \in 0 .. n - 1 : s[j] = entry[d]
      BY <2>3, <3>1 DEF Linked
    <3>3. j # m /\ m \in Int
      BY <1>10, <2>6, <3>1, <3>2
    <3>4. CASE j < m
      <4>1. j \in 0 .. p - 1 /\ j \in 0 .. p
        BY <2>6, <2>10, <3>4
      <4>2. r[j] = entry[d]
        BY <2>12, <3>2, <3>4, <4>1
      <4> QED BY <1>1, <4>1, <4>2
    <3>5. CASE ~(j < m)
      <4>1. j - 1 \in 0 .. p - 1 /\ j - 1 \in 0 .. p /\ ~(j - 1 < m) /\ (j - 1) + 1 = j
        BY <2>6, <2>10, <3>3, <3>5
      <4>2. r[j - 1] = entry[d]
        BY <2>12, <3>2, <4>1
      <4> QED BY <1>1, <4>1, <4>2
    <3> QED BY <3>4, <3>5
  <2>21. Linked(r, p)'
    BY <2>14, <2>15, <2>16, <2>18, <2>19, <2>20, Zenon DEF Linked
  <2>22. \E q \in [0 .. p -> Entries \cup {NULL}] : Linked(q, p)'
    BY <2>21
  <2> QED BY <2>22 DEF Chain
<1> QED BY <1>6, <1>8, <1>11, <1>12 DEF Sound

\* A handler waits for the mutex before it looks for its entry.
LEMMA LeaveKeeps ==
    ASSUME TypesHold, Sound, NEW c \in Cars, Leave(c)
    PROVE  Sound'
<1>1. /\ place' = [place EXCEPT ![c] = "unlinking"] /\ place[c] = "leaving"
      /\ UNCHANGED <<entry, allocated, head, next>>
      /\ place \in [Threads -> Places]
  BY DEF Leave, GoesOn, At, To, TypesHold, PlaceOK, memVars
<1>2. /\ place'[c] = "unlinking" /\ place'[Main] = place[Main]
      /\ \A d \in Cars : d # c => place'[d] = place[d]
  BY <1>1, ThreadNames
<1>3. InList = {} /\ place[Main] # "walking"
  BY DEF Leave, Sound, Exclusive
<1>4. \A d \in Cars : place'[d] \in Holding => place[d] \in Holding
  BY <1>1, <1>2 DEF Holding
<1>5. Own'
  BY <1>1, <1>4 DEF Sound, Own
<1>6. InList' = {c}
  BY <1>2, <1>3 DEF InList
<1>7. Exclusive'
  BY <1>2, <1>3, <1>6 DEF Leave, Exclusive
<1>8. Joined' = Joined
  BY <1>1, <1>2 DEF Joined
<1>9. \A d \in Cars : place'[d] = "joining" => place[d] = "joining"
  BY <1>1, <1>2
<1>10. Chain' /\ Ready'
  BY <1>1, <1>8, <1>9, ListStays DEF Sound
<1> QED BY <1>5, <1>7, <1>10 DEF Sound

\* An entry is freed when it has left the list, and nobody else's is.
LEMMA CleanUpKeeps ==
    ASSUME TypesHold, Sound, NEW c \in Cars, CleanUp(c)
    PROVE  Sound'
<1>1. /\ place' = [place EXCEPT ![c] = "over"] /\ place[c] = "closing"
      /\ UNCHANGED <<head, next, locked>>
      /\ allocated' = allocated \ {entry[c]} /\ entry' = [entry EXCEPT ![c] = NULL]
      /\ place \in [Threads -> Places] /\ entry \in [Cars -> Used \cup {NULL}]
  BY DEF CleanUp, GoesOn, At, To, TypesHold, PlaceOK, MemOK, listVars
<1>2. /\ place'[c] = "over" /\ place'[Main] = place[Main]
      /\ \A d \in Cars : d # c => place'[d] = place[d] /\ entry'[d] = entry[d]
  BY <1>1, ThreadNames
<1>3. \A d \in Cars : place'[d] \in Holding => d # c /\ place[d] \in Holding
  BY <1>1, <1>2 DEF Holding
<1>4. \A d \in Cars : d # c /\ place[d] \in Holding => entry[d] # entry[c]
  BY <1>1 DEF Sound, Own, Holding
<1>5. Own'
  BY <1>1, <1>2, <1>3, <1>4 DEF Sound, Own
<1>6. InList' = InList
  BY <1>1, <1>2 DEF InList
<1>7. Exclusive'
  BY <1>1, <1>2, <1>6 DEF Sound, Exclusive
<1>8. Joined' = Joined /\ c \notin Joined
  BY <1>1, <1>2 DEF Joined
<1>9. \A d \in Joined : entry'[d] = entry[d]
  BY <1>2, <1>8 DEF Joined
<1>10. \A d \in Cars : place'[d] = "joining" => place[d] = "joining" /\ entry'[d] = entry[d]
  BY <1>2
<1>11. Chain' /\ Ready'
  BY <1>1, <1>8, <1>9, <1>10, ListStays DEF Sound
<1> QED BY <1>5, <1>7, <1>11 DEF Sound

SoundInv == Safe => Sound

LEMMA CarKeeps ==
    ASSUME TypesHold, SoundInv, NEW c \in Cars, HandlesCar(c) \/ Monitors(c), ~TellFails(c)
    PROVE  SoundInv'
<1>0. /\ c \in Peers /\ c \in Threads /\ Monitor(c) \in Threads /\ Main \in Threads
      /\ c # Main /\ Monitor(c) # Main /\ c # Signal /\ Monitor(c) # Signal
      /\ \A d \in Cars : d \in Threads /\ d # Monitor(c) /\ d # Main
      /\ place \in [Threads -> Places]
  BY ThreadNames DEF TypesHold, PlaceOK
<1> SUFFICES ASSUME Safe' PROVE Sound'
  BY DEF SoundInv
<1>1. broken' = broken
  BY DEF HandlesCar, Monitors, GreetFails, Allocate, Join, Publish, ReceiveFails, ReceiveOther,
         TellsNext, Leave, Unlink, CleanUp, listVars
<1>2. place'[Signal] = place[Signal]
  <2>1. Signal \in Threads /\ \A p \in Peers : p # Signal
    BY ThreadNames
  <2> QED BY <1>0, <2>1 DEF HandlesCar, Monitors, GreetFails, Allocate, Join, Publish, ReceiveFails,
         ReceiveOther, TellsNext, Leave, Unlink, CleanUp, GoesOn, To
<1>3. Sound
  BY <1>1, <1>2 DEF Safe, At, SoundInv
<1>4. CASE Allocate(c) BY <1>3, <1>4, AllocateKeeps
<1>5. CASE Join(c) BY <1>3, <1>5, JoinKeeps
<1>6. CASE Publish(c) BY <1>3, <1>6, PublishKeeps
<1>7. CASE Leave(c) BY <1>3, <1>7, LeaveKeeps
<1>8. CASE Unlink(c) BY <1>3, <1>8, UnlinkKeeps
<1>9. CASE CleanUp(c) BY <1>3, <1>9, CleanUpKeeps
<1>10. CASE GreetFails(c) \/ ReceiveFails(c) \/ ReceiveOther(c) \/ TellsNext(c) \/ Monitors(c)
  <2>1. UNCHANGED <<entry, allocated, head, next, locked>>
    BY <1>10 DEF GreetFails, ReceiveFails, ReceiveOther, TellsNext, Monitors, memVars, listVars
  <2>2. place'[Main] = place[Main]
    BY <1>0, <1>10, ThreadNames
       DEF GreetFails, ReceiveFails, ReceiveOther, TellsNext, Monitors, GoesOn, To
  <2>3. ASSUME NEW d \in Cars
        PROVE  \/ place'[d] = place[d]
               \/ place[d] \in Away /\ place'[d] \in Away
               \/ place[d] = "receiving" /\ place'[d] = "leaving"
    BY <1>0, <1>10, ThreadNames
       DEF GreetFails, ReceiveFails, ReceiveOther, TellsNext, Monitors, GoesOn, At, To, Away
  <2>4. Quiet
    BY <2>1, <2>2, <2>3 DEF Quiet
  <2> QED BY <1>3, <2>4, QuietKeeps
<1> QED BY <1>4, <1>5, <1>6, <1>7, <1>8, <1>9, <1>10 DEF HandlesCar

\* When the process ends there is no entry and no list.
LEMMA EndsKeeps ==
    ASSUME NEW how, Ends(how)
    PROVE  SoundInv'
<1>1. /\ head' = NULL /\ locked' = FALSE /\ place' = [t \in Threads |-> "over"]
  BY DEF Ends
<1>2. place'[Main] = "over" /\ \A d \in Cars : place'[d] = "over"
  BY <1>1, ThreadNames
<1>3. Own' /\ Ready' /\ InList' = {} /\ Joined' = {}
  BY <1>2 DEF Own, Ready, InList, Joined, Holding
<1>4. Exclusive'
  BY <1>2, <1>3 DEF Exclusive
<1>5. PICK s \in [0 .. 0 -> Entries \cup {NULL}] : s = [i \in 0 .. 0 |-> NULL]
  OBVIOUS
<1>6. Linked(s, 0)'
  BY <1>1, <1>3, <1>5 DEF Linked
<1>7. \E q \in [0 .. 0 -> Entries \cup {NULL}] : Linked(q, 0)'
  BY <1>6
<1>8. Chain'
  BY <1>7 DEF Chain
<1> QED BY <1>3, <1>4, <1>8 DEF Sound, SoundInv

\* The dispatcher opens the mutex a second time: either nobody held it, or all is lost.
LEMMA DispatcherKeeps ==
    ASSUME TypesHold, SoundInv, DispatcherRuns
    PROVE  SoundInv'
<1>1. CASE SendFails
  BY <1>1, EndsKeeps DEF SendFails
<1>2. CASE LockCalls \/ TakeCall \/ LockList \/ Walk \/ UnlockAgain \/ Assign \/ Answer
  <2>0. /\ Main \in Threads /\ Signal \in Threads /\ Signal # Main
        /\ \A d \in Cars : d \in Threads /\ d # Main
        /\ place \in [Threads -> Places]
    BY ThreadNames DEF TypesHold, PlaceOK
  <2> SUFFICES ASSUME Safe' PROVE Sound'
    BY DEF SoundInv
  <2>1. UNCHANGED <<entry, allocated, head, next>>
    BY <1>2 DEF LockCalls, TakeCall, LockList, Walk, UnlockAgain, Assign, Answer, memVars, listVars
  <2>2. \E q : place' = [place EXCEPT ![Main] = q]
    BY <1>2 DEF LockCalls, TakeCall, LockList, Walk, UnlockAgain, Assign, Answer, Dispatches, GoesOn, To
  <2>3. place'[Signal] = place[Signal] /\ \A d \in Cars : place'[d] = place[d]
    BY <2>0, <2>2
  <2>4. ~broken
    BY <1>2 DEF LockCalls, TakeCall, LockList, Walk, UnlockAgain, Assign, Answer, listVars, Safe
  <2>5. Sound
    BY <2>3, <2>4 DEF Safe, At, SoundInv
  <2>6. InList' = InList /\ Joined' = Joined
    BY <2>3 DEF InList, Joined
  <2>7. Own'
    BY <2>1, <2>3, <2>5 DEF Sound, Own
  <2>8. Chain' /\ Ready'
    BY <2>1, <2>3, <2>5, <2>6, ListStays DEF Sound
  <2>9. Exclusive'
    <3>1. CASE LockCalls \/ TakeCall \/ Assign \/ Answer
      <4>1. locked' = locked
        BY <3>1 DEF LockCalls, TakeCall, Assign, Answer, listVars
      <4>2. place'[Main] # "walking"
        BY <2>0, <3>1 DEF LockCalls, TakeCall, Assign, Answer, Dispatches, GoesOn, To
      <4> QED BY <2>5, <2>6, <4>1, <4>2 DEF Sound, Exclusive
    <3>2. CASE LockList
      <4>1. InList = {}
        BY <2>5, <3>2 DEF LockList, Sound, Exclusive
      <4> QED BY <2>6, <3>2, <4>1 DEF LockList, Exclusive
    <3>3. CASE Walk
      <4>1. InList = {} /\ (~locked => place[Main] # "walking")
        BY <2>5, <3>3 DEF Walk, Dispatches, GoesOn, At, Sound, Exclusive
      <4>2. (~locked' => place'[Main] # "walking")
        <5>1. \/ locked' = locked /\ place[Main] = "walking"
              \/ place'[Main] \in {"unlocking", "refusing"}
          BY <2>0, <3>3 DEF Walk, Dispatches, GoesOn, At, To
        <5> QED BY <4>1, <5>1
      <4> QED BY <2>6, <4>1, <4>2 DEF Exclusive
    <3>4. CASE UnlockAgain
      <4>1. ~locked
        BY <3>4 DEF UnlockAgain, Safe
      <4>2. InList = {}
        BY <2>5, <4>1 DEF Sound, Exclusive
      <4>3. place'[Main] # "walking"
        BY <2>0, <3>4 DEF UnlockAgain, Dispatches, GoesOn, To
      <4> QED BY <2>6, <4>2, <4>3 DEF Exclusive
    <3> QED BY <1>2, <3>1, <3>2, <3>3, <3>4
  <2> QED BY <2>7, <2>8, <2>9 DEF Sound
<1> QED BY <1>1, <1>2 DEF DispatcherRuns

LEMMA NextKeeps ==
    ASSUME TypesHold, SoundInv, [Next]_vars
    PROVE  SoundInv'
<1>0. /\ Main \in Threads /\ Signal \in Threads /\ Signal # Main
      /\ \A d \in Cars : d \in Threads /\ d # Main /\ d # Signal
      /\ \A p \in Peers : p \in Threads /\ p # Main /\ p # Signal
      /\ place \in [Threads -> Places]
  BY ThreadNames DEF TypesHold, PlaceOK, Threads
<1>1. CASE Crash
  BY <1>1, EndsKeeps DEF Crash
<1>2. CASE DispatcherRuns
  BY <1>2, DispatcherKeeps
<1>3. CASE \E c \in Cars : HandlesCar(c) \/ Monitors(c)
  <2>1. PICK c \in Cars : HandlesCar(c) \/ Monitors(c)
    BY <1>3
  <2>2. CASE TellFails(c)
    BY <2>2, EndsKeeps DEF TellFails
  <2>3. CASE ~TellFails(c)
    BY <2>1, <2>3, CarKeeps
  <2> QED BY <2>2, <2>3
<1>4. CASE AcceptFails \/ InterruptCalls
  BY <1>4, EndsKeeps DEF AcceptFails, InterruptCalls
<1>5. CASE InterruptCars
  BY <1>0, <1>5 DEF InterruptCars, GoesOn, To, At, Safe, SoundInv
<1>6. CASE \/ \E p \in Leavers : HangUp(p)
           \/ Interrupt
           \/ \E p \in Peers : Accept(p)
           \/ \E p \in Callers : HandlesCall(p)
           \/ UNCHANGED vars
  <2>1. UNCHANGED <<entry, allocated, head, next, locked, broken>>
    BY <1>6 DEF HangUp, Interrupt, Accept, HandlesCall, GreetCaller, GreetFails, vars, memVars, listVars
  <2>2. /\ \A d \in Cars : place'[d] = place[d] \/ (place[d] \in Away /\ place'[d] \in Away)
        /\ place'[Main] = "walking" => place[Main] = "walking"
        /\ place'[Signal] = place[Signal] \/ place[Signal] = "none"
    <3>1. CASE \/ \E p \in Leavers : HangUp(p)
               \/ UNCHANGED vars
      BY <3>1 DEF HangUp, vars
    <3>2. CASE Interrupt
      BY <1>0, <3>2 DEF Interrupt, GoesOn, At, To
    <3>3. CASE \E p \in Peers : Accept(p)
      BY <1>0, <3>3 DEF Accept, GoesOn, At, To, Away
    <3>4. CASE \E p \in Callers : HandlesCall(p)
      <4>1. PICK p \in Callers : HandlesCall(p)
        BY <3>4
      <4>2. p \in Threads /\ p # Main /\ p # Signal /\ \A d \in Cars : d # p
        BY ThreadNames, ThreadsAssumption
      <4>3. CASE GreetFails(p)
        BY <1>0, <4>2, <4>3 DEF GreetFails, To, Away
      <4>4. CASE GreetCaller(p)
        <5>1. place' = [place EXCEPT ![p] = "over", ![Main] = IF @ = "waiting" THEN "locking" ELSE @]
          BY <4>4 DEF GreetCaller
        <5>2. place'[Signal] = place[Signal] /\ \A d \in Cars : place'[d] = place[d]
          BY <1>0, <4>2, <5>1
        <5>3. place'[Main] \in {place[Main], "locking"}
          BY <1>0, <4>2, <5>1
        <5> QED BY <5>2, <5>3
      <4> QED BY <4>1, <4>3, <4>4 DEF HandlesCall
    <3> QED BY <1>6, <3>1, <3>2, <3>3, <3>4
  <2>3. Quiet
    BY <2>1, <2>2 DEF Quiet
  <2>4. Safe' => Safe
    BY <2>1, <2>2 DEF Safe, At
  <2> QED BY <2>3, <2>4, QuietKeeps DEF SoundInv
<1> QED BY <1>1, <1>2, <1>3, <1>4, <1>5, <1>6 DEF Next, Outside, Accepts, CleansUp

LEMMA InitKeeps == Init => SoundInv
<1> SUFFICES ASSUME Init PROVE SoundInv
  OBVIOUS
<1>1. head = NULL /\ place = [t \in Threads |-> IF t = Main THEN "locking" ELSE "none"]
  BY DEF Init
<1>2. place[Main] = "locking" /\ \A d \in Cars : place[d] = "none"
  BY <1>1, ThreadNames
<1>3. Own /\ Ready /\ InList = {} /\ Joined = {}
  BY <1>2 DEF Own, Ready, InList, Joined, Holding
<1>4. Exclusive
  BY <1>2, <1>3 DEF Exclusive
<1>5. PICK s \in [0 .. 0 -> Entries \cup {NULL}] : s = [i \in 0 .. 0 |-> NULL]
  OBVIOUS
<1>6. Linked(s, 0)
  BY <1>1, <1>3, <1>5 DEF Linked
<1>7. Chain
  BY <1>6 DEF Chain
<1> QED BY <1>3, <1>4, <1>7 DEF Sound, SoundInv

ListInv == TypesHold /\ SoundInv

\* The types, and the order of the list.
THEOREM ListInvariance == Spec => []ListInv
<1>1. Init => ListInv
  BY InitType, InitKeeps DEF ListInv
<1>2. ListInv /\ [Next]_vars => ListInv'
  BY NextType, NextKeeps DEF ListInv
<1> QED BY <1>1, <1>2, PTL DEF Spec

\* Every variable of the controller keeps its type; the dispatcher answers or tells a car
\* only when select_best_car returned one, and a link leads to an address where some car's
\* entry is or has been (controller.c:126-137, 447).
THEOREM ThreadsTypeCorrect == Spec => []ThreadsTypeOK
BY ListInvariance, TypesSuffice, PTL DEF ListInv

\* Until the second unlock opens the mutex under another thread, or the SIGINT handler
\* frees the entries, the list ends and holds the entries of the cars that have joined and
\* not yet left, none of them freed: malloc may give out an address again, but never one
\* that the list still leads to (controller.c:447, 472-473, 556-582).
THEOREM ListStaysSound == Spec => []ListSound
<1>1. ListInv => ListSound
  BY SoundList DEF ListInv, SoundInv, Safe, ListSound
<1> QED BY <1>1, ListInvariance, PTL
=============================================================================
